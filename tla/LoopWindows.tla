------------------------------ MODULE LoopWindows ------------------------------
(***************************************************************************)
(* What is done with reads and updates of parts of tensors in the body of  *)
(* a loop: dynamic_slice of dynamic_update_slice and updates of updates    *)
(* (WhileDUSDSSimplify and WhileDUSDUSSimplify of Passes/EnzymeHLOOpt.cpp),*)
(* reads that need not wait for earlier iterations                         *)
(* (RemoveLoopCarriedDependenciesFromWhileLoadOperations of                *)
(* Passes/AutoBatching.cpp), reads of all iterations done at once          *)
(* (GreedyWhileLoopBatchFission), and loops that only copy                 *)
(* (WhileIsCopySimplify).                                                  *)
(*                                                                         *)
(* Tensors have one dimension. The body reads one window, `read`, and      *)
(* passes on the tensor `next`; both are trees over the tensors of the     *)
(* loop: "x" is defined outside, "a" is the one carried, "init" what it is *)
(* at first, "c" an update defined outside, "u" and "v" are computed in    *)
(* each iteration. Several rewrites omit a condition they depend on:       *)
(* `faithful` records that every one so far met it.                        *)
(***************************************************************************)
EXTENDS WhileLoopInfo

VARIABLES
  read, next,   \* the trees, rewritten
  carried,      \* the tensor "a"
  batched,      \* the reads of all iterations, once done ahead of the loop
  indices,      \* an affine value in all iterations, computed ahead of the loop
  copied,       \* the final tensor, once computed ahead of the loop
  faithful,     \* see above
  inBounds      \* no window of an earlier iteration left its tensor
ahead == <<batched, indices, copied>>
windows == <<read, next, carried, ahead, faithful, inBounds>>

None == <<>>

-----------------------------------------------------------------------------
(* Trees and their values                                                  *)

Tensor(name, n) == [op |-> "tensor", name |-> name, n |-> n]
DynamicSlice(of, at, n) == [op |-> "ds", of |-> of, at |-> at, n |-> n]
DynamicUpdateSlice(of, upd, at) == [op |-> "dus", of |-> of, upd |-> upd, at |-> at, n |-> of.n]

\* A start index is moved until the window fits.
Clamped(start, n, size) == Least({Greatest({start, 0}), size - n})

Fresh == {"u", "v"}
\* The elements of a tensor in the iteration that is to run next.
Elements(t) ==
  CASE t.name = "a" -> carried
    [] t.name \in Fresh -> [j \in 1 .. t.n |-> <<t.name, iters, j>>]
    [] OTHER -> [j \in 1 .. t.n |-> <<IF t.name = "init" THEN "a" ELSE t.name, 0, j>>]

RECURSIVE Eval(_)
Eval(t) ==
  LET start == Operand(t.at, Given, loop.arg)
      of == Eval(t.of)
  IN  CASE t.op = "tensor" -> Elements(t)
        [] t.op = "ds" -> SubSeq(of, Clamped(start, t.n, t.of.n) + 1, Clamped(start, t.n, t.of.n) + t.n)
        [] t.op = "dus" ->
             LET from == Clamped(start, t.upd.n, t.n)
                 upd == Eval(t.upd)
             IN  [j \in 1 .. t.n |-> IF j \in from + 1 .. from + t.upd.n THEN upd[j - from] ELSE of[j]]

\* No window of the tree is moved.
RECURSIVE Fits(_)
Fits(t) ==
  CASE t.op = "tensor" -> TRUE
    [] t.op = "ds" -> Fits(t.of) /\ Operand(t.at, Given, loop.arg) \in 0 .. t.of.n - t.n
    [] t.op = "dus" -> Fits(t.of) /\ Fits(t.upd) /\ Operand(t.at, Given, loop.arg) \in 0 .. t.n - t.upd.n

\* Whatever the tree t has in place of `old` becomes `new`.
RECURSIVE Put(_, _, _)
Put(t, old, new) ==
  CASE t = old -> new
    [] t # old /\ t.op = "tensor" -> t
    [] t # old /\ t.op = "ds" -> [t EXCEPT !.of = Put(@, old, new)]
    [] t # old /\ t.op = "dus" -> [t EXCEPT !.of = Put(@, old, new), !.upd = Put(@, old, new)]

RECURSIVE Below(_)
Below(t) ==
  {t} \union CASE t.op = "tensor" -> {} [] t.op = "ds" -> Below(t.of)
               [] t.op = "dus" -> Below(t.of) \union Below(t.upd)

-----------------------------------------------------------------------------
(* Windows of windows                                                      *)

\* The patterns run before the loop does, on what the analysis found.
Pass == phase = "run" /\ iters = 0 /\ batched = None /\ indices = None /\ copied = None

IsCst(x) == x.k = "cst"
HasInfo(x) == x.k = "val" /\ x.v \in DOMAIN affine
UnitInfo(x) == HasInfo(x) /\ affine[x.v].scale = 1

\* Where two start indices stand to each other is known: both constants, or
\* both the induction variable plus something.
Related(x, y) == (IsCst(x) /\ IsCst(y)) \/ (UnitInfo(x) /\ UnitInfo(y))
Place(x) == IF IsCst(x) THEN x.v ELSE affine[x.v].offset

\* DUSDSSimplifyWithSomeUpdateOverlapHelper: what replaces the slice r of the
\* update d, at most one. A slice that would have to be padded, which is done
\* for an operand that is one constant throughout, is left out.
SomeOverlap(r, d) ==
  LET shift == IF r.at = d.at THEN 0 ELSE Place(r.at) - Place(d.at)
      beyond == IsCst(r.at) /\ IsCst(d.at) /\ Place(d.at) + d.upd.n <= Place(r.at)
      known == r.at = d.at \/ (Related(r.at, d.at) /\ ~beyond)
  IN  IF known
      THEN IF shift = 0 /\ d.upd.n = r.n THEN {d.upd}
           ELSE IF shift >= 0 /\ shift + r.n <= d.upd.n THEN {DynamicSlice(d.upd, Cst(shift), r.n)}
           ELSE {}
      ELSE IF d.at = Cst(0) /\ d.upd.n = d.n /\ ~Related(r.at, d.at)
           THEN {DynamicSlice(d.upd, r.at, r.n)}
      ELSE {}

\* DUSDSSimplifyWithNoUpdateOverlapHelper
NoOverlap(r, d) ==
  IF r.at # d.at /\ Related(r.at, d.at)
       /\ (Place(r.at) + r.n <= Place(d.at) \/ Place(d.at) + d.upd.n <= Place(r.at))
  THEN {DynamicSlice(d.of, r.at, r.n)} ELSE {}

Substitute(old, new) ==
  /\ read' = Put(read, old, new)
  /\ next' = Put(next, old, new)
  /\ UNCHANGED <<vars, carried, ahead, faithful, inBounds>>

\* WhileDUSDSSimplify; DUSDSSimplifyHelper tries the overlap first.
WhileDUSDS ==
  /\ Pass /\ HasStep /\ Step # 0
  /\ \E r \in Below(read) \union Below(next) :
       /\ r.op = "ds" /\ r.of.op = "dus"
       /\ \E new \in IF SomeOverlap(r, r.of) # {} THEN SomeOverlap(r, r.of) ELSE NoOverlap(r, r.of) :
            Substitute(r, new)

\* DUSDUSSimplifyHelper
WhileDUSDUS ==
  /\ Pass /\ HasStep /\ Step # 0
  /\ \E outer \in Below(read) \union Below(next) :
       /\ outer.op = "dus" /\ outer.of.op = "dus"
       /\ LET inner == outer.of
              known == Related(outer.at, inner.at)
              begin(d) == Place(d.at)
              end(d) == Place(d.at) + d.upd.n
              whole(d) == d.at = Cst(0) /\ d.upd.n = d.n
              covers == IF outer.at = inner.at THEN outer.upd.n >= inner.upd.n
                        ELSE whole(outer) \/ (known /\ begin(outer) <= begin(inner) /\ end(outer) >= end(inner))
              within == whole(inner) \/ (known /\ begin(outer) >= begin(inner) /\ end(outer) <= end(inner))
              offset == IF whole(inner) /\ ~known THEN outer.at ELSE Cst(begin(outer) - begin(inner))
          IN  \/ covers /\ Substitute(outer, DynamicUpdateSlice(inner.of, outer.upd, outer.at))
              \/ /\ ~covers /\ within
                 /\ Substitute(outer, DynamicUpdateSlice(inner.of,
                                        DynamicUpdateSlice(inner.upd, outer.upd, offset), inner.at))

-----------------------------------------------------------------------------
(* Reads that do not depend on earlier iterations                          *)

\* isConstantAcrossIterations without operands: the value is defined outside.
OutsideLoop(x) == x.k \in {"cst", "arg"}
Dependent(x) == HasInfo(x) /\ ~OutsideLoop(x)

\* The updates that make up t, if it is a chain of them on "a".
RECURSIVE Chain(_)
Chain(t) == IF t.op = "dus" THEN {t} \union Chain(t.of) ELSE {}
RECURSIVE Root(_)
Root(t) == IF t.op = "dus" THEN Root(t.of) ELSE t

\* Mutant: an update at another index does not stop it.
UpdatedAtFirst(at, n) ==
  /\ Chain(next) # {} /\ Root(next) = Tensor("a", Len(carried))
  /\ next.at = at
  /\ Greatest({d.upd.n : d \in Chain(next)}) = n

\* extractDynamicUpdateSliceUpdate: everything that is updated is at the same
\* index, and the largest update has n elements.
UpdatedAt(at, n) ==
  /\ Chain(next) # {} /\ Root(next) = Tensor("a", Len(carried))
  /\ \A d \in Chain(next) : d.at = at
  /\ Greatest({d.upd.n : d \in Chain(next)}) = n

\* RemoveLoopCarriedDependenciesFromWhileLoadOperations: a read of one element
\* where only this iteration writes is a read of the initial tensor. That the
\* index differs between iterations is taken from its having an entry; neither
\* the step nor the number of iterations is looked at.
RemoveLoopCarried ==
  /\ Pass /\ HasStep
  /\ \E r \in Below(read) \union Below(next) :
       /\ r.op = "ds" /\ r.of = Tensor("a", Len(carried)) /\ r.n = 1
       /\ Dependent(r.at) /\ UpdatedAt(r.at, 1)
       /\ read' = Put(read, r, DynamicSlice(Tensor("init", r.of.n), r.at, 1))
       /\ next' = Put(next, r, DynamicSlice(Tensor("init", r.of.n), r.at, 1))
       /\ faithful' = (faithful /\ Step # 0 /\ affine[r.at.v].scale # 0 /\ r.at.v \notin guessed)
  /\ UNCHANGED <<vars, carried, ahead, inBounds>>

-----------------------------------------------------------------------------
(* All iterations at once                                                  *)

Trips == ConstantNumIters(loop.start, loop.limit, Step)
Known == IsConstant /\ Step > 0 /\ Trips > 0

\* The places a hoisted read covers, as if the last iteration were that of the
\* last number below the limit.
Outermost(a) == {a.scale * loop.start + a.offset, a.scale * (loop.limit - 1) + a.offset}
First(a) == Least(Outermost(a))
Extent(a) == Greatest(Outermost(a)) - First(a) + 1

\* Mutant: a falling index reads the places in rising order.
HoistedUnreversed(a, of) ==
  LET from == Clamped(First(a), Extent(a), Len(of))
  IN  [k \in 1 .. Trips |-> of[from + (k - 1) * Magnitude(a.scale) * Step + 1]]

\* hoistOperationFromLoop for a dynamic_slice: one slice over the places, a
\* slice with a stride of that, reversed if the index falls.
Hoisted(a, of) ==
  LET from == Clamped(First(a), Extent(a), Len(of))
      stride == Magnitude(a.scale) * Step
  IN  [k \in 1 .. Trips |-> of[from + (IF a.scale < 0 THEN Trips - k ELSE k - 1) * stride + 1]]

\* The read is hoisted, or reported as out of bounds.
Hoistable(r) ==
  /\ r.op = "ds" /\ r.of.op = "tensor" /\ r.of.name \in {"x", "init", "c"}
  /\ Dependent(r.at) /\ affine[r.at.v].scale # 0   \* a stride of zero is no slice
  /\ Extent(affine[r.at.v]) <= r.of.n

\* What hoisting a read leaves unchecked: the limit need not be met, so the
\* places may leave the tensor where no read does, and fall between those read.
HoistFaithful(r) ==
  LET a == affine[r.at.v]
  IN  /\ r.at.v \notin guessed
      /\ First(a) >= 0 /\ First(a) + Extent(a) <= r.of.n
      /\ a.scale > 0 \/ (loop.limit - 1 - loop.start) % Step = 0

\* GreedyWhileLoopBatchFission (liftOperationByBatching): the reads of all
\* iterations, of which the k-th is used in iteration (iv - start) / step.
BatchRead ==
  /\ Pass /\ Known /\ read.n = 1
  /\ Hoistable(read)
  /\ batched' = Hoisted(affine[read.at.v], Elements(read.of))
  /\ faithful' = (faithful /\ HoistFaithful(read))
  /\ UNCHANGED <<vars, read, next, carried, indices, copied, inBounds>>

\* constructNewOperandsForHoistedOp, AFFINE_INDEX: the numbers of the iterations
\* are shifted by step * start and then scaled, as if the step were one.
BatchIndex ==
  /\ Pass /\ Known
  /\ \E x \in DOMAIN affine :
       /\ indices' = [value |-> x,
                      at |-> [k \in 1 .. Trips |->
                               Wrap(affine[x].scale * (k - 1 + Step * loop.start) + affine[x].offset, Width)]]
       /\ faithful' = (faithful /\ x \notin guessed /\ (Step = 1 \/ (Trips = 1 /\ loop.start = 0)))
  /\ UNCHANGED <<vars, read, next, carried, batched, copied, inBounds>>

\* Mutant: an index that does not rise by one is taken to do so.
ScatteredContiguous(a, of, upd, pick) ==
  LET from == Clamped(loop.start + a.offset, Trips, Len(of))
  IN  [j \in DOMAIN of |-> IF j - from \in 1 .. Trips THEN upd[j - from] ELSE of[j]]

\* hoistOperationFromLoop for a dynamic_update_slice: one update with those of
\* all iterations if the index rises by one, else a scatter. That drops what is
\* out of bounds, and as its indices are declared unique, takes either of two
\* updates of one place: the pick is a set of iterations preferred.
Scattered(a, of, upd, pick) ==
  LET place(k) == IF Step = 1 /\ a.scale = 1 THEN Clamped(loop.start + a.offset, Trips, Len(of)) + k - 1
                  ELSE a.scale * (loop.start + (k - 1) * Step) + a.offset
      put(j) == {k \in 1 .. Trips : place(k) = j - 1}
  IN  [j \in DOMAIN of |-> IF put(j) = {} THEN of[j]
                           ELSE upd[Least(IF put(j) \intersect pick = {} THEN put(j) ELSE put(j) \intersect pick)]]

\* WhileIsCopySimplify: a loop that updates a tensor with what is defined
\* outside, or with reads of what is, is replaced by one update. That the
\* windows have one element is checked in the first case only.
WhileIsCopy ==
  /\ Pass /\ Known
  /\ next.op = "dus" /\ next.of = Tensor("a", Len(carried)) /\ Dependent(next.at)
  /\ Trips <= next.n
  /\ LET a == affine[next.at.v]
         u == next.upd
         whole(upd) == \E k \in 1 .. Trips : copied' = Scattered(a, carried, upd, {k})
         plain == a.scale # 0 /\ next.at.v \notin guessed
     IN  \/ /\ u.op = "tensor" /\ u.name \notin Fresh \union {"a"} /\ u.n = 1
            /\ whole([k \in 1 .. Trips |-> Elements(u)[1]])
            /\ faithful' = (faithful /\ plain)
         \/ /\ Hoistable(u)
            /\ whole(Hoisted(affine[u.at.v], Elements(u.of)))
            /\ faithful' = (faithful /\ plain /\ HoistFaithful(u) /\ u.n = 1)
  /\ UNCHANGED <<vars, read, next, carried, batched, indices, inBounds>>

-----------------------------------------------------------------------------

InBoundsSoFar == inBounds /\ Fits(loop.read) /\ Fits(loop.next)

WInit ==
  /\ Init
  /\ read = loop.read /\ next = loop.next
  /\ carried = [j \in 1 .. loop.next.n |-> <<"a", 0, j>>]
  /\ batched = None /\ indices = None /\ copied = None
  /\ faithful = TRUE /\ inBounds = TRUE

\* An iteration of the loop as given.
IterateWindows ==
  /\ Iterate
  /\ carried' = Eval(loop.next)
  /\ inBounds' = InBoundsSoFar
  /\ UNCHANGED <<read, next, ahead, faithful>>

WNext ==
  \/ Analyse /\ UNCHANGED windows
  \/ WhileDUSDS \/ WhileDUSDUS \/ RemoveLoopCarried
  \/ BatchRead \/ BatchIndex \/ WhileIsCopy
  \/ IterateWindows

WSpec == WInit /\ [][WNext]_<<vars, windows>>

-----------------------------------------------------------------------------
(* Properties                                                              *)

Counts == faithful /\ CleanSoFar /\ InBoundsSoFar

\* In every iteration the rewritten body reads and updates what the given one
\* does.
WindowsKeepValue ==
  (Running /\ Counts) => Eval(read) = Eval(loop.read) /\ Eval(next) = Eval(loop.next)

\* What was computed for all iterations ahead of the loop is, for each of them,
\* what it reads, and the index it computes.
BatchKeepsValue ==
  (Running /\ Counts) =>
    /\ batched # None => <<batched[iters + 1]>> = Eval(loop.read)
    /\ indices # None => indices.at[iters + 1] = Given[indices.value]

\* A loop replaced by one update leaves the tensor that update makes.
CopyKeepsValue ==
  (Done /\ faithful /\ clean /\ inBounds /\ copied # None) => copied = carried
=============================================================================
