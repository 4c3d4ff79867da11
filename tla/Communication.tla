----------------------------- MODULE Communication -----------------------------
(***************************************************************************)
(* What Passes/OptimizeCommunication.cpp makes of operations on tensors    *)
(* sharded over a mesh of devices, and the devices that then run it.       *)
(*                                                                         *)
(* A tensor has one dimension, sharded along one axis of the mesh. A       *)
(* program is a tree of operations on whole tensors; the pass replaces     *)
(* them, one pattern at a time, by pads, sums and selections of whole      *)
(* tensors, or by a manual computation: a body each device runs on its own *)
(* shards, which exchanges parts of them by collective permutes. Options   *)
(* choose the patterns, so rewriting may stop anywhere. Several patterns   *)
(* are right only under conditions they do not test: `faithful` records    *)
(* that every rewrite so far met them.                                     *)
(***************************************************************************)
EXTENDS Integers, Sequences, FiniteSets, FiniteSetsExt

CONSTANTS
  Jobs,         \* what may be compiled: [program, mesh, flattened]
  MaxRewrites,  \* rewrites followed
  MaxDevices    \* devices of the largest mesh

ASSUME MeshAssumption == \A job \in Jobs : job.mesh.shards * job.mesh.other <= MaxDevices

VARIABLES
  program,    \* the tree, rewritten
  meaning,    \* the row it was at first
  mesh,       \* [shards, other, minor], see below
  flattened,  \* devices run both branches of a conditional and keep one
  rewrites,   \* number of rewrites so far
  channel,    \* the next channel handle
  faithful,   \* see above
  running,    \* the manual computation the devices are in, or None
  sent,       \* per device, the number of permutes it gave its part to
  got,        \* per device, the rows the permutes returned
  network     \* rows on their way
compiler == <<program, meaning, mesh, flattened, rewrites, channel, faithful>>
devices == <<running, sent, got, network>>
vars == <<compiler, devices>>

-----------------------------------------------------------------------------
(* Rows and trees                                                          *)

First(s, k) == SubSeq(s, 1, Min({k, Len(s)}))
Last(s, k) == SubSeq(s, Max({Len(s) - k, 0}) + 1, Len(s))
From(s, k) == SubSeq(s, Max({k, 0}) + 1, Len(s))
Splat(v, k) == [j \in 1 .. k |-> v]

\* dynamic_slice with an unsigned start: one below zero is a large one, and a
\* large one is moved until the slice fits.
DynamicSlice(s, start, k) ==
  LET last == Len(s) - k
      at == IF start < 0 THEN last ELSE Min({start, last})
  IN  SubSeq(s, at + 1, at + k)

\* A node has its operands, its size and the numbers that are its attributes.
Node(op, in, n, at) == [op |-> op, in |-> in, n |-> n, at |-> at]
Row(values) == Node("row", <<>>, Len(values), values)
Const(v, n) == Node("const", <<>>, n, <<v>>)
Slice(x, from, to) == Node("slice", <<x>>, to - from, <<from, to>>)
Pad(x, lo, hi, v) == Node("pad", <<x>>, lo + x.n + hi, <<lo, hi, v>>)
Concat(parts) == Node("concat", parts, MapThenSumSet(LAMBDA k : parts[k].n, DOMAIN parts), <<>>)
Update(x, u, start) == Node("update", <<x, u>>, x.n, <<start>>)
Rotate(x, amount) == Node("rotate", <<x>>, x.n, <<amount>>)
Wrap(x, lhs, rhs) == Node("wrap", <<x>>, lhs + x.n + rhs, <<lhs, rhs>>)
Extend(x, lhs, rhs) == Node("extend", <<x>>, lhs + x.n + rhs, <<lhs, rhs>>)
\* Result i of multi_rotate: rotated to the left by left - i.
MultiRotate(x, left, right, i) == Node("multi_rotate", <<x>>, x.n, <<left, right, i>>)
Add(x, y) == Node("add", <<x, y>>, x.n, <<>>)
Mul(x, y) == Node("mul", <<x, y>>, x.n, <<>>)
\* select(iota < bound, x, y)
Select(bound, x, y) == Node("select", <<x, y>>, x.n, <<bound>>)

Rotated(s, k) == [j \in DOMAIN s |-> s[((j - 1 + k) % Len(s)) + 1]]

RECURSIVE Eval(_), EvalAll(_), Joined(_)
Joined(rows) == IF rows = <<>> THEN <<>> ELSE Head(rows) \o Joined(Tail(rows))
EvalOp(t, x) ==
  CASE t.op = "row" -> t.at
    [] t.op = "const" -> Splat(t.at[1], t.n)
    [] t.op = "slice" -> SubSeq(x[1], t.at[1] + 1, t.at[2])
    [] t.op = "pad" -> LET s == Splat(t.at[3], Max({t.at[1], 0})) \o From(x[1], -t.at[1])
                       IN  First(s \o Splat(t.at[3], Max({t.at[2], 0})), t.n)
    [] t.op = "concat" -> Joined(x)
    [] t.op = "update" ->
         LET at == Max({0, Min({t.at[1], t.n - Len(x[2])})})
         IN  First(x[1], at) \o x[2] \o From(x[1], at + Len(x[2]))
    [] t.op = "rotate" -> Rotated(x[1], t.at[1])
    [] t.op = "wrap" -> Last(x[1], t.at[1]) \o x[1] \o First(x[1], t.at[2])
    [] t.op = "extend" -> First(x[1], t.at[1]) \o x[1] \o Last(x[1], t.at[2])
    [] t.op = "multi_rotate" -> Rotated(x[1], t.at[1] - t.at[3])
    [] t.op = "add" -> [j \in 1 .. t.n |-> x[1][j] + x[2][j]]
    [] t.op = "mul" -> [j \in 1 .. t.n |-> x[1][j] * x[2][j]]
    [] t.op = "select" -> [j \in 1 .. t.n |-> IF j - 1 < t.at[1] THEN x[1][j] ELSE x[2][j]]
Eval(t) == <<>> \o EvalOp(t, EvalAll(t.in))
EvalAll(in) == IF in = <<>> THEN <<>> ELSE <<Eval(Head(in))>> \o EvalAll(Tail(in))

RECURSIVE Below(_), Put(_, _, _), PutAll(_, _, _)
Below(t) == {t} \union UNION {Below(t.in[k]) : k \in DOMAIN t.in}
\* Whatever uses `old` uses `new`.
Put(t, old, new) == IF t = old THEN new ELSE [t EXCEPT !.in = PutAll(t.in, old, new)]
PutAll(in, old, new) == IF in = <<>> THEN <<>> ELSE <<Put(Head(in), old, new)>> \o PutAll(Tail(in), old, new)

Uses(n) == MapThenSumSet(LAMBDA t : Cardinality({k \in DOMAIN t.in : t.in[k] = n}), Below(program))

-----------------------------------------------------------------------------
(* The mesh: `shards` devices along the axis the tensors are sharded on,   *)
(* `other` along the rest, and whether it is the axis whose neighbours     *)
(* have consecutive partition ids.                                         *)

D == mesh.shards
Devices == 0 .. D * mesh.other - 1
Stride == IF mesh.minor THEN 1 ELSE mesh.other
Coord(p) == (p \div Stride) % D
At(p, c) == p + (c - Coord(p)) * Stride

\* With the direction of a shift the other way round.
ShiftPairsTurned(leftToRight, onlyEdges) ==
  {<<At(p, (Coord(p) + (IF leftToRight THEN D - 1 ELSE 1)) % D), p>> :
     p \in {p \in Devices : onlyEdges => Coord(p) = IF leftToRight THEN D - 1 ELSE 0}}

\* Pairs <<source, target>>: the source is the neighbour after the target if
\* leftToRight, and the one before it otherwise.
ShiftPairs(leftToRight, onlyEdges) ==
  {<<At(p, (Coord(p) + (IF leftToRight THEN 1 ELSE D - 1)) % D), p>> :
     p \in {p \in Devices : onlyEdges => Coord(p) = IF leftToRight THEN D - 1 ELSE 0}}

\* The left half receives from the left and the right half from the right.
SplitHalfPairs ==
  {<<At(p, Coord(p) + (IF Coord(p) < D \div 2 THEN -1 ELSE 1)), p>> : p \in {p \in Devices : Coord(p) \notin {0, D - 1}}}

\* The tests of a body on the partition id take it for the coordinate.
Idx(p) == p % D
InMiddle(p) == Idx(p) # 0 /\ (p + 1) % D # 0
IdxIsCoord == mesh.other = 1 \/ mesh.minor

Local(row, p) == LET k == Len(row) \div D IN SubSeq(row, Coord(p) * k + 1, (Coord(p) + 1) * k)

-----------------------------------------------------------------------------
(* The bodies of manual computations: the permutes a device runs, in order,*)
(* and what it returns. A permute joins the devices that name its channel. *)

Permute(handle, pairs, row) == [channel |-> handle, pairs |-> pairs, row |-> row]

\* generateCommPatternForNonEdges
NonEdgePermute(handle, p, super, n) ==
  Permute(handle, SplitHalfPairs, IF Idx(p) < D \div 2 THEN Last(super, n) ELSE First(super, n))
NonEdgeResult(p, mid, n, comm, size) ==
  LET alpha == (2 * n) \div D
  IN  IF Idx(p) < D \div 2 THEN DynamicSlice(comm \o mid, Idx(p) * alpha, size)
      ELSE DynamicSlice(mid \o comm, Len(comm) + Len(mid) - size - Idx(p) * alpha, size)

\* With a handle for each edge.
EdgePermuteOwnHandle(handle, p, super, n) ==
  Permute(handle + Idx(p), ShiftPairs(TRUE, TRUE) \union ShiftPairs(FALSE, TRUE),
          IF Idx(p) = 0 THEN First(super, n) ELSE Last(super, n))

\* wrapCommPatternForEdges
EdgePermute(handle, p, super, n) ==
  Permute(handle, ShiftPairs(TRUE, TRUE) \union ShiftPairs(FALSE, TRUE),
          IF Idx(p) = 0 THEN First(super, n) ELSE Last(super, n))

EdgeResult(p, mid, n, comm, size) ==
  IF Idx(p) = 0 THEN comm \o First(mid, size - n) ELSE From(mid, n - (2 * n) \div D) \o comm

\* extendCommPatternForEdges: no permute.
ExtendEdgeResult(p, x, n, size) == EdgeResult(p, x, n, IF Idx(p) = 0 THEN First(x, n) ELSE Last(x, n), size)

\* multiDimensionalSelect takes elements below `low` and from `end` on, if there
\* are any there, from the operand: first the shards that hold such elements,
\* then the elements of such a shard. A shard has `k` elements.
LeftShard(idx, low, k) == low # 0 /\ IF low % k = 0 THEN idx < low \div k ELSE idx <= low \div k
RightShard(idx, high, end, k) == high # 0 /\ idx >= end \div k
LeftElement(idx, j, low, high, k) ==
  IF low % k = 0 THEN LeftShard(idx, low, k)
  ELSE /\ low # 0
       /\ \/ j < low % k /\ (high = 0 \/ idx = low \div k)
          \/ low >= k /\ idx < low \div k
RightElement(idx, j, low, high, end, k, size) ==
  IF end % k = 0 THEN RightShard(idx, high, end, k)
  ELSE /\ high # 0
       /\ \/ j >= end % k /\ (low = 0 \/ idx = end \div k)
          \/ end \div k # size \div k - 1 /\ idx > end \div k
InOperand(idx, j, low, high, end, k, size) ==
  /\ LeftShard(idx, low, k) \/ RightShard(idx, high, end, k)
  /\ LeftElement(idx, j, low, high, k) \/ RightElement(idx, j, low, high, end, k, size)

\* The permutes of device p in the manual computation t, whose operands have
\* the shards x. A branch that only some devices take is run by all when
\* conditionals are flattened.
WrapPermutes(t, p, x) ==
  IF D = 2 THEN <<EdgePermute(t.at[2], p, x[1], t.at[1])>>
  ELSE (IF flattened \/ InMiddle(p) THEN <<NonEdgePermute(t.at[2], p, x[1], t.at[1])>> ELSE <<>>)
         \o (IF flattened \/ ~InMiddle(p) THEN <<EdgePermute(t.at[2] + 1, p, x[1], t.at[1])>> ELSE <<>>)
ExtendPermutes(t, p, x) ==
  IF D # 2 /\ (flattened \/ InMiddle(p)) THEN <<NonEdgePermute(t.at[2], p, x[1], t.at[1])>> ELSE <<>>
RotatePermutes(t, x) ==
  <<Permute(t.at[3], ShiftPairs(t.at[2] = 1, FALSE),
            IF t.at[2] = 1 THEN First(x[1], t.at[1]) ELSE Last(x[1], t.at[1]))>>
MultiRotatePermutes(t, p, x) ==
  LET left == t.at[1]  right == t.at[2]  padding == t.at[4]
      tail == Len(x[1]) - right - (IF p = D - 1 THEN padding ELSE 0)
  IN  (IF left = 0 THEN <<>> ELSE <<Permute(1, ShiftPairs(FALSE, FALSE), First(x[1], left))>>)
        \o (IF right = 0 THEN <<>> ELSE <<Permute(2, ShiftPairs(TRUE, FALSE), SubSeq(x[1], tail + 1, tail + right))>>)
ConcatPermutes(t, x) ==
  LET left == t.at[1] = 1
      main == x[IF left THEN 2 ELSE 1]
      k == Len(x[IF left THEN 1 ELSE 2])
  IN  <<Permute(t.at[2], ShiftPairs(~left, FALSE), IF left THEN Last(main, k) ELSE First(main, k))>>

Permutes(t, p, x) ==
  CASE t.op = "wrap_manual" -> WrapPermutes(t, p, x)
    [] t.op = "extend_manual" -> ExtendPermutes(t, p, x)
    [] t.op = "rotate_manual" -> RotatePermutes(t, x)
    [] t.op = "multi_rotate_manual" -> MultiRotatePermutes(t, p, x)
    [] t.op = "concat_manual" -> ConcatPermutes(t, x)
    [] t.op = "select_manual" -> <<>>

\* What device p returns, given the results `rows` of its permutes, as a shard
\* of `size` elements.
WrapResult(t, p, x, rows, size) ==
  IF D # 2 /\ InMiddle(p) THEN NonEdgeResult(p, x[2], t.at[1], rows[1], size)
  ELSE EdgeResult(p, x[2], t.at[1], rows[Len(rows)], size)
ExtendResult(t, p, x, rows, size) ==
  IF D # 2 /\ InMiddle(p) THEN NonEdgeResult(p, x[2], t.at[1], rows[1], size)
  ELSE ExtendEdgeResult(p, x[2], t.at[1], size)
RotateResult(t, x, rows) ==
  IF t.at[2] = 1 THEN From(x[1], t.at[1]) \o rows[1] ELSE rows[1] \o First(x[1], Len(x[1]) - t.at[1])
MultiRotateResult(t, x, rows, size) ==
  LET right == IF t.at[2] = 0 THEN <<>> ELSE rows[Len(rows)]
      left == IF t.at[1] = 0 THEN <<>> ELSE rows[1]
      start == t.at[1] - t.at[3] + t.at[2]
  IN  SubSeq(right \o x[1] \o left, start + 1, start + size)
ConcatResult(t, p, x, rows) ==
  IF t.at[1] = 1
  THEN (IF Idx(p) = 0 THEN x[1] ELSE rows[1]) \o x[2]
  ELSE x[1] \o (IF (p + 1) % D = 0 THEN x[2] ELSE rows[1])
SelectResult(t, p, x, size) ==
  [j \in 1 .. size |-> IF InOperand(p, j - 1, t.at[1], t.at[2], t.at[3], size, t.n) THEN x[1][j] ELSE x[2][j]]

Returned(t, p, x, rows) ==
  LET size == t.n \div D
  IN  CASE t.op = "wrap_manual" -> WrapResult(t, p, x, rows, size)
        [] t.op = "extend_manual" -> ExtendResult(t, p, x, rows, size)
        [] t.op = "rotate_manual" -> RotateResult(t, x, rows)
        [] t.op = "multi_rotate_manual" -> MultiRotateResult(t, x, rows, size)
        [] t.op = "concat_manual" -> ConcatResult(t, p, x, rows)
        [] t.op = "select_manual" -> SelectResult(t, p, x, size)

ManualOps == {"wrap_manual", "extend_manual", "rotate_manual", "multi_rotate_manual", "concat_manual", "select_manual"}
Manuals == {t \in Below(program) : t.op \in ManualOps}
Shards(t, p) == IF Len(t.in) = 1 THEN <<Local(t.in[1].at, p)>> ELSE <<Local(t.in[1].at, p), Local(t.in[2].at, p)>>

-----------------------------------------------------------------------------
(* Patterns                                                                *)

None == Row(<<>>)

Init ==
  /\ \E job \in Jobs : program = job.program /\ mesh = job.mesh /\ flattened = job.flattened
  /\ meaning = Eval(program)
  /\ rewrites = 0
  /\ channel = 1
  /\ faithful = TRUE
  /\ running = None
  /\ sent = [p \in Devices |-> 0]
  /\ got = [p \in Devices |-> <<>>]
  /\ network = {}

\* The operations a pattern is tried on; none once the devices run.
Compiling == rewrites < MaxRewrites /\ running = None
Ops(op) == IF Compiling /\ D # 1 THEN {t \in Below(program) : t.op = op} ELSE {}

\* `ok`: the conditions the pattern leaves out are met. Permutes with handles
\* from the counter use it up.
Replace(old, new, handles, ok) ==
  /\ program' = Put(program, old, new)
  /\ faithful' = (faithful /\ ok)
  /\ channel' = channel + handles
  /\ rewrites' = rewrites + 1
  /\ UNCHANGED <<meaning, mesh, flattened, devices>>
Become(old, new, ok) == Replace(old, new, 0, ok)

IsZero(t) == t.op = "const" /\ t.at[1] = 0
\* The least multiple of D that is at least k.
Divisible(k) == ((k + D - 1) \div D) * D

\* padWithUndefinedValueInDim: a slice is padded with what surrounds it.
PadUndefined(x, lo, hi) ==
  LET full == x.in[1].n
      whole == /\ x.op = "slice"
               /\ x.at[1] <= lo /\ full - x.at[2] <= hi
               /\ x.at[1] < lo \/ full - x.at[2] < hi
      y == IF whole THEN x.in[1] ELSE x
      l == IF whole THEN lo - x.at[1] ELSE lo
      h == IF whole THEN hi - (full - x.at[2]) ELSE hi
  IN  IF lo = 0 /\ hi = 0 THEN x
      ELSE IF y.op = "const" THEN Const(y.at[1], l + y.n + h) ELSE Pad(y, l, h, 0)

\* getWrapExtendConfiguration: the halves on both sides have the same size, and
\* the result is divisible; no configuration if that takes an odd padding.
Configurations(mid, lhs, rhs) ==
  LET n == Max({lhs, rhs})
      extra == Divisible(mid + 2 * n) - (mid + 2 * n)
  IN  IF extra % 2 = 1 THEN {}
      ELSE {[left |-> n - lhs + extra \div 2, n |-> n + extra \div 2, size |-> mid + 2 * n + extra]}

\* The manual computation of a wrap or an extend, its padding removed. It takes
\* one handle for each of its permutes.
WithHalos(op, t, x, c) ==
  LET manual == Node(op, x, c.size, <<c.n, channel>>)
  IN  IF c.size = t.n THEN manual ELSE Slice(manual, c.left, c.left + t.n)

PeriodicConcatSimplify ==
  \E t \in Ops("concat") :
    /\ Len(t.in) = 3
    /\ \A k \in 1 .. 3 : Uses(t.in[k]) = 1
    /\ LET left == t.in[1]  mid == t.in[2]  right == t.in[3] IN
       /\ left.op = "slice" /\ right.op = "slice"
       /\ left.in = right.in
       /\ left.at[1] >= right.at[1]
       /\ LET super == Slice(left.in[1], right.at[1], left.at[2]) IN
          /\ mid.op = "slice" => mid.n = super.n
          /\ D % 2 = 0
          /\ \E c \in Configurations(mid.n, left.n, right.n) :
               Replace(t, WithHalos("wrap_manual", t, <<super, mid>>, c), IF D = 2 THEN 1 ELSE 2,
                       /\ D = 2 /\ IdxIsCoord
                       /\ super.n % D = 0 /\ c.n <= super.n \div D)

WrapCommOptimize ==
  \E t \in Ops("wrap") :
    LET x == t.in[1] IN
    /\ D % 2 = 0
    /\ \E c \in Configurations(x.n, t.at[1], t.at[2]) :
         /\ c.n <= x.n \div D
         /\ Replace(t, WithHalos("wrap_manual", t, <<x, x>>, c), IF D = 2 THEN 1 ELSE 2,
                    D = 2 /\ IdxIsCoord)

\* The sides go to getWrapExtendConfiguration the other way round.
ExtendCommOptimize ==
  \E t \in Ops("extend") :
    LET x == t.in[1] IN
    /\ D % 2 = 0
    /\ \E c \in Configurations(x.n, t.at[2], t.at[1]) :
         /\ c.n <= x.n \div D
         /\ Replace(t, WithHalos("extend_manual", t, <<x, x>>, c), IF D = 2 THEN 0 ELSE 1,
                    D = 2 /\ IdxIsCoord /\ t.at[1] = t.at[2])

WrapToPadCommOptimize ==
  \E t \in Ops("wrap") :
    LET x == t.in[1]  lhs == t.at[1]  rhs == t.at[2]
        left == Slice(x, 0, rhs)
        right == Slice(x, x.n - lhs, x.n)
    IN  Become(t, Add(Add(Pad(right, 0, t.n - lhs, 0), Pad(x, lhs, rhs, 0)), Pad(left, t.n - rhs, 0, 0)), TRUE)

WrapToRotateOptimize ==
  \E t \in Ops("wrap") :
    LET x == t.in[1]  lhs == t.at[1]  rhs == t.at[2]
        padded == PadUndefined(x, lhs, rhs)
    IN  Become(t, Select(lhs + x.n, Select(lhs, Rotate(padded, t.n - lhs - rhs), padded), Rotate(padded, rhs + lhs)), TRUE)

ExtendToPadCommOptimize ==
  \E t \in Ops("extend") :
    LET x == t.in[1]  lhs == t.at[1]  rhs == t.at[2]
        left == Slice(x, 0, lhs)
        right == Slice(x, x.n - rhs, x.n)
    IN  Become(t, Add(Add(Pad(left, 0, t.n - lhs, 0), Pad(x, lhs, rhs, 0)), Pad(right, t.n - rhs, 0, 0)), TRUE)

ExtendToPadCommOptimize2 ==
  \E t \in Ops("extend") :
    LET x == t.in[1]  lhs == t.at[1]  rhs == t.at[2]
        withLeft == IF lhs = 0 THEN PadUndefined(x, lhs, rhs)
                    ELSE Select(lhs, PadUndefined(x, 0, lhs + rhs), PadUndefined(x, lhs, rhs))
    IN  Become(t, IF rhs = 0 THEN withLeft ELSE Select(x.n + lhs, withLeft, PadUndefined(x, lhs + rhs, 0)), TRUE)

\* The shorter way round is taken.
RotateCommOptimize ==
  \E t \in Ops("rotate") :
    LET leftToRight == t.at[1] <= t.n \div 2
        amount == IF leftToRight THEN t.at[1] ELSE t.n - t.at[1]
    IN  /\ amount <= t.n \div D
        /\ t.n % D = 0
        /\ Replace(t, Node("rotate_manual", t.in, t.n, <<amount, IF leftToRight THEN 1 ELSE 0, channel>>), 1, TRUE)

RotateToPadCommOptimize ==
  \E t \in Ops("rotate") :
    LET x == t.in[1]
        sl0 == Slice(x, t.at[1], t.n)
        sl1 == Slice(x, 0, t.at[1])
    IN  Become(t, Add(Pad(sl0, 0, sl1.n, 0), Pad(sl1, sl0.n, 0, 0)), TRUE)

\* The halo that is to come from one neighbour comes from the other; handles
\* are fixed.
MultiRotateSpmdOptimize ==
  \E t \in Ops("multi_rotate") :
    LET left == t.at[1]  right == t.at[2]
        padding == Divisible(t.n) - t.n
        shard == Divisible(t.n) \div D
        x == IF padding = 0 THEN t.in[1] ELSE Pad(t.in[1], 0, padding, 0)
        manual == Node("multi_rotate_manual", <<x>>, x.n, <<left, right, t.at[3], padding>>)
    IN  /\ left <= shard /\ right <= shard - padding
        /\ Become(t, IF padding = 0 THEN manual ELSE Slice(manual, 0, t.n),
                  /\ D = 2 \/ (left = 0 /\ right = 0)
                  /\ padding = 0 \/ (left = 0 /\ mesh.other = 1))

\* Operands of which the smaller has less than a shard. The result of a device
\* has the size of all it holds, so the dynamic_slice that ends the body takes
\* everything; the shards of the smaller operand but one are lost.
ConcatTwoOperandsCommOptimize ==
  \E t \in Ops("concat") :
    /\ Len(t.in) = 2
    /\ LET l == t.in[1]  r == t.in[2]
           shard == t.n \div D
           concatLeft == l.n < shard
           lo == Divisible(l.n) - l.n
           hi == Divisible(r.n) - r.n
           x == <<IF lo = 0 THEN l ELSE Pad(l, lo, 0, 0), IF hi = 0 THEN r ELSE Pad(r, 0, hi, 0)>>
           manual == Node("concat_manual", x, x[1].n + x[2].n, <<IF concatLeft THEN 1 ELSE 0, channel>>)
       IN  /\ l.n # r.n
           /\ l.n < shard \/ r.n < shard
           /\ ~(l.n < shard /\ r.n < shard)
           /\ Replace(t, IF lo = 0 /\ hi = 0 THEN manual ELSE Slice(manual, lo, manual.n - hi), 1, FALSE)

DUSToPadComm ==
  \E t \in Ops("update") :
    LET x == t.in[1]  u == t.in[2]  at == t.at[1]
        high == x.n - u.n - at
        placed == Pad(u, at, high, 0)
        kept == Mul(x, Pad(Const(0, u.n), at, high, 1))
    IN  /\ at >= 0
        /\ Become(t, IF IsZero(x) /\ IsZero(u) THEN Const(0, t.n)
                     ELSE IF IsZero(x) THEN placed ELSE IF IsZero(u) THEN kept ELSE Add(kept, placed),
                  high >= 0)

\* Slices already in their place need no update.
DUSOfConcatSlicesOptimize ==
  \E t \in Ops("update") :
    LET x == t.in[1]  c == t.in[2]
        before(k) == MapThenSumSet(LAMBDA j : c.in[j].n, 1 .. k - 1)
        self == {k \in DOMAIN c.in : c.in[k].at[1] = t.at[1] + before(k)}
        step[k \in 0 .. Len(c.in)] ==
          IF k = 0 THEN x ELSE IF k \in self THEN step[k - 1] ELSE Update(step[k - 1], c.in[k], t.at[1] + before(k))
    IN  /\ c.op = "concat" /\ Uses(c) = 1
        /\ \A k \in DOMAIN c.in : c.in[k].op = "slice" /\ c.in[k].in[1] = x
        /\ self # {}
        /\ Become(t, step[Len(c.in)], t.at[1] + c.n <= t.n)

\* Operand and update side by side: what `low`, `high` and `end` say is in
\* InOperand.
Selection(t, operand, update, low, high, end) ==
  LET manual == Node("select_manual", <<operand, update>>, operand.n, <<low, high, end>>)
  IN  IF operand.n = t.n THEN manual ELSE Slice(manual, 0, t.n)

ConcatTwoDUSLike ==
  \E t \in Ops("concat") :
    LET l == t.in[1]  r == t.in[2]  size == Divisible(t.n) IN
    /\ Len(t.in) = 2
    /\ Become(t, Selection(t, Pad(l, 0, size - l.n, 0), Pad(r, l.n, size - t.n, 0), l.n, 0, t.n), mesh.other = 1)

ExtendDUSLike ==
  \E t \in Ops("extend") :
    LET x == t.in[1]  lhs == t.at[1]  rhs == t.at[2]
        extra == Divisible(t.n) - t.n
        low == IF lhs # 0 THEN lhs ELSE x.n
    IN  /\ lhs = 0 \/ rhs = 0
        /\ Become(t, Selection(t, Pad(x, 0, lhs + rhs + extra, 0), Pad(x, lhs + rhs, extra, 0), low, 0, low + x.n), mesh.other = 1)

\* A size is taken for divisible if the size of a shard, rounded down, divides it.
DUSToPadManualCompComm ==
  \E t \in Ops("update") :
    LET x == t.in[1]  u == t.in[2]  at == t.at[1]
        local == t.n \div D
        extra == IF local = 0 \/ t.n % local # 0 THEN D - (t.n % D) ELSE 0
        high == t.n - at - u.n
        operand == IF extra = 0 THEN x ELSE Pad(x, 0, extra, 0)
        update == IF u.op = "const" THEN Const(u.at[1], operand.n) ELSE Pad(u, at, high + extra, 0)
    IN  /\ at >= 0 /\ at + u.n <= t.n
        /\ IF u.n = t.n THEN Become(t, u, TRUE)
           ELSE Become(t, Selection(t, operand, update, at, high, at + u.n), mesh.other = 1 /\ operand.n % D = 0)

\* isRotateLike: [A:end] and [start:A] of one tensor.
IsRotateLike(parts) ==
  /\ Len(parts) = 2
  /\ \A k \in 1 .. 2 : parts[k].op = "slice"
  /\ parts[1].in = parts[2].in
  /\ parts[1].at[1] = parts[2].at[2]

\* With zeros only, it goes on after the replacement to read the first summand.
ConcatToPadCommOptimize ==
  \E t \in Ops("concat") :
    LET before(k) == MapThenSumSet(LAMBDA j : t.in[j].n, 1 .. k - 1)
        kept == {k \in DOMAIN t.in : ~IsZero(t.in[k])}
        padded(k) == Pad(t.in[k], before(k), t.n - before(k) - t.in[k].n, 0)
        sum[k \in 0 .. Len(t.in)] ==
          IF k \notin kept THEN IF k = 0 THEN None ELSE sum[k - 1]
          ELSE IF sum[k - 1] = None THEN padded(k) ELSE Add(sum[k - 1], padded(k))
    IN  /\ ~IsRotateLike(t.in)
        /\ Become(t, IF kept = {} THEN Const(0, t.n) ELSE sum[Len(t.in)], kept # {})

\* The first of the largest operands.
Largest(parts) == CHOOSE k \in DOMAIN parts : \A j \in DOMAIN parts : parts[j].n < parts[k].n \/ (parts[j].n = parts[k].n /\ k <= j)

ConcatToDUSOptimize ==
  \E t \in Ops("concat") :
    LET before(k) == MapThenSumSet(LAMBDA j : t.in[j].n, 1 .. k - 1)
        big == Largest(t.in)
        step[k \in 0 .. Len(t.in)] ==
          IF k = 0 THEN PadUndefined(t.in[big], before(big), t.n - before(big) - t.in[big].n)
          ELSE IF k = big THEN step[k - 1] ELSE Update(step[k - 1], t.in[k], before(k))
    IN  ~IsRotateLike(t.in) /\ Become(t, step[Len(t.in)], TRUE)

\* Two slices of a tensor, one within the other: the smaller is cut from the
\* larger, moved by other padding or by a rotation.
ConcatToRotatePadOptimize ==
  \E t \in Ops("concat") :
    LET big == Largest(t.in)
        large == t.in[big]
        small == t.in[3 - big]
        place == IF big = 1 THEN large.n ELSE 0
        lead == IF big = 1 THEN 0 ELSE small.n
        offset == small.at[1] - large.at[1]
        base == PadUndefined(large, lead, t.n - lead - large.n)
        moved == IF offset <= place /\ t.n >= place - offset + large.n
                 THEN PadUndefined(large, place - offset, t.n - (place - offset) - large.n)
                 ELSE Rotate(base, (offset + lead - place) % t.n)
    IN  /\ Len(t.in) = 2
        /\ ~IsRotateLike(t.in)
        /\ \A k \in 1 .. 2 : t.in[k].op = "slice"
        /\ large.in = small.in
        /\ large.at[1] <= small.at[1] /\ small.at[2] <= large.at[2]
        /\ Become(t, Update(base, Slice(moved, place, place + small.n), place), TRUE)

Rewrite ==
  \/ PeriodicConcatSimplify \/ WrapCommOptimize \/ ExtendCommOptimize
  \/ WrapToPadCommOptimize \/ WrapToRotateOptimize \/ ExtendToPadCommOptimize \/ ExtendToPadCommOptimize2
  \/ RotateCommOptimize \/ RotateToPadCommOptimize \/ MultiRotateSpmdOptimize
  \/ ConcatTwoOperandsCommOptimize \/ DUSToPadComm \/ DUSOfConcatSlicesOptimize
  \/ ConcatTwoDUSLike \/ ExtendDUSLike \/ DUSToPadManualCompComm
  \/ ConcatToPadCommOptimize \/ ConcatToDUSOptimize \/ ConcatToRotatePadOptimize

-----------------------------------------------------------------------------
(* The devices                                                             *)

\* The next manual computation of which all operands are known. Rewriting is
\* over from the first on: `rewrites` is at its bound.
Computed(t) == IF Len(t.in) = 1 THEN [t EXCEPT !.in = <<Row(Eval(t.in[1]))>>]
               ELSE [t EXCEPT !.in = <<Row(Eval(t.in[1])), Row(Eval(t.in[2]))>>]
Launch ==
  /\ running = None
  /\ \E t \in Manuals :
       /\ \A k \in DOMAIN t.in : \A u \in Below(t.in[k]) : u.op \notin ManualOps
       /\ running' = Computed(t)
       /\ program' = Put(program, t, Computed(t))
  /\ rewrites' = MaxRewrites
  /\ sent' = [p \in Devices |-> 0]
  /\ got' = [p \in Devices |-> <<>>]
  /\ UNCHANGED <<meaning, mesh, flattened, channel, faithful, network>>

Todo(p) == Permutes(running, p, Shards(running, p))

\* A device gives its part of a permute to the targets it is the source of.
Send(p) ==
  /\ running # None
  /\ sent[p] = Len(got[p]) /\ sent[p] < Len(Todo(p))
  /\ LET step == Todo(p)[sent[p] + 1]
     IN  network' = network \union {[channel |-> step.channel, from |-> p, to |-> pair[2], row |-> step.row] :
                                      pair \in {pair \in step.pairs : pair[1] = p}}
  /\ sent' = [sent EXCEPT ![p] = @ + 1]
  /\ UNCHANGED <<compiler, running, got>>

\* It then waits for the row of its source; one that has none gets zeros.
Receive(p) ==
  /\ running # None
  /\ sent[p] > Len(got[p])
  /\ LET step == Todo(p)[sent[p]]
         sources == {pair[1] : pair \in {pair \in step.pairs : pair[2] = p}}
     IN  IF sources = {} THEN got' = [got EXCEPT ![p] = Append(@, Splat(0, Len(step.row)))] /\ UNCHANGED network
         ELSE \E m \in network :
                /\ m.channel = step.channel /\ m.to = p /\ m.from \in sources
                /\ got' = [got EXCEPT ![p] = Append(@, m.row)]
                /\ network' = network \ {m}
  /\ UNCHANGED <<compiler, running, sent>>

Finished(p) == Len(got[p]) = Len(Todo(p))

\* All returned: the result is the shards of any one device per coordinate.
Gather ==
  /\ running # None
  /\ \A p \in Devices : Finished(p)
  /\ \E replica \in 0 .. mesh.other - 1 :
       LET shard(c) == LET p == CHOOSE p \in Devices : Coord(p) = c /\ (IF mesh.minor THEN p \div D ELSE p % mesh.other) = replica
                       IN  Returned(running, p, Shards(running, p), got[p])
       IN  program' = Put(program, running, Row(Joined([c \in 1 .. D |-> shard(c - 1)])))
  /\ running' = None
  /\ UNCHANGED <<meaning, mesh, flattened, rewrites, channel, faithful, sent, got, network>>

Next == Rewrite \/ Launch \/ Gather \/ \E p \in Devices : Send(p) \/ Receive(p)

\* Devices run on; the compiler and the driver may take their time.
Spec ==
  /\ Init /\ [][Next]_vars
  /\ WF_vars(Gather)
  /\ \A p \in 0 .. MaxDevices - 1 : WF_vars(p \in Devices /\ (Send(p) \/ Receive(p)))

-----------------------------------------------------------------------------
(* Properties                                                              *)

\* Whatever patterns are chosen, and in whatever order the devices exchange
\* their halos, what they return together is the row the operations on whole
\* tensors make, as long as the conditions the patterns leave out are met:
\* shift directions, edge devices, paddings that are added and cut off again,
\* and the replicas along the other axes of the mesh.
ComputesGlobal == faithful /\ Manuals = {} => Eval(program) = meaning

\* The same without asking for the conditions, as the comments of the patterns
\* have it: "we want. [ left ][ ][ right ]" (349), "Data from Right Neighbor"
\* (2891), "Since we have 1 manual axis, this is the scalar index" (2939).
AlwaysComputesGlobal == Manuals = {} => Eval(program) = meaning

\* Devices in a manual computation finish it, if each runs every permute
\* others expect it to: when conditionals are flattened, or for programs that
\* met the conditions. Nobody waits for a halo of a device that took another
\* branch.
DevicesFinish == (running # None /\ (faithful \/ flattened)) ~> running = None

\* The comment at 371-374 lets the second device of four get elements "from the
\* leftmost node", with conditionals too.
DevicesAlwaysFinish == running # None ~> running = None
=============================================================================
