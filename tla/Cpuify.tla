--------------------------------- MODULE Cpuify ---------------------------------
(***************************************************************************)
(* Parallel loops with barriers, their execution by threads, and the pass  *)
(* that rewrites them into loops without                                   *)
(* (src/src/enzyme_ad/jax/Passes/ParallelLoopDistribute.cpp and            *)
(* BarrierElimination.h).                                                  *)
(*                                                                         *)
(* A block is a sequence of operations. An operation has results,          *)
(* operands, regions, what each region yields and the arguments of its     *)
(* body; "load", "cacheload", "store" and "alloca" name a memory. Values   *)
(* are known by name: "tid" is the thread, "other" its neighbour, decimals *)
(* are constants. Two memories alias just if they are one. A parallel loop *)
(* has one dimension, and every barrier waits for all of it.               *)
(***************************************************************************)
EXTENDS Integers, Sequences, FiniteSets, TLC
LOCAL INSTANCE SequencesExt

CONSTANTS
  Programs,     \* the functions that may be given
  Methods,      \* the values of the option `method`: records as below
  Threads,      \* iterations of a parallel loop
  MaxRewrites   \* rewrites followed
ASSUME ThreadsAssumption == Threads \in Nat \ {0}
ASSUME MethodsAssumption == Methods \subseteq [kind : {"omp", "wrap", "ifsplit", "ifhoist"}, mincut : BOOLEAN]

VARIABLES
  method,     \* the option
  prog,       \* the function, rewritten
  rewrites,   \* number of rewrites
  faithful,   \* no rewrite so far was of a kind that is wrong
  machine,    \* the state of its execution, once it runs
  expected    \* what the function as given leaves in memory
vars == <<method, prog, rewrites, faithful, machine, expected>>

Tid == 0 .. Threads - 1
Least(S) == CHOOSE x \in S : \A y \in S : x <= y
Greatest(S) == CHOOSE x \in S : \A y \in S : x >= y
Take(s, n) == SubSeq(s, 1, n)
Drop(s, n) == SubSeq(s, n + 1, Len(s))

-----------------------------------------------------------------------------
(* Operations                                                              *)

Leaf(op, res, in, mem) ==
  [op |-> op, res |-> res, in |-> in, mem |-> mem, regions |-> <<>>, yields |-> <<>>, args |-> <<>>]
Add(r, x, y) == Leaf("add", <<r>>, <<x, y>>, "")
Load(r, mem, at) == Leaf("load", <<r>>, <<at>>, mem)
CacheLoad(r, mem) == Leaf("cacheload", <<r>>, <<"tid">>, mem)
Store(mem, at, x) == Leaf("store", <<>>, <<at, x>>, mem)
Alloca(mem) == Leaf("alloca", <<>>, <<>>, mem)
Barrier == Leaf("barrier", <<>>, <<>>, "")

Nest(op, res, in, regions, yields, args) ==
  [op |-> op, res |-> res, in |-> in, mem |-> "", regions |-> regions, yields |-> yields, args |-> args]
If(c, then) == Nest("if", <<>>, <<c>>, <<then>>, <<<<>>>>, <<>>)
IfElse(c, then, else) == Nest("if", <<>>, <<c>>, <<then, else>>, <<<<>>, <<>>>>, <<>>)
For(iv, n, body) == Nest("for", <<>>, <<n>>, <<body>>, <<<<>>>>, <<iv>>)
While(before, c, after) == Nest("while", <<>>, <<>>, <<before, after>>, <<<<c>>, <<>>>>, <<>>)
Parallel(body) == Nest("parallel", <<>>, <<>>, <<body>>, <<<<>>>>, <<>>)

\* hasNestedBarrier
RECURSIVE HasBarrier(_)
HasBarrier(o) == o.op = "barrier" \/ \E r \in DOMAIN o.regions : \E j \in DOMAIN o.regions[r] : HasBarrier(o.regions[r][j])
Nested(o) == o.op # "barrier" /\ HasBarrier(o)

RECURSIVE Used(_)
Used(o) == ToSet(o.in) \union {o.mem} \union UNION {ToSet(o.yields[r]) : r \in DOMAIN o.yields}
             \union UNION {UNION {Used(o.regions[r][j]) : j \in DOMAIN o.regions[r]} : r \in DOMAIN o.regions}
Results(o) == ToSet(o.res) \union (IF o.op = "alloca" THEN {o.mem} ELSE {})
Uses(b) == UNION {Used(b[j]) : j \in DOMAIN b}
Defs(b) == UNION {Results(b[j]) : j \in DOMAIN b}

-----------------------------------------------------------------------------
(* Memory effects                                                          *)

\* collectEffects, and its sibling for the distribution, which does not see
\* the loads of cached values. Neither sees barriers.
RECURSIVE Effects(_, _)
Effects(o, unseen) ==
  CASE o.op \in unseen \union {"barrier"} -> {}
    [] o.op \in {"load", "cacheload"} \ unseen -> {<<"read", o.mem>>}
    [] o.op = "store" -> {<<"write", o.mem>>}
    [] o.op = "alloca" -> {<<"allocate", o.mem>>}
    [] OTHER -> UNION {UNION {Effects(o.regions[r][j], unseen) : j \in DOMAIN o.regions[r]} : r \in DOMAIN o.regions}
EffectsOf(b) == UNION {Effects(b[j], {}) : j \in DOMAIN b}

\* mayReadFrom, mayWriteTo
Writes(b) == {e[2] : e \in {e \in EffectsOf(b) : e[1] = "write"}}
Reads(b) == {e[2] : e \in {e \in EffectsOf(b) : e[1] = "read"}}

BarriersIn(b) == {j \in DOMAIN b : b[j].op = "barrier"}
LastBefore(b, k) == Greatest({0} \union {j \in BarriersIn(b) : j < k})
FirstAfter(b, k) == Least({Len(b) + 1} \union {j \in BarriersIn(b) : j > k})
Between(b, k, l) == SubSeq(b, k + 1, l - 1)

\* The effects before and after a place in a parallel loop, as far as the
\* nearest barrier and altogether: getEffectsBefore and getEffectsAfter.
NoSurroundings == [before |-> {}, beforeStop |-> {}, after |-> {}, afterStop |-> {}]
Around(b, k, s) ==
  [before |-> EffectsOf(Take(b, k - 1)) \union s.before,
   beforeStop |-> EffectsOf(Between(b, LastBefore(b, k), k)) \union (IF LastBefore(b, k) = 0 THEN s.beforeStop ELSE {}),
   after |-> EffectsOf(Drop(b, k)) \union s.after,
   afterStop |-> EffectsOf(Between(b, k, FirstAfter(b, k))) \union (IF FirstAfter(b, k) > Len(b) THEN s.afterStop ELSE {})]
\* The same for the regions of operation k: a loop may have run before.
InsideOnce(b, k, s) == Around(b, k, s)
Inside(b, k, s) ==
  LET a == Around(b, k, s)
  IN  IF b[k].op \in {"for", "while"} THEN [f \in DOMAIN a |-> a[f] \union Effects(b[k], {})] ELSE a

\* BarrierOp::getEffects: a barrier, or those in operation k, have the effects
\* of what they order.
RECURSIVE Synced(_, _, _)
Synced(b, k, s) ==
  IF b[k].op = "barrier" THEN Around(b, k, s).beforeStop \union Around(b, k, s).afterStop
  ELSE UNION {UNION {Synced(b[k].regions[r], j, Inside(b, k, s)) : j \in DOMAIN b[k].regions[r]} : r \in DOMAIN b[k].regions}

Conflict(E, F) == \E e \in E, f \in F : e[2] = f[2] /\ ~(e[1] = "read" /\ f[1] = "read")

Put(b, k, ops) == Take(b, k - 1) \o ops \o Drop(b, k)
InRegion(o, r, b) == [o EXCEPT !.regions[r] = b]

\* BarrierElim: the blocks that b becomes when one barrier goes.
RECURSIVE ElimIn(_, _)
ElimIn(b, s) ==
  UNION {LET a == Around(b, k, s)
         IN  IF b[k].op = "barrier"
             THEN IF ~Conflict(a.beforeStop, a.after) \/ ~Conflict(a.before, a.afterStop) THEN {Put(b, k, <<>>)} ELSE {}
             ELSE UNION {{Put(b, k, <<InRegion(b[k], r, new)>>) : new \in ElimIn(b[k].regions[r], Inside(b, k, s))} :
                           r \in DOMAIN b[k].regions} :
           k \in DOMAIN b}
BarrierElim(body) == ElimIn(body, NoSurroundings)

-----------------------------------------------------------------------------
(* Values that cross a barrier                                             *)

\* isRecomputableAfterDistribute and isRecomputableCond: operation j may be
\* done again behind operation k.
IsReading(b, j, k) ==
  b[j].op # "barrier" /\ \A e \in Effects(b[j], {"cacheload"}) \union Synced(b, j, NoSurroundings) : e[1] = "read"
IsRecomputable(b, j, k) ==
  /\ b[j].op # "barrier"
  /\ \A e \in Effects(b[j], {"cacheload"}) \union Synced(b, j, NoSurroundings) :
       e[1] = "read" /\ e[2] \notin Writes(Between(b, LastBefore(b, j), FirstAfter(b, k)))

\* What can be had behind the barrier k if the values C are kept.
Recovered(b, k, C) ==
  LET f[j \in 0 .. k - 1] ==
        IF j = 0 THEN {}
        ELSE f[j - 1] \union
             (IF IsRecomputable(b, j, k) /\ Used(b[j]) \intersect Defs(Take(b, k - 1)) \subseteq f[j - 1] \union Results(b[j])
                                          /\ b[j].op # "alloca"
              THEN Results(b[j]) ELSE Results(b[j]) \intersect C)
  IN  f[k - 1]

Fewest(S) == {C \in S : \A D \in S : Cardinality(C) <= Cardinality(D)}
\* minCutCache: as few values as possible, and of such sets the one nearest to
\* the operations that cannot be done again.
Latest(cuts, b, k) ==
  CHOOSE C \in cuts : \A D \in cuts : Cardinality(Recovered(b, k, D)) <= Cardinality(Recovered(b, k, C))
MinCut(b, k, used) ==
  Latest(Fewest({C \in SUBSET Defs(Take(b, k - 1)) : used \subseteq Recovered(b, k, C)}), b, k)

\* A name for a new memory that no operation uses yet.
Fresh(v, taken) ==
  LET name(n) == ToString(n) \o v
  IN  name(Least({n \in 1 .. Cardinality(taken) + 1 : name(n) \notin taken}))

\* The block b cut at its barrier k: what comes before, with the values that
\* cross being stored, and what comes after, with those reloaded or computed
\* again; the memories `allocas` move out, the memories `cells` are new
\* (findValuesUsedBelow, getIfCrossingCache, distributeAroundBarrier).
CutKeeping(b, k, used, kept, taken) ==
  LET allocas == {b[j].mem : j \in {j \in 1 .. k - 1 : b[j].op = "alloca" /\ b[j].mem \in used \union Writes(Take(b, k - 1))}}
      crossing(j) == b[j].op # "alloca" /\ Results(b[j]) \intersect (kept \ allocas) # {}
      cell(j) == IF b[j].op = "cacheload" THEN b[j].mem ELSE Fresh(b[j].res[1], taken)
      again[j \in 1 .. k - 1] ==
        /\ ~crossing(j) /\ b[j].op # "alloca"
        /\ Results(b[j]) \intersect (used \union UNION {Used(b[i]) : i \in {i \in j + 1 .. k - 1 : again[i]}}) # {}
  IN  [pre |-> FlattenSeq([j \in 1 .. k - 1 |->
                 IF b[j].op = "alloca" /\ b[j].mem \in allocas THEN <<>>
                 ELSE IF crossing(j) /\ b[j].op # "cacheload" THEN <<b[j], Store(cell(j), "tid", b[j].res[1])>>
                 ELSE <<b[j]>>]),
       post |-> FlattenSeq([j \in 1 .. k - 1 |-> IF crossing(j) THEN <<CacheLoad(b[j].res[1], cell(j))>> ELSE <<>>])
                  \o FlattenSeq([j \in 1 .. k - 1 |-> IF again[j] THEN <<b[j]>> ELSE <<>>])
                  \o Drop(b, k),
       allocas |-> allocas,
       cells |-> {cell(j) : j \in {j \in 1 .. k - 1 : crossing(j) /\ b[j].op # "cacheload"}}]
CutUsing(b, k, used, taken) ==
  CutKeeping(b, k, used, IF method.mincut THEN MinCut(b, k, used) ELSE used, taken)
Cut(b, k, out, taken) ==
  CutUsing(b, k, Defs(Take(b, k - 1)) \intersect (Uses(Drop(b, k)) \union out), taken)

-----------------------------------------------------------------------------
(* Rewrites of a parallel loop. Each yields the operations that replace it, *)
(* and whether the rewrite is one to be trusted.                            *)

To(ops) == [new |-> ops, ok |-> TRUE]
When(ok, ops) == [new |-> ops, ok |-> ok]

\* arePreceedingOpsFullyRecomputable
PrefixRecomputable(b, k, single) ==
  \A j \in 1 .. k - 1 : \A e \in Effects(b[j], {"cacheload"}) :
    e[1] = "read" /\ (single \/ e[2] \notin Writes(<<b[k]>>))

\* distributeAroundBarrier
Halves(cut) == <<Parallel(cut.pre), Parallel(cut.post)>>
Distributed(b, k, taken) == Halves(Cut(b, k, {}, taken))

\* DistributeAroundBarrier: the first barrier.
DistributeAroundBarrier(b, taken) ==
  {To(Distributed(b, Least(BarriersIn(b)), taken)) : x \in {x \in {1} : BarriersIn(b) # {}}}

\* wrapAndDistribute: barriers around operation k, and a cut at the first one
\* that is new. (The second is looked for outside the loop, and stays.)
Wrap(b, k, single, taken) ==
  LET free == PrefixRecomputable(b, k, single)
      before == k > 1 /\ b[k - 1].op # "barrier" /\ ~free
      behind == k < Len(b) /\ b[k + 1].op # "barrier"
      new == Put(b, k, (IF before THEN <<Barrier>> ELSE <<>>) \o <<b[k]>> \o (IF behind THEN <<Barrier>> ELSE <<>>))
  IN  IF (free /\ k = Len(b)) \/ ~(before \/ behind) THEN {}
      ELSE {To(Distributed(new, IF before THEN k ELSE k + 1, taken))}

\* WrapForWithBarrier, WrapWhileWithBarrier, WrapIfWithBarrier: what precedes
\* an if is done again at most once.
Wrappable(o) == Nested(o) /\ o.res = <<>> /\ (o.op # "if" \/ method.kind \in {"wrap", "ifsplit"})
WrapAllOnce(b, taken) == UNION {IF Wrappable(b[k]) THEN Wrap(b, k, TRUE, taken) ELSE {} : k \in DOMAIN b}
WrapWithBarriers(b, taken) ==
  UNION {IF Wrappable(b[k]) THEN Wrap(b, k, b[k].op = "if", taken) ELSE {} : k \in DOMAIN b}

\* Operations as they are cloned in front of the loop, for the first thread:
\* what they define gets another name.
RECURSIVE Renamed(_, _)
Renamed(o, names) ==
  LET to(x) == IF x \in names THEN "h" \o x ELSE x
      all(s) == [j \in DOMAIN s |-> to(s[j])]
  IN  [o EXCEPT !.res = all(@), !.in = all(@), !.mem = to(@),
                !.yields = [r \in DOMAIN @ |-> all(@[r])],
                !.regions = [r \in DOMAIN @ |-> [j \in DOMAIN @[r] |-> Renamed(@[r][j], names)]]]
OnHost(ops, names) == [j \in DOMAIN ops |-> Renamed(ops[j], names)]

\* The condition or bound of an operation, taken from the first thread.
HostHead(o, names) == [o EXCEPT !.in = [j \in DOMAIN @ |-> IF @[j] \in names THEN "h" \o @[j] ELSE @[j]]]

\* InterchangeForIfPFor
InterchangeForIf(b) ==
  LET k == Len(b)
      prefix == Take(b, k - 1)
  IN  IF k > 0 /\ b[k].op \in {"for", "if"} /\ Nested(b[k]) /\ b[k].res = <<>>
           /\ PrefixRecomputable(b, k, b[k].op = "if")
      THEN {To(OnHost(prefix, Defs(prefix))
                 \o <<[HostHead(b[k], Defs(prefix)) EXCEPT
                         !.regions = [r \in DOMAIN @ |-> <<Parallel(prefix \o @[r])>>]]>>)}
      ELSE {}

\* InterchangeWhilePFor: the first thread writes the condition down.
InterchangeWhile(b, taken) ==
  LET k == Len(b)
      prefix == Take(b, k - 1)
      before == b[k].regions[1]
      c == b[k].yields[1][1]
      cell == Fresh(c, taken)
      noted == FlattenSeq([j \in DOMAIN before |->
                 IF c \in Results(before[j])
                 THEN <<before[j], Leaf("isfirst", <<"first">>, <<"tid">>, ""), If("first", <<Store(cell, "0", c)>>)>> ELSE <<before[j]>>])
  IN  IF k > 0 /\ b[k].op = "while" /\ Nested(b[k]) /\ PrefixRecomputable(b, k, FALSE)
           /\ c \in Defs(before)
      THEN {To(<<[b[k] EXCEPT
                    !.regions = << <<Parallel(prefix \o noted), Load("h" \o c, cell, "0")>>,
                                   <<Parallel(prefix \o b[k].regions[2])>> >>,
                    !.yields = << <<"h" \o c>>, <<>> >>]>>)}
      ELSE {}

\* HoistBarrierIf: what precedes the if is cloned in front of the loop
\* whatever it does, and without an else everything around the if is lost
\* when its condition is false.
HoistBarrierIf(b) ==
  {LET prefix == Take(b, k - 1)
       o == b[k]
   IN  When(/\ \A e \in EffectsOf(prefix) : e[1] = "read"
            /\ Len(o.regions) = 1 => EffectsOf(prefix \o Drop(b, k)) = {},
            OnHost(prefix, Defs(prefix))
              \o <<[HostHead(o, Defs(prefix)) EXCEPT
                      !.regions = [r \in DOMAIN @ |-> <<Parallel(prefix \o @[r] \o Drop(b, k))>>]]>>) :
     k \in {k \in DOMAIN b : b[k].op = "if" /\ b[k].res = <<>> /\ Nested(b[k])}}

\* The operations the value x of block b is computed by.
RECURSIVE Slice(_, _)
Slice(b, x) ==
  LET d == {j \in DOMAIN b : x \in Results(b[j])}
  IN  d \union UNION {UNION {Slice(b, y) : y \in Used(b[j])} : j \in d}

\* DistributeIfAroundBarrier: an if is split in two at the first barrier of
\* each branch. If its condition can be recomputed it is, in front of the
\* loop, where what comes before an earlier barrier has not yet run.
SplitIf(b, k, slice, hoist, cut) ==
  LET early == FlattenSeq([j \in DOMAIN b |-> IF j \in slice THEN <<b[j]>> ELSE <<>>])
      out == UNION {cut[r].allocas \union cut[r].cells : r \in DOMAIN cut}
      head == IF hoist THEN HostHead(b[k], Defs(b)) ELSE b[k]
      first == [head EXCEPT !.res = <<>>, !.yields = [r \in DOMAIN @ |-> <<>>], !.regions = [r \in DOMAIN @ |-> cut[r].pre]]
      second == [head EXCEPT !.regions = [r \in DOMAIN @ |-> cut[r].post]]
  IN  When(hoist => Reads(early) \intersect Writes(Take(b, k - 1)) = {},
           (IF hoist THEN OnHost(early, Defs(early)) ELSE <<>>)
             \o <<Parallel(Take(b, k - 1) \o SetToSeq({Alloca(mem) : mem \in out})
                            \o <<first, Barrier, second>> \o Drop(b, k))>>)
CutBranch(branch, yields, taken) == Cut(branch, Least(BarriersIn(branch)), ToSet(yields), taken)
CutBranches(o, taken) ==
  [r \in DOMAIN o.regions |->
     CutBranch(IF BarriersIn(o.regions[r]) = {} THEN Append(o.regions[r], Barrier) ELSE o.regions[r], o.yields[r], taken)]
DistributeIf(b, taken) ==
  {LET slice == Slice(b, b[k].in[1])
   IN  SplitIf(b, k, slice, \A j \in slice : IsRecomputable(b, j, k), CutBranches(b[k], taken)) :
     k \in {k \in DOMAIN b : b[k].op = "if" /\ \E r \in DOMAIN b[k].regions : BarriersIn(b[k].regions[r]) # {}}}

\* Where Reg2MemFor and Reg2MemIf keep the result r of an operation, and how
\* it is read.
Reload(r, mem) == IF method.mincut THEN CacheLoad(r, mem) ELSE Load(r, mem, "tid")

\* Reg2MemFor: the value a loop carries is kept in memory.
Reg2MemFor(b, taken) ==
  {LET o == b[k]
       cell == Fresh(o.res[1], taken)
       body == o.regions[1]
       end == IF body # <<>> /\ body[Len(body)].op = "barrier" THEN Len(body) - 1 ELSE Len(body)
   IN  To(<<Parallel(Put(b, k,
         <<Alloca(cell), Store(cell, "tid", o.in[2]),
           For(o.args[1], o.in[1],
               <<Reload(o.args[2], cell)>> \o Take(body, end)
                 \o <<Store(cell, "tid", o.yields[1][1])>> \o Drop(body, end)),
           Reload(o.res[1], cell)>>))>>) :
     k \in {k \in DOMAIN b : b[k].op = "for" /\ b[k].res # <<>> /\ Nested(b[k])}}

\* Reg2MemIf: the result of an if is kept in memory, or, if all that is done
\* with it is to store it, it is stored by either branch instead.
Reg2MemIf(b, taken) ==
  {LET o == b[k]
       r == o.res[1]
       users == {j \in DOMAIN b : r \in Used(b[j])}
       reads(j) == Reads(<<b[j]>>) \union {e[2] : e \in {e \in Synced(b, j, NoSurroundings) : e[1] = "read"}}
       sinks == \A j \in users : /\ b[j].op = "store" /\ b[j].in[2] = r
                                 /\ \A i \in k + 1 .. j - 1 : b[j].mem \notin reads(i)
       cell == Fresh(r, taken)
       \* the branch would store what is there already
       idle(j, v) == \E i \in 1 .. j : /\ b[i].op = "cacheload" /\ b[i].res[1] = v /\ b[i].mem = b[j].mem
                                       /\ b[i].in[1] = b[j].in[1]
                                       /\ b[j].mem \notin Writes(Between(b, i, j))
       stores(v) == IF sinks
                    THEN FlattenSeq([j \in DOMAIN b |->
                           IF j \in users /\ ~idle(j, v) THEN <<[b[j] EXCEPT !.in[2] = v]>> ELSE <<>>])
                    ELSE <<Store(cell, "tid", v)>>
       new == [o EXCEPT !.res = <<>>, !.yields = <<<<>>, <<>>>>,
                        !.regions = [x \in DOMAIN @ |-> @[x] \o stores(o.yields[x][1])]]
   IN  When(sinks => \A j \in users : b[j].mem \notin Writes(Between(b, k, j)),
         <<Parallel(
             IF sinks
             THEN FlattenSeq([j \in DOMAIN b |-> IF j \in users THEN <<>> ELSE IF j = k THEN <<new>> ELSE <<b[j]>>])
             ELSE Put(b, k, <<Alloca(cell), new, Reload(r, cell)>>))>>) :
     k \in {k \in DOMAIN b : b[k].op = "if" /\ b[k].res # <<>> /\ Nested(b[k])}}

-----------------------------------------------------------------------------
(* The driver                                                              *)

ParallelRewrites(b, taken) ==
  {To(<<Parallel(new)>>) : new \in BarrierElim(b)}
    \union Reg2MemFor(b, taken) \union Reg2MemIf(b, taken)
    \union WrapWithBarriers(b, taken)
    \union InterchangeForIf(b) \union InterchangeWhile(b, taken)
    \union (IF method.kind = "ifhoist" THEN HoistBarrierIf(b) ELSE {})
    \union (IF method.kind = "ifsplit" THEN DistributeIf(b, taken) ELSE {})
    \union DistributeAroundBarrier(b, taken)

\* The rewrites of a block outside parallel loops. A barrier that a hoisted
\* prefix brought there synchronises constants, and goes.
RECURSIVE Rewrites(_, _)
Rewrites(b, taken) ==
  UNION {IF b[k].op = "parallel" THEN {[x EXCEPT !.new = Put(b, k, @)] : x \in ParallelRewrites(b[k].regions[1], taken)}
         ELSE IF b[k].op = "barrier" THEN {To(Put(b, k, <<>>))}
         ELSE UNION {{[x EXCEPT !.new = Put(b, k, <<InRegion(b[k], r, @)>>)] : x \in Rewrites(b[k].regions[r], taken)} :
                       r \in DOMAIN b[k].regions} :
           k \in DOMAIN b}

Distributing == method.kind # "omp"
Options == IF Distributing THEN Rewrites(prog, Uses(prog)) ELSE {}

None == <<>>

\* runOnOperation, one application of a pattern by the greedy driver.
Rewrite ==
  /\ machine = None /\ rewrites < MaxRewrites
  /\ \E x \in Options :
       /\ prog' = x.new
       /\ faithful' = (faithful /\ x.ok)
  /\ rewrites' = rewrites + 1
  /\ UNCHANGED <<method, machine, expected>>

-----------------------------------------------------------------------------
(* Execution. An actor has operations left, values and the memory.          *)

Shared == {"G", "H"}
Undefined == -9

Base(t) == [x \in {"0", "1", "2", "tid", "other"} |->
              CASE x = "0" -> 0 [] x = "1" -> 1 [] x = "2" -> 2 [] x = "tid" -> t [] x = "other" -> (t + 1) % Threads]
Fetch(mem, cell) == IF cell \in DOMAIN mem THEN mem[cell] ELSE Undefined
Bind(env, names, values) == [j \in {names[i] : i \in DOMAIN names} |-> values[CHOOSE i \in DOMAIN names : names[i] = j]] @@ env
Assign(names, from) == IF names = <<>> THEN <<>> ELSE <<Leaf("assign", names, from, "")>>

\* What the first operation of an actor does.
Execute(s) ==
  LET o == Head(s.ops)
      rest == Tail(s.ops)
      arg(j) == s.env[o.in[j]]
      go(ops) == [s EXCEPT !.ops = ops \o rest]
      set(values) == [s EXCEPT !.ops = rest, !.env = Bind(@, o.res, values)]
  IN  CASE o.op = "add" -> set(<<arg(1) + arg(2)>>)
        [] o.op = "isfirst" -> set(<<IF arg(1) = 0 THEN 1 ELSE 0>>)
        [] o.op = "assign" -> set([j \in DOMAIN o.in |-> arg(j)])
        [] o.op \in {"load", "cacheload"} -> set(<<Fetch(s.mem, <<o.mem, arg(1)>>)>>)
        [] o.op = "store" -> [s EXCEPT !.ops = rest, !.mem = (<<o.mem, arg(1)>> :> arg(2)) @@ @]
        [] o.op \in {"alloca", "barrier"} -> go(<<>>)
        [] o.op = "if" ->
             LET r == IF arg(1) # 0 THEN 1 ELSE 2
             IN  IF r \in DOMAIN o.regions THEN go(o.regions[r] \o Assign(o.res, o.yields[r])) ELSE go(<<>>)
        [] o.op = "for" ->
             go(Assign(Tail(o.args), Tail(o.in)) \o <<[o EXCEPT !.op = "iterate", !.in = <<0, arg(1)>>]>>)
        [] o.op = "iterate" ->
             IF o.in[1] < o.in[2]
             THEN [go(o.regions[1] \o Assign(Tail(o.args), o.yields[1]) \o <<[o EXCEPT !.in[1] = @ + 1]>>)
                     EXCEPT !.env = (o.args[1] :> o.in[1]) @@ @]
             ELSE go(Assign(o.res, Tail(o.args)))
        [] o.op = "while" -> go(o.regions[1] \o <<[o EXCEPT !.op = "test", !.in = o.yields[1]]>>)
        [] o.op = "test" -> IF arg(1) # 0 THEN go(o.regions[2] \o <<[o EXCEPT !.op = "while"]>>) ELSE go(<<>>)

\* It goes on by itself as long as no other thread could tell.
RECURSIVE Alone(_, _)
Alone(s, host) ==
  IF s.ops = <<>> \/ Head(s.ops).op = "parallel" \/ (~host /\ (Head(s.ops).op = "barrier" \/ Head(s.ops).mem \in Shared))
  THEN s ELSE Alone(Execute(s), host)

\* A machine: the operations and values of the host and of every thread, and
\* the memory.
Actor(ops, env, mem) == [ops |-> ops, env |-> env, mem |-> mem]
ThreadAt(m, t) == Actor(m.ops[t], m.env[t], m.mem)
With(m, t, s) == [m EXCEPT !.ops[t] = s.ops, !.env[t] = s.env, !.mem = s.mem]

\* Threads ts run on as far as they can alone.
RECURSIVE Settled(_, _)
Settled(m, ts) ==
  IF ts = {} THEN m
  ELSE LET t == Least(ts) IN Settled(With(m, t, Alone(ThreadAt(m, t), FALSE)), ts \ {t})

\* When all threads are through, the host goes on to the next parallel loop.
RECURSIVE Hosted(_)
Hosted(m) ==
  IF \E t \in Tid : m.ops[t] # <<>> THEN m
  ELSE LET s == Alone(Actor(m.host, m.henv, m.mem), TRUE)
       IN  IF s.ops = <<>> THEN [m EXCEPT !.host = <<>>, !.henv = s.env, !.mem = s.mem]
           ELSE Hosted(Settled([host |-> Tail(s.ops), henv |-> s.env, mem |-> s.mem,
                                ops |-> [t \in Tid |-> Head(s.ops).regions[1]],
                                env |-> [t \in Tid |-> Base(t) @@ s.env]], Tid))

Started(p) ==
  Hosted([host |-> p, henv |-> Base(0), ops |-> [t \in Tid |-> <<>>], env |-> [t \in Tid |-> Base(t)],
          mem |-> [c \in Shared \X Tid |-> IF c[1] = "G" THEN c[2] + 1 ELSE 0]])

AtBarrier(m, t) == m.ops[t] # <<>> /\ Head(m.ops[t]).op = "barrier"
Ready(m, t) == m.ops[t] # <<>> /\ ~AtBarrier(m, t)
\* A thread reads or writes shared memory.
Stepped(m, t) ==
  LET s == Alone(Execute(ThreadAt(m, t)), FALSE) IN Hosted(With(m, t, s))
\* All threads leave the barrier.
Released(m) == Hosted(Settled([m EXCEPT !.ops = [t \in Tid |-> Tail(@[t])]], Tid))
Finished(m) == m.host = <<>> /\ \A t \in Tid : m.ops[t] = <<>>

\* What is left in memory if the threads take turns.
RECURSIVE Outcome(_)
Outcome(m) ==
  IF Finished(m) THEN [c \in Shared \X Tid |-> m.mem[c]]
  ELSE IF \E t \in Tid : Ready(m, t) THEN Outcome(Stepped(m, Least({t \in Tid : Ready(m, t)})))
  ELSE Outcome(Released(m))

-----------------------------------------------------------------------------

Init ==
  /\ method \in Methods
  /\ prog \in Programs
  /\ rewrites = 0 /\ faithful = TRUE
  /\ machine = None
  /\ expected = Outcome(Started(prog))

\* The pass is over when no pattern applies; then the function runs.
Start ==
  /\ machine = None /\ Options = {}
  /\ machine' = Started(prog)
  /\ UNCHANGED <<method, prog, rewrites, faithful, expected>>

Step ==
  /\ machine # None
  /\ \E t \in Tid : Ready(machine, t) /\ machine' = Stepped(machine, t)
  /\ UNCHANGED <<method, prog, rewrites, faithful, expected>>

LeaveBarrier ==
  /\ machine # None
  /\ \A t \in Tid : AtBarrier(machine, t)
  /\ machine' = Released(machine)
  /\ UNCHANGED <<method, prog, rewrites, faithful, expected>>

End == machine # None /\ Finished(machine) /\ UNCHANGED vars

Next == Rewrite \/ Start \/ Step \/ LeaveBarrier \/ End
Spec == Init /\ [][Next]_vars

-----------------------------------------------------------------------------
(* Properties                                                              *)

\* However the threads interleave, the rewritten function leaves in memory
\* what the given one does: no barrier that BarrierElim removes was needed,
\* not even by the next iteration of a loop around it, what crosses a barrier
\* is cached or gives the same when isRecomputableAfterDistribute has it done
\* again, a loop interchanged with the parallel loop runs as often, and what
\* is moved over something does not depend on it. (Under "omp": the functions
\* given have no races.)
KeepsMemory ==
  (faithful /\ machine # None /\ Finished(machine)) => \A c \in DOMAIN expected : machine.mem[c] = expected[c]

\* The same of every rewrite: HoistBarrierIf is to make if { parallel { A() B()
\* D() } } of parallel { A() if { B() } D() } (ParallelLoopDistribute.cpp
\* 1878-1903), which does A() as often.
AlwaysKeepsMemory ==
  (machine # None /\ Finished(machine)) => \A c \in DOMAIN expected : machine.mem[c] = expected[c]

\* When no pattern applies any more no barrier is left in the function: what
\* wrapAndDistribute takes for recomputable the interchanges and the splits
\* can do without, whichever patterns the greedy driver of runOnOperation
\* happened to try first.
NoBarrierLeft ==
  (Distributing /\ machine = None /\ Options = {}) => \A j \in DOMAIN prog : ~HasBarrier(prog[j])

\* The patterns come to an end, in whatever order: they "should not disagree
\* [...] otherwise we might cache unneeded results or wrap* will ask us to
\* distribute again [...], resulting into an infinite loop"
\* (isRecomputableAfterDistribute).
Converges == rewrites < MaxRewrites
=============================================================================
