---------------------------- MODULE MemoryEffects ----------------------------
(***************************************************************************)
(* MarkFunctionMemoryEffectsPass                                           *)
(* (src/src/enzyme_ad/jax/Passes/MarkFunctionMemoryEffectsPass.cpp): a     *)
(* depth first search of the call graph, the direct effects of every       *)
(* function it ordered, and their propagation from callee to caller, for   *)
(* the function and for each of its arguments.                             *)
(*                                                                         *)
(* A body is a set of operations; only what the analysis looks at is kept. *)
(* Operands are arguments of the function or Local; values derived from an *)
(* argument, by views or loads, are left out.  The operands of a call are  *)
(* those passed on.                                                        *)
(***************************************************************************)
EXTENDS Integers, Sequences, FiniteSets

CONSTANTS
  Func,            \* functions with a body
  Unknown,         \* the call graph node of every callee without one
  NumArgs,         \* each function has arguments 1 .. NumArgs
  Modules,         \* the modules the pass may be given: [Func -> SUBSET Op]
  IterationLimits, \* the values option max_iterations may have
  RefsMatch        \* TRUE: a call names its callee by the key of the tables

Node == Func \union {Unknown}
Arg == 1 .. NumArgs
Local == 0
Effect == {"read", "write", "allocate", "free"}

\* An "indirect" call calls a value, the others of CallKind a symbol; the edge of
\* the call graph is then that of an unknown callee.  effects, on: what a "memory"
\* operation does, and to which operand (to all of them when on = Local).
\* free: xla_side_effect_free, or has_side_effect = false on a "custom" call.
Op == [kind : {"call", "jit", "kernel", "indirect", "custom", "memory", "opaque"},
       callee : Node, operands : Seq(Arg \union {Local}),
       effects : SUBSET Effect, on : Arg \union {Local}, free : BOOLEAN]

SymbolCall == {"call", "jit", "kernel"}
CallKind == SymbolCall \union {"indirect"}

ASSUME FuncAssumption == Unknown \notin Func /\ NumArgs \in Nat /\ IterationLimits \subseteq Int
ASSUME RefsAssumption == RefsMatch \in BOOLEAN
ASSUME ModulesAssumption ==
  /\ Modules \subseteq [Func -> SUBSET Op]
  /\ \A body \in Modules : \A f \in Func : \A op \in body[f] :
       /\ op.kind \in SymbolCall => Len(op.operands) = NumArgs
       /\ op.kind = "indirect" => op.callee = Unknown

VARIABLES
  body,        \* the module, never changed
  assume,      \* option assume_no_memory_effects
  max_iterations, \* option max_iterations
  visitState, topoOrder, hasCycle,
  roots,       \* nodes the loop over the call graph has yet to try
  stack,       \* frames of dfs: the node and the callees it has yet to visit
  phase, next, \* the loop over topoOrder, and the position it is at
  changed, iteration,
  funcEffects, argEffects,
  attr, argAttr \* the attributes attached: a set of effects, or None

None == {"none"}

dfsVars == <<visitState, topoOrder, hasCycle, roots, stack>>
loopVars == <<next, changed, iteration>>
tables == <<funcEffects, argEffects>>
attrs == <<attr, argAttr>>
vars == <<body, assume, max_iterations, dfsVars, phase, loopVars, tables, attrs>>

TypeOK ==
  /\ body \in Modules /\ assume \in BOOLEAN /\ max_iterations \in IterationLimits
  /\ visitState \in [Node -> {"NotVisited", "Visiting", "Visited"}]
  /\ topoOrder \in Seq(Node) /\ hasCycle \in BOOLEAN
  /\ roots \subseteq Func
  /\ stack \in Seq([node : Node, todo : SUBSET Node])
  /\ phase \in {"dfs", "direct", "propagate", "attach", "done"}
  /\ next \in Nat /\ changed \in BOOLEAN /\ iteration \in Nat
  /\ phase = "propagate" =>
       next \in IF hasCycle THEN 0 .. Len(topoOrder) ELSE 1 .. Len(topoOrder) + 1
  /\ funcEffects \in [Func -> SUBSET Effect]
  /\ argEffects \in [Func -> [Arg -> SUBSET Effect]]
  /\ attr \in [Func -> (SUBSET Effect) \union {None}]
  /\ argAttr \in [Func -> [Arg -> (SUBSET Effect) \union {None}]]

\* Edges of the call graph.
Callees(n) == IF n = Unknown THEN {} ELSE {op.callee : op \in {o \in body[n] : o.kind \in CallKind}}

Init ==
  /\ body \in Modules /\ assume \in BOOLEAN /\ max_iterations \in IterationLimits
  /\ visitState = [n \in Node |-> "NotVisited"]
  /\ topoOrder = <<>> /\ hasCycle = FALSE
  /\ roots = Func /\ stack = <<>>
  /\ phase = "dfs"
  /\ next = 0 /\ changed = TRUE /\ iteration = 0
  /\ funcEffects = [f \in Func |-> {}]
  /\ argEffects = [f \in Func |-> [a \in Arg |-> {}]]
  /\ attr = [f \in Func |-> None]
  /\ argAttr = [f \in Func |-> [a \in Arg |-> None]]

-----------------------------------------------------------------------------
(* dfs *)

Push(n) ==
  /\ visitState' = [visitState EXCEPT ![n] = "Visiting"]
  /\ stack' = Append(stack, [node |-> n, todo |-> Callees(n)])

Top == stack[Len(stack)]
Pop == SubSeq(stack, 1, Len(stack) - 1)
\* The frame on top has visited callee n.
Drop(n) == [stack EXCEPT ![Len(stack)] = [node |-> Top.node, todo |-> Top.todo \ {n}]]

\* The loop over the nodes of the call graph.
TryRoot ==
  /\ phase = "dfs" /\ stack = <<>>
  /\ \E f \in roots :
       /\ roots' = roots \ {f}
       /\ IF visitState[f] = "NotVisited" THEN Push(f) ELSE UNCHANGED <<visitState, stack>>
  /\ UNCHANGED <<body, assume, max_iterations, topoOrder, hasCycle, phase, loopVars, tables, attrs>>

\* Mutant: a node being visited counts as visited, no cycle is seen.
VisitCalleeBlind ==
  /\ phase = "dfs" /\ stack # <<>>
  /\ \E n \in Top.todo :
       IF visitState[n] = "NotVisited"
       THEN /\ visitState' = [visitState EXCEPT ![n] = "Visiting"]
            /\ stack' = Append(Drop(n), [node |-> n, todo |-> Callees(n)])
       ELSE stack' = Drop(n) /\ UNCHANGED visitState
  /\ UNCHANGED <<body, assume, max_iterations, topoOrder, hasCycle, roots, phase, loopVars, tables, attrs>>

\* Mutant: a cycle is noted, but the frames go on to their next callee.
VisitCalleeGoesOn ==
  /\ phase = "dfs" /\ stack # <<>>
  /\ \E n \in Top.todo :
       IF visitState[n] = "NotVisited"
       THEN /\ visitState' = [visitState EXCEPT ![n] = "Visiting"]
            /\ stack' = Append(Drop(n), [node |-> n, todo |-> Callees(n)])
            /\ UNCHANGED hasCycle
       ELSE /\ stack' = Drop(n)
            /\ hasCycle' = (hasCycle \/ visitState[n] = "Visiting")
            /\ UNCHANGED visitState
  /\ UNCHANGED <<body, assume, max_iterations, topoOrder, roots, phase, loopVars, tables, attrs>>

VisitCallee ==
  /\ phase = "dfs" /\ stack # <<>>
  /\ \E n \in Top.todo :
       \/ /\ visitState[n] = "NotVisited"
          /\ visitState' = [visitState EXCEPT ![n] = "Visiting"]
          /\ stack' = Append(Drop(n), [node |-> n, todo |-> Callees(n)])
          /\ UNCHANGED hasCycle
       \/ /\ visitState[n] = "Visited"
          /\ stack' = Drop(n)
          /\ UNCHANGED <<visitState, hasCycle>>
       \* A cycle: every frame returns true at once and its node stays Visiting.
       \/ /\ visitState[n] = "Visiting"
          /\ hasCycle' = TRUE
          /\ stack' = <<>>
          /\ UNCHANGED visitState
  /\ UNCHANGED <<body, assume, max_iterations, topoOrder, roots, phase, loopVars, tables, attrs>>

\* Mutant: a node is ordered before its callees are visited.
FinishEarly ==
  /\ phase = "dfs" /\ stack # <<>>
  /\ visitState' = [visitState EXCEPT ![Top.node] = "Visited"]
  /\ topoOrder' = Append(topoOrder, Top.node)
  /\ stack' = Pop
  /\ UNCHANGED <<body, assume, max_iterations, hasCycle, roots, phase, loopVars, tables, attrs>>

\* Mutant: the order is built from the front, callers first.
FinishPrepends ==
  /\ phase = "dfs" /\ stack # <<>> /\ Top.todo = {}
  /\ visitState' = [visitState EXCEPT ![Top.node] = "Visited"]
  /\ topoOrder' = <<Top.node>> \o topoOrder
  /\ stack' = Pop
  /\ UNCHANGED <<body, assume, max_iterations, hasCycle, roots, phase, loopVars, tables, attrs>>

Finish ==
  /\ phase = "dfs" /\ stack # <<>> /\ Top.todo = {}
  /\ visitState' = [visitState EXCEPT ![Top.node] = "Visited"]
  /\ topoOrder' = Append(topoOrder, Top.node)
  /\ stack' = Pop
  /\ UNCHANGED <<body, assume, max_iterations, hasCycle, roots, phase, loopVars, tables, attrs>>

DfsDone ==
  /\ phase = "dfs" /\ stack = <<>> /\ roots = {}
  /\ phase' = "direct"
  /\ UNCHANGED <<body, assume, max_iterations, dfsVars, loopVars, tables, attrs>>

-----------------------------------------------------------------------------
(* The effects of an operation *)

\* Mutant: an effect there is no bit for.
DirectEffectsUnchecked(op) ==
  CASE op.kind = "memory" -> op.effects
    [] op.kind \in {"jit", "kernel", "custom"} /\ op.free -> {}
    [] op.kind \in {"kernel", "custom"} /\ ~op.free -> Effect
    [] OTHER -> IF assume THEN {} ELSE {"unknown"}

\* As an operation of the function.
DirectEffects(op) ==
  CASE op.kind = "memory" -> op.effects
    [] op.kind \in {"jit", "kernel", "custom"} /\ op.free -> {}
    [] op.kind \in {"kernel", "custom"} /\ ~op.free -> Effect
    [] OTHER -> IF assume THEN {} ELSE Effect

\* Mutant: the last operand that is this value.
ArgIndexLast(op, a) ==
  CHOOSE i \in 1 .. Len(op.operands) :
    op.operands[i] = a /\ \A j \in (i + 1) .. Len(op.operands) : op.operands[j] # a

\* getArgIndex: the first operand that is this value.
ArgIndex(op, a) ==
  CHOOSE i \in 1 .. Len(op.operands) :
    op.operands[i] = a /\ \A j \in 1 .. (i - 1) : op.operands[j] # a

\* Whether a call finds the entry of its callee in the tables.
Entered == {n \in Func : \E i \in 1 .. Len(topoOrder) : topoOrder[i] = n}
Finds(op) == RefsMatch /\ op.callee \in Entered

\* As a user of argument a.  Of a call of a value nothing is inserted.
UseEffects(op, a) ==
  CASE op.kind \in SymbolCall -> IF Finds(op) THEN argEffects[op.callee][ArgIndex(op, a)] ELSE Effect
    [] op.kind = "indirect" -> {}
    [] op.kind = "memory" -> IF op.on \in {a, Local} THEN op.effects ELSE {}
    [] op.kind = "custom" -> IF op.free THEN {} ELSE Effect
    [] OTHER -> Effect

UsersOf(f, a) == {op \in body[f] : \E i \in 1 .. Len(op.operands) : op.operands[i] = a}

CollectDirect ==
  /\ phase = "direct"
  /\ funcEffects' = [f \in Func |->
       IF f \in Entered THEN UNION {DirectEffects(op) : op \in body[f]} ELSE {}]
  /\ next' = IF ~hasCycle THEN 1 ELSE IF max_iterations > 0 THEN Len(topoOrder) ELSE 0
  /\ changed' = (max_iterations <= 0)
  /\ phase' = "propagate"
  /\ UNCHANGED <<body, assume, max_iterations, dfsVars, iteration, argEffects, attrs>>

-----------------------------------------------------------------------------
(* Propagation *)

\* analyzeFunctionArgumentMemoryEffects and propagate for one function.
Inherited(f) ==
  UNION {funcEffects[op.callee] : op \in {o \in body[f] : o.kind \in CallKind /\ Finds(o)}}

\* Mutant: the effects of the callees replace the direct ones.
SummariseOverwrites(f) ==
  /\ argEffects' = [argEffects EXCEPT ![f] = [a \in Arg |->
       argEffects[f][a] \union UNION {UseEffects(op, a) : op \in UsersOf(f, a)}]]
  /\ funcEffects' = [funcEffects EXCEPT ![f] = Inherited(f)]

Summarise(f) ==
  /\ argEffects' = [argEffects EXCEPT ![f] = [a \in Arg |->
       argEffects[f][a] \union UNION {UseEffects(op, a) : op \in UsersOf(f, a)}]]
  /\ funcEffects' = [funcEffects EXCEPT ![f] = @ \union Inherited(f)]

\* Acyclic: callees before callers, once.
Forward ==
  /\ phase = "propagate" /\ ~hasCycle
  /\ IF next > Len(topoOrder) THEN phase' = "attach" /\ UNCHANGED <<next, tables>>
     ELSE /\ next' = next + 1
          /\ IF topoOrder[next] = Unknown THEN UNCHANGED tables ELSE Summarise(topoOrder[next])
          /\ UNCHANGED phase
  /\ UNCHANGED <<body, assume, max_iterations, dfsVars, changed, iteration, attrs>>

\* Mutant: changed says whether any function of the round gained effects.
BackwardAccumulates ==
  /\ phase = "propagate" /\ hasCycle /\ next > 0
  /\ next' = next - 1
  /\ IF topoOrder[next] = Unknown THEN UNCHANGED <<changed, tables>>
     ELSE /\ Summarise(topoOrder[next])
          /\ changed' = (changed \/ funcEffects'[topoOrder[next]] # funcEffects[topoOrder[next]])
  /\ UNCHANGED <<body, assume, max_iterations, dfsVars, phase, iteration, attrs>>

\* With a cycle: callers before callees; changed is overwritten by every node.
Backward ==
  /\ phase = "propagate" /\ hasCycle /\ next > 0
  /\ next' = next - 1
  /\ IF topoOrder[next] = Unknown THEN UNCHANGED <<changed, tables>>
     ELSE /\ Summarise(topoOrder[next])
          /\ changed' = (funcEffects'[topoOrder[next]] # funcEffects[topoOrder[next]])
  /\ UNCHANGED <<body, assume, max_iterations, dfsVars, phase, iteration, attrs>>

\* Mutant: the pass gives up without assuming anything.
EndRoundAssumesNothing ==
  /\ phase = "propagate" /\ hasCycle /\ next = 0
  /\ iteration' = iteration + 1
  /\ IF changed /\ iteration' < max_iterations
     THEN next' = Len(topoOrder) /\ changed' = FALSE /\ UNCHANGED <<phase, tables>>
     ELSE phase' = "attach" /\ UNCHANGED <<next, changed, tables>>
  /\ UNCHANGED <<body, assume, max_iterations, dfsVars, attrs>>

\* The end of a round (changed is cleared at its start): go on, or give up and
\* assume every effect when the last one changed something.
EndRound ==
  /\ phase = "propagate" /\ hasCycle /\ next = 0
  /\ iteration' = iteration + 1
  /\ IF changed /\ iteration' < max_iterations
     THEN next' = Len(topoOrder) /\ changed' = FALSE /\ UNCHANGED <<phase, tables>>
     ELSE /\ phase' = "attach" /\ UNCHANGED <<next, changed, argEffects>>
          /\ funcEffects' = IF changed THEN [f \in Func |-> IF f \in Entered THEN Effect ELSE {}]
                            ELSE funcEffects
  /\ UNCHANGED <<body, assume, max_iterations, dfsVars, attrs>>

Attach ==
  /\ phase = "attach"
  /\ attr' = [f \in Func |-> IF f \in Entered THEN funcEffects[f] ELSE None]
  /\ argAttr' = [f \in Func |-> IF f \in Entered THEN argEffects[f] ELSE [a \in Arg |-> None]]
  /\ phase' = "done"
  /\ UNCHANGED <<body, assume, max_iterations, dfsVars, loopVars, tables>>

Next ==
  \/ TryRoot \/ VisitCallee \/ Finish \/ DfsDone
  \/ CollectDirect \/ Forward \/ Backward \/ EndRound \/ Attach

Spec == Init /\ [][Next]_vars

-----------------------------------------------------------------------------
(* Properties *)

\* A function lies on a cycle of calls or reaches one: it belongs to a set each
\* of whose members calls a member.
Recursive(f) ==
  \E S \in SUBSET Func : f \in S /\ \A x \in S : Callees(x) \intersect S # {}

\* dfs orders callees before their callers and orders no node twice: the one
\* pass over an acyclic graph depends on it.
TopoSorted ==
  \A i \in 1 .. Len(topoOrder) :
    /\ \A c \in Callees(topoOrder[i]) : \E j \in 1 .. (i - 1) : topoOrder[j] = c
    /\ \A j \in 1 .. (i - 1) : topoOrder[j] # topoOrder[i]

\* The search ends with a cycle reported exactly when there is one, whichever
\* root it starts from.
CycleDetected ==
  phase # "dfs" => (hasCycle <=> \E f \in Func : Recursive(f))

\* Abandoned frames stay Visiting: the functions left without attributes are
\* exactly those on a cycle or calling, at any depth, into one.
UnannotatedIffRecursive ==
  phase = "done" => \A f \in Func : (attr[f] = None) <=> Recursive(f)

\* Passes.td:76 ("enzymexla.memory_effects attribute summarizing memory
\* access"): an attribute holds the effects of the function's own operations
\* and those its callees with a body are said to have.
Summarised ==
  phase = "done" =>
    \A f \in Func : attr[f] # None =>
      \A op \in body[f] :
        /\ DirectEffects(op) \subseteq attr[f]
        /\ op.kind \in CallKind /\ op.callee \in Func => attr[op.callee] \subseteq attr[f]

\* The same for arguments: what a callee does to its k-th argument is done to
\* the argument passed there, and what an unknown callee may do to all of them.
ArgSummarised ==
  phase = "done" =>
    \A f \in Func : attr[f] # None =>
      \A op \in body[f] : op.kind \in CallKind =>
        \A k \in 1 .. Len(op.operands) : op.operands[k] # Local =>
          (IF op.callee = Unknown THEN Effect ELSE argAttr[op.callee][k])
            \subseteq argAttr[f][op.operands[k]]

\* The k-th operand is an argument that is not passed further in front:
\* getArgIndex finds this position.
PassesFirst(op, k) ==
  op.operands[k] # Local /\ \A j \in 1 .. (k - 1) : op.operands[j] # op.operands[k]

\* The part of it the code keeps: calls of a symbol, and of the positions an
\* argument is passed at the first.
FirstArgSummarised ==
  phase = "done" =>
    \A f \in Func : attr[f] # None =>
      \A op \in body[f] : op.kind \in SymbolCall =>
        \A k \in 1 .. Len(op.operands) : PassesFirst(op, k) =>
          (IF op.callee = Unknown THEN Effect ELSE argAttr[op.callee][k])
            \subseteq argAttr[f][op.operands[k]]

\* Without recursion the single pass is complete for functions and, of what is
\* done to arguments, for the part above.
AcyclicSummarised == ~hasCycle => Summarised
AcyclicFirstArgSummarised == ~hasCycle => FirstArgSummarised

\* The whole of it, which indirect calls and arguments passed twice violate.
AcyclicArgSummarised == ~hasCycle => ArgSummarised

\* The round over a module with recursion ends with a function that calls nothing
\* the search ordered, and changed is what that one says: whatever
\* max_iterations is, no second round is made, and the pass gives up only if
\* it allows none.
OneRound == hasCycle /\ phase \in {"attach", "done"} => iteration <= 1 /\ (max_iterations > 0 => ~changed)

\* When the pass gives up (max_iterations allows no round), what it assumes
\* covers every operation and every callee.
ExhaustedSummarised == changed /\ hasCycle => Summarised

\* The comment at line 419 ("if we haven't converged, we assume effects for
\* all") of the tables for arguments.
ExhaustedArgSummarised == changed /\ hasCycle => ArgSummarised
=============================================================================
