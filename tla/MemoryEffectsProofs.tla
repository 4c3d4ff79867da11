------------------------ MODULE MemoryEffectsProofs ------------------------
(***************************************************************************)
(* Proofs about MemoryEffects for every module given to the pass: the      *)
(* search orders callees before callers and reports a cycle exactly when   *)
(* there is one; without recursion the single forward pass is complete for *)
(* functions and for the arguments of calls of a symbol, and the functions *)
(* left without attributes are exactly the recursive ones and their        *)
(* callers; with recursion a single round is made.                         *)
(***************************************************************************)
EXTENDS MemoryEffects, SequenceTheorems, WellFoundedInduction, TLAPS

Frame == [node : Node, todo : SUBSET Node]

\* A set of naturals that is not empty has a least element.
LEMMA NatMin ==
  ASSUME NEW T \in SUBSET Nat, T # {}
  PROVE  \E x \in T : \A y \in T : x <= y
<1>. DEFINE R == OpToRel(<, Nat)
<1>1. IsWellFoundedOn(R, Nat)
  BY NatLessThanWellFounded
<1>2. \A x, y \in Nat : x < y => <<x, y>> \in R
  BY DEF OpToRel
<1>. HIDE DEF R
<1>3. PICK x \in T : \A y \in T : ~ (<<y, x>> \in R)
  BY <1>1, WFMin
<1>4. \A y \in T : ~ (y < x)
  BY <1>2, <1>3
<1>. QED BY <1>4

LEMMA CalleesType == ASSUME TypeOK, NEW n \in Node PROVE Callees(n) \subseteq Node
<1>1. ASSUME n # Unknown PROVE body[n] \subseteq Op
  BY <1>1, ModulesAssumption DEF TypeOK, Node
<1>. QED BY <1>1 DEF Callees, Op

LEMMA FrameExcept ==
  ASSUME NEW s \in Seq(Frame), NEW i \in 1 .. Len(s), NEW e \in Frame
  PROVE  /\ [s EXCEPT ![i] = e] \in Seq(Frame)
         /\ Len([s EXCEPT ![i] = e]) = Len(s)
         /\ \A j \in 1 .. Len(s) : [s EXCEPT ![i] = e][j] = IF j = i THEN e ELSE s[j]
<1>. QED BY ExceptSeq

LEMMA FramePop ==
  ASSUME NEW s \in Seq(Frame), Len(s) \in Nat, Len(s) > 0
  PROVE  /\ SubSeq(s, 1, Len(s) - 1) \in Seq(Frame)
         /\ Len(SubSeq(s, 1, Len(s) - 1)) = Len(s) - 1
         /\ \A k \in 1 .. (Len(s) - 1) : SubSeq(s, 1, Len(s) - 1)[k] = s[k]
<1>1. \A i \in 1 .. (Len(s) - 1) : s[i] \in Frame
  BY ElementOfSeq
<1>2. 1 \in Int /\ Len(s) - 1 \in Int
  OBVIOUS
<1>. DEFINE n == Len(s) - 1
<1>3. /\ SubSeq(s, 1, n) \in Seq(Frame)
      /\ Len(SubSeq(s, 1, n)) = IF 1 <= n THEN n - 1 + 1 ELSE 0
      /\ \A k \in 1 .. n - 1 + 1 : SubSeq(s, 1, n)[k] = s[1 + k - 1]
  <2>. HIDE DEF n, Frame
  <2>. QED BY <1>1, <1>2, SubSeqProperties DEF n
<1>4. n \in Nat
  OBVIOUS
<1>. HIDE DEF n
<1>5. \A k \in 1 .. n : k \in 1 .. n - 1 + 1 /\ 1 + k - 1 = k
  BY <1>4
<1>6. Len(SubSeq(s, 1, n)) = n
  BY <1>3, <1>4
<1>7. \A k \in 1 .. n : SubSeq(s, 1, n)[k] = s[k]
  BY <1>3, <1>5
<1>. QED BY <1>3, <1>6, <1>7 DEF n

LEMMA StackType ==
  ASSUME TypeOK, stack # <<>>
  PROVE  stack \in Seq(Frame) /\ Len(stack) \in 1 .. Len(stack) /\ Top \in Frame
<1>1. stack \in Seq(Frame)
  BY DEF TypeOK, Frame
<1>2. Len(stack) \in 1 .. Len(stack)
  <2>. HIDE DEF Frame
  <2>. QED BY <1>1, EmptySeq, LenProperties
<1>3. stack[Len(stack)] \in Frame
  <2>. HIDE DEF Frame
  <2>. QED BY <1>1, <1>2, ElementOfSeq
<1>. QED BY <1>1, <1>2, <1>3 DEF Top

LEMMA DropType ==
  ASSUME TypeOK, stack # <<>>, NEW n
  PROVE  /\ Drop(n) \in Seq(Frame) /\ Len(Drop(n)) = Len(stack)
         /\ \A k \in 1 .. Len(stack) :
              Drop(n)[k] = IF k = Len(stack) THEN [node |-> Top.node, todo |-> Top.todo \ {n}]
                           ELSE stack[k]
<1>. DEFINE e == [node |-> Top.node, todo |-> Top.todo \ {n}]
<1>1. e \in Frame
  BY StackType DEF Frame
<1>. HIDE DEF e
<1>2. /\ [stack EXCEPT ![Len(stack)] = e] \in Seq(Frame)
      /\ Len([stack EXCEPT ![Len(stack)] = e]) = Len(stack)
      /\ \A j \in 1 .. Len(stack) :
           [stack EXCEPT ![Len(stack)] = e][j] = IF j = Len(stack) THEN e ELSE stack[j]
  BY <1>1, StackType, FrameExcept
<1>. QED BY <1>2 DEF Drop, e

LEMMA PopType ==
  ASSUME TypeOK, stack # <<>>
  PROVE  /\ Pop \in Seq(Frame) /\ Len(Pop) = Len(stack) - 1
         /\ \A k \in 1 .. Len(Pop) : Pop[k] = stack[k]
<1>1. stack \in Seq(Frame) /\ Len(stack) \in Nat /\ Len(stack) > 0
  BY StackType
<1>. QED BY <1>1, FramePop DEF Pop

-----------------------------------------------------------------------------
(* Types *)

LEMMA FrameAppend ==
  ASSUME NEW s \in Seq(Frame), NEW e \in Frame
  PROVE  /\ Append(s, e) \in Seq(Frame) /\ Len(Append(s, e)) = Len(s) + 1
         /\ \A k \in 1 .. Len(s) : Append(s, e)[k] = s[k]
         /\ Append(s, e)[Len(s) + 1] = e
<1>. HIDE DEF Frame
<1>. QED BY AppendProperties

LEMMA OrderAppend ==
  ASSUME NEW s \in Seq(Node), NEW n \in Node
  PROVE  /\ Append(s, n) \in Seq(Node) /\ Len(Append(s, n)) = Len(s) + 1
         /\ \A k \in 1 .. Len(s) : Append(s, n)[k] = s[k]
         /\ Append(s, n)[Len(s) + 1] = n
<1>. HIDE DEF Node
<1>. QED BY AppendProperties

LEMMA OrderType ==
  ASSUME TypeOK
  PROVE  /\ topoOrder \in Seq(Node) /\ Len(topoOrder) \in Nat
         /\ \A i \in 1 .. Len(topoOrder) : topoOrder[i] \in Node
<1>1. topoOrder \in Seq(Node)
  BY DEF TypeOK
<1>. HIDE DEF Node
<1>. QED BY <1>1, LenProperties, ElementOfSeq

\* The part of the state that has a body of operations to draw effects from.
LEMMA DirectType ==
  ASSUME TypeOK, NEW f \in Func, NEW op \in body[f]
  PROVE  op \in Op /\ DirectEffects(op) \subseteq Effect
<1>1. op \in Op
  BY ModulesAssumption DEF TypeOK
<1>. QED BY <1>1 DEF DirectEffects, Op

LEMMA UseType ==
  ASSUME TypeOK, NEW f \in Func, NEW a \in Arg, NEW op \in UsersOf(f, a)
  PROVE  UseEffects(op, a) \subseteq Effect
<1>1. op \in Op /\ op \in body[f]
  BY DirectType DEF UsersOf
<1>2. CASE op.kind \in SymbolCall /\ Finds(op)
  <2>1. PICK i \in 1 .. Len(op.operands) : op.operands[i] = a
    BY DEF UsersOf
  <2>2. Len(op.operands) = NumArgs
    BY <1>1, <1>2, ModulesAssumption DEF TypeOK
  <2>3. ArgIndex(op, a) \in 1 .. Len(op.operands)
    <3>. DEFINE T == {k \in 1 .. Len(op.operands) : op.operands[k] = a}
    <3>1. PICK k \in T : \A m \in T : k <= m
      <4>1. T \in SUBSET Nat /\ T # {}
        BY <2>1, <2>2, FuncAssumption
      <4>. HIDE DEF T
      <4>. QED BY <4>1, NatMin
    <3>2. k \in 1 .. Len(op.operands) /\ op.operands[k] = a
            /\ \A j \in 1 .. (k - 1) : op.operands[j] # a
      BY <3>1, <2>2, FuncAssumption
    <3>. QED BY <3>2 DEF ArgIndex
  <2>4. argEffects[op.callee][ArgIndex(op, a)] \subseteq Effect
    BY <1>2, <2>2, <2>3 DEF TypeOK, Finds, Entered, Arg
  <2>. QED BY <1>2, <2>4 DEF UseEffects, SymbolCall
<1>3. CASE ~(op.kind \in SymbolCall /\ Finds(op))
  BY <1>1, <1>3 DEF UseEffects, Op, SymbolCall
<1>. QED BY <1>2, <1>3

THEOREM TypeInit == Init => TypeOK
<1>1. <<>> \in Seq(Node) /\ <<>> \in Seq([node : Node, todo : SUBSET Node])
  BY EmptySeq
<1>. SUFFICES ASSUME Init PROVE TypeOK
  OBVIOUS
<1>2. attr \in [Func -> (SUBSET Effect) \union {None}]
  BY DEF Init
<1>3. argAttr \in [Func -> [Arg -> (SUBSET Effect) \union {None}]]
  BY DEF Init
<1>4. argEffects \in [Func -> [Arg -> SUBSET Effect]] /\ funcEffects \in [Func -> SUBSET Effect]
  BY DEF Init
<1>5. visitState \in [Node -> {"NotVisited", "Visiting", "Visited"}]
  BY DEF Init
<1>. QED BY <1>1, <1>2, <1>3, <1>4, <1>5 DEF Init, TypeOK

LEMMA TypeStep == TypeOK /\ [Next]_vars => TypeOK'
<1> SUFFICES ASSUME TypeOK, [Next]_vars PROVE TypeOK'
  OBVIOUS
<1>0. <<>> \in Seq(Frame)
  OBVIOUS
<1> USE DEF dfsVars, loopVars, tables, attrs
<1>1. CASE TryRoot
  <2>1. PICK f \in roots :
          /\ roots' = roots \ {f}
          /\ IF visitState[f] = "NotVisited" THEN Push(f) ELSE UNCHANGED <<visitState, stack>>
    BY <1>1 DEF TryRoot
  <2>2. CASE visitState[f] = "NotVisited"
    <3>1. f \in Node /\ [node |-> f, todo |-> Callees(f)] \in Frame
      BY CalleesType DEF TypeOK, Node, Frame
    <3>2. stack \in Seq(Frame)
      BY DEF TypeOK, Frame
    <3>3. stack' \in Seq(Frame)
      BY <2>1, <2>2, <3>1, <3>2, FrameAppend DEF Push
    <3>. QED BY <1>1, <2>1, <2>2, <3>1, <3>3 DEF TryRoot, Push, TypeOK, Frame
  <2>3. CASE visitState[f] # "NotVisited"
    BY <1>1, <2>1, <2>3 DEF TryRoot, TypeOK
  <2>. QED BY <2>2, <2>3
<1>2. CASE VisitCallee
  <2>1. PICK n \in Top.todo :
          \/ /\ visitState[n] = "NotVisited"
             /\ visitState' = [visitState EXCEPT ![n] = "Visiting"]
             /\ stack' = Append(Drop(n), [node |-> n, todo |-> Callees(n)])
             /\ UNCHANGED hasCycle
          \/ /\ visitState[n] = "Visited"
             /\ stack' = Drop(n)
             /\ UNCHANGED <<visitState, hasCycle>>
          \/ /\ visitState[n] = "Visiting"
             /\ hasCycle' = TRUE
             /\ stack' = <<>>
             /\ UNCHANGED visitState
    BY <1>2 DEF VisitCallee
  <2>2. n \in Node /\ [node |-> n, todo |-> Callees(n)] \in Frame
    BY <1>2, StackType, CalleesType DEF VisitCallee, Frame
  <2>3. Drop(n) \in Seq(Frame)
    BY <1>2, DropType DEF VisitCallee
  <2>4. stack' \in Seq(Frame)
    BY <1>0, <2>1, <2>2, <2>3, FrameAppend
  <2>. QED BY <1>2, <2>1, <2>2, <2>4, ZenonT(60) DEF VisitCallee, TypeOK, Frame
<1>3. CASE Finish
  <2>1. Top.node \in Node
    BY <1>3, StackType DEF Finish, Frame
  <2>2. stack' \in Seq(Frame) /\ topoOrder' \in Seq(Node)
    BY <1>3, <2>1, PopType, OrderType, OrderAppend DEF Finish
  <2>. QED BY <1>3, <2>1, <2>2 DEF Finish, TypeOK, Frame
<1>4. CASE DfsDone
  BY <1>4 DEF DfsDone, TypeOK
<1>5. CASE CollectDirect
  <2>1. \A f \in Func : UNION {DirectEffects(op) : op \in body[f]} \subseteq Effect
    BY DirectType
  <2>2. funcEffects' \in [Func -> SUBSET Effect]
    BY <1>5, <2>1 DEF CollectDirect
  <2>. QED BY <1>5, <2>2, OrderType DEF CollectDirect, TypeOK
<1>6. ASSUME NEW f \in Func, Summarise(f)
      PROVE  /\ funcEffects' \in [Func -> SUBSET Effect]
             /\ argEffects' \in [Func -> [Arg -> SUBSET Effect]]
  <2>1. Inherited(f) \subseteq Effect
    BY DEF Inherited, Finds, Entered, TypeOK
  <2>2. \A a \in Arg : UNION {UseEffects(op, a) : op \in UsersOf(f, a)} \subseteq Effect
    BY UseType
  <2>. QED BY <1>6, <2>1, <2>2 DEF Summarise, TypeOK
<1>7. CASE Forward
  <2>1. next \in Nat /\ Len(topoOrder) \in Nat /\ next \in 1 .. Len(topoOrder) + 1
    BY <1>7, OrderType DEF Forward, TypeOK
  <2>2. CASE next > Len(topoOrder)
    BY <1>7, <2>1, <2>2 DEF Forward, TypeOK
  <2>3. CASE next <= Len(topoOrder) /\ topoOrder[next] = Unknown
    BY <1>7, <2>1, <2>3 DEF Forward, TypeOK
  <2>4. CASE next <= Len(topoOrder) /\ topoOrder[next] # Unknown
    <3>1. next' = next + 1 /\ phase' = phase /\ Summarise(topoOrder[next])
      BY <1>7, <2>1, <2>4 DEF Forward
    <3>2. topoOrder[next] \in Func
      BY <2>1, <2>4, OrderType DEF Node
    <3>3. /\ funcEffects' \in [Func -> SUBSET Effect]
          /\ argEffects' \in [Func -> [Arg -> SUBSET Effect]]
      BY <1>6, <3>1, <3>2
    <3>. QED BY <1>7, <2>1, <2>4, <3>1, <3>3 DEF Forward, TypeOK
  <2>. QED BY <2>1, <2>2, <2>3, <2>4
<1>8. CASE Backward \/ EndRound
  <2>1. CASE Backward
    <3>1. next \in 1 .. Len(topoOrder) /\ next - 1 \in 0 .. Len(topoOrder)
      BY <2>1, OrderType DEF Backward, TypeOK
    <3>2. CASE topoOrder[next] = Unknown
      BY <2>1, <3>1, <3>2, OrderType DEF Backward, TypeOK
    <3>3. CASE topoOrder[next] # Unknown
      <4>1. topoOrder[next] \in Func
        BY <3>1, <3>3, OrderType DEF Node
      <4>2. /\ funcEffects' \in [Func -> SUBSET Effect]
            /\ argEffects' \in [Func -> [Arg -> SUBSET Effect]]
        BY <1>6, <2>1, <3>3, <4>1 DEF Backward
      <4>3. changed' \in BOOLEAN
        BY <2>1, <3>3 DEF Backward
      <4>4. UNCHANGED <<body, assume, max_iterations, dfsVars, phase, iteration, attrs>> /\ next' = next - 1
        BY <2>1 DEF Backward
      <4>. QED BY <2>1, <3>1, <4>2, <4>3, <4>4, OrderType DEF TypeOK, Backward
    <3>. QED BY <3>2, <3>3
  <2>2. CASE EndRound
    <3>1. funcEffects' \in [Func -> SUBSET Effect]
      BY <2>2 DEF EndRound, TypeOK
    <3>2. /\ UNCHANGED <<body, assume, max_iterations, dfsVars, attrs, argEffects>>
          /\ iteration' = iteration + 1 /\ phase' \in {"propagate", "attach"}
          /\ next' \in {next, Len(topoOrder)} /\ changed' \in BOOLEAN /\ hasCycle
      BY <2>2 DEF EndRound, TypeOK
    <3>3. next' \in 0 .. Len(topoOrder)
      BY <2>2, <3>2, OrderType DEF EndRound, TypeOK
    <3>. QED BY <3>1, <3>2, <3>3, OrderType DEF TypeOK
  <2>. QED BY <1>8, <2>1, <2>2
<1>9. CASE Attach
  BY <1>9 DEF Attach, TypeOK
<1>10. CASE UNCHANGED vars
  BY <1>10 DEF vars, TypeOK
<1>. QED BY <1>1, <1>2, <1>3, <1>4, <1>5, <1>6, <1>7, <1>8, <1>9, <1>10 DEF Next

THEOREM TypeCorrect == Spec => []TypeOK
<1>. QED BY TypeInit, TypeStep, PTL DEF Spec

-----------------------------------------------------------------------------
(* The order *)

Placed(n) == \E i \in 1 .. Len(topoOrder) : topoOrder[i] = n

\* A node is Visited once it is placed; nodes on the stack are Visiting and
\* distinct; what a frame has dealt with is placed or sits on the next frame.
VisitedIsPlaced == \A n \in Node : visitState[n] = "Visited" <=> Placed(n)
StackIsVisiting == \A k \in 1 .. Len(stack) : visitState[stack[k].node] = "Visiting"
StackIsDistinct == \A j, k \in 1 .. Len(stack) : j # k => stack[j].node # stack[k].node
FramesAreChecked ==
  \A k \in 1 .. Len(stack) : \A c \in Callees(stack[k].node) \ stack[k].todo :
    Placed(c) \/ (k < Len(stack) /\ stack[k + 1].node = c)

OrderInv ==
  TypeOK /\ VisitedIsPlaced /\ StackIsVisiting /\ StackIsDistinct /\ FramesAreChecked /\ TopoSorted

LEMMA OrderInit == Init => OrderInv
<1> SUFFICES ASSUME Init PROVE OrderInv
  OBVIOUS
<1>1. Len(topoOrder) = 0 /\ Len(stack) = 0
  BY DEF Init
<1>. QED
  BY <1>1, TypeInit
     DEF Init, OrderInv, VisitedIsPlaced, StackIsVisiting, StackIsDistinct, FramesAreChecked,
         TopoSorted, Placed

\* The call graph is a function of the body.
LEMMA CalleesKept == ASSUME body' = body PROVE \A x : Callees(x)' = Callees(x)
BY DEF Callees

LEMMA PlacedKept == ASSUME topoOrder' = topoOrder PROVE \A x : Placed(x)' <=> Placed(x)
BY DEF Placed

LEMMA TopoSortedKept ==
  ASSUME TopoSorted, body' = body, topoOrder' = topoOrder
  PROVE  TopoSorted'
<1>1. \A x : Callees(x)' = Callees(x)
  BY CalleesKept
<1>. QED BY <1>1 DEF TopoSorted

\* A step that leaves the graph, the order and the stack alone.
LEMMA OrderKept ==
  ASSUME OrderInv, body' = body, topoOrder' = topoOrder, visitState' = visitState, stack' = stack
  PROVE  VisitedIsPlaced' /\ StackIsVisiting' /\ StackIsDistinct' /\ FramesAreChecked' /\ TopoSorted'
<1>1. \A x : Callees(x)' = Callees(x)
  BY CalleesKept
<1>2. \A x : Placed(x)' <=> Placed(x)
  BY PlacedKept
<1>3. TopoSorted'
  BY TopoSortedKept DEF OrderInv
<1>4. VisitedIsPlaced'
  BY <1>2 DEF OrderInv, VisitedIsPlaced
<1>5. StackIsVisiting' /\ StackIsDistinct'
  BY DEF OrderInv, StackIsVisiting, StackIsDistinct
<1>6. FramesAreChecked'
  BY <1>1, <1>2 DEF OrderInv, FramesAreChecked
<1>. QED BY <1>3, <1>4, <1>5, <1>6

\* An empty stack satisfies whatever is said of frames.
LEMMA OrderEmptied ==
  ASSUME OrderInv, body' = body, topoOrder' = topoOrder, visitState' = visitState, stack' = <<>>
  PROVE  VisitedIsPlaced' /\ StackIsVisiting' /\ StackIsDistinct' /\ FramesAreChecked' /\ TopoSorted'
<1>1. Len(stack') = 0
  OBVIOUS
<1>2. \A x : Placed(x)' <=> Placed(x)
  BY PlacedKept
<1>3. TopoSorted'
  BY TopoSortedKept DEF OrderInv
<1>4. VisitedIsPlaced'
  BY <1>2 DEF OrderInv, VisitedIsPlaced
<1>5. StackIsVisiting' /\ StackIsDistinct'
  BY <1>1 DEF StackIsVisiting, StackIsDistinct
<1>6. FramesAreChecked'
  BY <1>1 DEF FramesAreChecked
<1>. QED BY <1>3, <1>4, <1>5, <1>6

\* A new frame on top of a stack that is in order.
LEMMA PushOrder ==
  ASSUME OrderInv, UNCHANGED <<body, topoOrder>>, NEW n \in Node,
         visitState[n] = "NotVisited",
         visitState' = [visitState EXCEPT ![n] = "Visiting"],
         NEW s \in Seq(Frame), Len(s) = Len(stack),
         \A k \in 1 .. Len(stack) : s[k].node = stack[k].node,
         \A k \in 1 .. Len(stack) : \A c \in Callees(s[k].node) \ s[k].todo :
           Placed(c) \/ (k < Len(s) /\ s[k + 1].node = c) \/ (k = Len(s) /\ c = n),
         stack' = Append(s, [node |-> n, todo |-> Callees(n)])
  PROVE  VisitedIsPlaced' /\ StackIsVisiting' /\ StackIsDistinct' /\ FramesAreChecked' /\ TopoSorted'
<1>. DEFINE L == Len(stack)
<1>1. L \in Nat /\ stack \in Seq(Frame)
  <2>1. stack \in Seq(Frame)
    BY DEF OrderInv, TypeOK, Frame
  <2>. HIDE DEF Frame
  <2>. QED BY <2>1, LenProperties
<1>2. [node |-> n, todo |-> Callees(n)] \in Frame
  BY CalleesType DEF OrderInv, Frame
<1>3. /\ Len(stack') = L + 1
      /\ \A k \in 1 .. L : stack'[k] = s[k]
      /\ stack'[L + 1] = [node |-> n, todo |-> Callees(n)]
  BY <1>1, <1>2, FrameAppend
<1>4. \A x : Callees(x)' = Callees(x) /\ Placed(x)' = Placed(x)
  BY DEF Callees, Placed
<1>5. \A k \in 1 .. L : stack[k].node # n /\ stack[k].node \in Node
  <2>1. \A k \in 1 .. L : stack[k] \in Frame
    <3>. HIDE DEF Frame
    <3>. QED BY <1>1, ElementOfSeq
  <2>. QED BY <2>1 DEF OrderInv, StackIsVisiting, Frame
<1>6. VisitedIsPlaced'
  BY <1>4 DEF OrderInv, TypeOK, VisitedIsPlaced
<1>7. StackIsVisiting'
  <2>. SUFFICES ASSUME NEW k \in 1 .. L + 1 PROVE visitState'[stack'[k].node] = "Visiting"
    BY <1>3 DEF StackIsVisiting
  <2>1. CASE k = L + 1
    BY <2>1, <1>3 DEF OrderInv, TypeOK
  <2>2. CASE k \in 1 .. L
    <3>1. stack'[k].node = stack[k].node /\ stack[k].node \in Node /\ stack[k].node # n
      BY <2>2, <1>3, <1>5
    <3>2. visitState[stack[k].node] = "Visiting"
      BY <2>2 DEF OrderInv, StackIsVisiting
    <3>3. visitState'[stack[k].node] = visitState[stack[k].node]
      BY <3>1 DEF OrderInv, TypeOK
    <3>. QED BY <3>1, <3>2, <3>3
  <2>. QED BY <1>1, <2>1, <2>2
<1>8. StackIsDistinct'
  BY <1>1, <1>3, <1>5 DEF OrderInv, StackIsDistinct
<1>9. FramesAreChecked'
  <2>. SUFFICES ASSUME NEW k \in 1 .. L + 1, NEW c \in Callees(stack'[k].node) \ stack'[k].todo
                PROVE  Placed(c) \/ (k < L + 1 /\ stack'[k + 1].node = c)
    BY <1>3, <1>4 DEF FramesAreChecked
  <2>1. CASE k = L + 1
    BY <2>1, <1>3
  <2>2. CASE k = L
    BY <2>2, <1>1, <1>3
  <2>3. CASE k < L
    BY <2>3, <1>1, <1>3
  <2>. QED BY <1>1, <2>1, <2>2, <2>3
<1>10. TopoSorted'
  BY TopoSortedKept DEF OrderInv
<1>. QED BY <1>6, <1>7, <1>8, <1>9, <1>10

LEMMA OrderStep == OrderInv /\ [Next]_vars => OrderInv'
<1> SUFFICES ASSUME OrderInv, [Next]_vars
             PROVE  /\ VisitedIsPlaced' /\ StackIsVisiting' /\ StackIsDistinct'
                    /\ FramesAreChecked' /\ TopoSorted'
  BY TypeStep DEF OrderInv
<1>. DEFINE L == Len(stack)
<1>1. TypeOK /\ L \in Nat /\ stack \in Seq(Frame)
  <2>1. TypeOK /\ stack \in Seq(Frame)
    BY DEF OrderInv, TypeOK, Frame
  <2>. HIDE DEF Frame
  <2>. QED BY <2>1, LenProperties
<1>2. CASE TryRoot
  <2>1. PICK f \in roots :
          /\ roots' = roots \ {f}
          /\ IF visitState[f] = "NotVisited" THEN Push(f) ELSE UNCHANGED <<visitState, stack>>
    BY <1>2 DEF TryRoot
  <2>2. UNCHANGED <<body, topoOrder>> /\ L = 0 /\ f \in Node
    BY <1>1, <1>2 DEF TryRoot, TypeOK, Node
  <2>3. CASE visitState[f] = "NotVisited"
    <3>1. /\ visitState' = [visitState EXCEPT ![f] = "Visiting"]
          /\ stack' = Append(stack, [node |-> f, todo |-> Callees(f)])
      BY <2>1, <2>3 DEF Push
    <3>2. /\ \A k \in 1 .. Len(stack) : stack[k].node = stack[k].node
          /\ \A k \in 1 .. Len(stack) : \A c \in Callees(stack[k].node) \ stack[k].todo :
               Placed(c) \/ (k < Len(stack) /\ stack[k + 1].node = c) \/ (k = Len(stack) /\ c = f)
      BY <2>2
    <3>. HIDE DEF Frame
    <3>. QED BY <1>1, <2>2, <2>3, <3>1, <3>2, PushOrder
  <2>4. CASE visitState[f] # "NotVisited"
    BY <2>1, <2>2, <2>4, OrderKept
  <2>. QED BY <2>3, <2>4
<1>3. CASE VisitCallee
  <2>1. PICK n \in Top.todo :
          \/ /\ visitState[n] = "NotVisited"
             /\ visitState' = [visitState EXCEPT ![n] = "Visiting"]
             /\ stack' = Append(Drop(n), [node |-> n, todo |-> Callees(n)])
             /\ UNCHANGED hasCycle
          \/ /\ visitState[n] = "Visited"
             /\ stack' = Drop(n)
             /\ UNCHANGED <<visitState, hasCycle>>
          \/ /\ visitState[n] = "Visiting"
             /\ hasCycle' = TRUE
             /\ stack' = <<>>
             /\ UNCHANGED visitState
    BY <1>3 DEF VisitCallee
  <2>2. /\ n \in Node /\ L \in 1 .. L /\ Top \in Frame /\ Top = stack[L]
        /\ UNCHANGED <<body, topoOrder>> /\ stack # <<>>
    BY <1>1, <1>3, StackType DEF VisitCallee, Frame, Top
  <2>3. /\ Drop(n) \in Seq(Frame) /\ Len(Drop(n)) = L
        /\ \A k \in 1 .. L : Drop(n)[k] = IF k = L THEN [node |-> Top.node, todo |-> Top.todo \ {n}]
                                          ELSE stack[k]
    BY <1>1, <2>2, DropType
  <2>4. \A k \in 1 .. L : Drop(n)[k].node = stack[k].node
    BY <2>2, <2>3
  <2>5. \A k \in 1 .. L : \A c \in Callees(Drop(n)[k].node) \ Drop(n)[k].todo :
          Placed(c) \/ (k < L /\ Drop(n)[k + 1].node = c) \/ (k = L /\ c = n)
    <3>. SUFFICES ASSUME NEW k \in 1 .. L, NEW c \in Callees(Drop(n)[k].node) \ Drop(n)[k].todo
                  PROVE  Placed(c) \/ (k < L /\ Drop(n)[k + 1].node = c) \/ (k = L /\ c = n)
      OBVIOUS
    <3>1. CASE k < L
      <4>1. c \in Callees(stack[k].node) \ stack[k].todo /\ Drop(n)[k + 1].node = stack[k + 1].node
        BY <1>1, <2>3, <2>4, <3>1
      <4>. QED BY <3>1, <4>1 DEF OrderInv, FramesAreChecked
    <3>2. CASE k = L
      <4>1. c = n \/ c \in Callees(stack[k].node) \ stack[k].todo
        BY <2>2, <2>3, <3>2
      <4>. QED BY <1>1, <3>2, <4>1 DEF OrderInv, FramesAreChecked
    <3>. QED BY <1>1, <3>1, <3>2
  <2>6. CASE stack' = Append(Drop(n), [node |-> n, todo |-> Callees(n)])
             /\ visitState[n] = "NotVisited"
             /\ visitState' = [visitState EXCEPT ![n] = "Visiting"]
    <3>. DEFINE s == Drop(n)
    <3>1. /\ s \in Seq(Frame) /\ Len(s) = Len(stack)
          /\ \A k \in 1 .. Len(stack) : s[k].node = stack[k].node
      BY <2>3, <2>4
    <3>2. \A k \in 1 .. Len(stack) : \A c \in Callees(s[k].node) \ s[k].todo :
            Placed(c) \/ (k < Len(s) /\ s[k + 1].node = c) \/ (k = Len(s) /\ c = n)
      BY <2>5, <3>1
    <3>3. stack' = Append(s, [node |-> n, todo |-> Callees(n)])
      BY <2>6
    <3>. HIDE DEF s, Frame
    <3>. QED BY <2>2, <2>6, <3>1, <3>2, <3>3, PushOrder
  <2>7. CASE visitState[n] = "Visited" /\ stack' = Drop(n) /\ UNCHANGED visitState
    <3>1. Placed(n)
      BY <2>2, <2>7 DEF OrderInv, VisitedIsPlaced
    <3>2. FramesAreChecked'
      <4>1. \A x : Placed(x)' = Placed(x)
        BY <2>2 DEF Placed
      <4>. SUFFICES ASSUME NEW k \in 1 .. L, NEW c \in Callees(Drop(n)[k].node) \ Drop(n)[k].todo
                    PROVE  Placed(c) \/ (k < L /\ Drop(n)[k + 1].node = c)
        BY <2>2, <2>3, <2>7, <4>1 DEF FramesAreChecked, Callees
      <4>. QED BY <2>5, <3>1
    <3>3. StackIsVisiting' /\ StackIsDistinct'
      BY <2>3, <2>4, <2>7 DEF OrderInv, StackIsVisiting, StackIsDistinct
    <3>4. VisitedIsPlaced' /\ TopoSorted'
      BY <2>2, <2>7, PlacedKept, TopoSortedKept DEF OrderInv, VisitedIsPlaced
    <3>. QED BY <3>2, <3>3, <3>4
  <2>8. CASE stack' = <<>> /\ UNCHANGED visitState
    BY <2>2, <2>8, OrderEmptied
  <2>. QED BY <2>1, <2>6, <2>7, <2>8
<1>4. CASE Finish
  <2>1. /\ L \in 1 .. L /\ Top \in Frame /\ Top = stack[L] /\ Top.todo = {} /\ Top.node \in Node
        /\ UNCHANGED body /\ stack # <<>>
    BY <1>1, <1>4, StackType DEF Finish, Frame, Top
  <2>2. /\ Len(stack') = L - 1 /\ \A k \in 1 .. L - 1 : stack'[k] = stack[k]
    BY <1>1, <1>4, <2>1, PopType DEF Finish
  <2>3. /\ Len(topoOrder) \in Nat /\ Len(topoOrder') = Len(topoOrder) + 1
        /\ \A i \in 1 .. Len(topoOrder) : topoOrder'[i] = topoOrder[i]
        /\ topoOrder'[Len(topoOrder) + 1] = Top.node
    BY <1>1, <1>4, <2>1, OrderType, OrderAppend DEF Finish
  <2>4. \A x : Placed(x)' <=> Placed(x) \/ x = Top.node
    BY <2>3 DEF Placed
  <2>5. visitState' = [visitState EXCEPT ![Top.node] = "Visited"]
    BY <1>4 DEF Finish
  <2>6. VisitedIsPlaced'
    BY <2>1, <2>4, <2>5 DEF OrderInv, TypeOK, VisitedIsPlaced
  <2>7. \A k \in 1 .. L - 1 : stack[k].node \in Node /\ stack[k].node # Top.node
    <3>1. \A k \in 1 .. L : stack[k] \in Frame
      <4>. HIDE DEF Frame
      <4>. QED BY <1>1, ElementOfSeq
    <3>. QED BY <1>1, <2>1, <3>1 DEF OrderInv, StackIsDistinct, Frame
  <2>8. StackIsVisiting' /\ StackIsDistinct'
    <3>1. \A k \in 1 .. L - 1 : k \in 1 .. L /\ stack'[k].node = stack[k].node
      BY <1>1, <2>2
    <3>2. \A k \in 1 .. L - 1 : visitState'[stack[k].node] = visitState[stack[k].node]
      BY <1>1, <2>1, <2>5, <2>7 DEF TypeOK
    <3>3. StackIsVisiting'
      BY <2>2, <3>1, <3>2 DEF OrderInv, StackIsVisiting
    <3>4. StackIsDistinct'
      BY <2>2, <3>1 DEF OrderInv, StackIsDistinct
    <3>. QED BY <3>3, <3>4
  <2>9. FramesAreChecked'
    <3>. SUFFICES ASSUME NEW k \in 1 .. L - 1, NEW c \in Callees(stack[k].node) \ stack[k].todo
                  PROVE  Placed(c)' \/ (k < L - 1 /\ stack'[k + 1].node = c)
      BY <2>1, <2>2 DEF FramesAreChecked, Callees
    <3>1. Placed(c) \/ stack[k + 1].node = c
      BY <1>1 DEF OrderInv, FramesAreChecked
    <3>. QED BY <1>1, <2>1, <2>2, <2>4, <3>1
  <2>10. TopoSorted'
    <3>1. \A c \in Callees(Top.node) : Placed(c)
      BY <1>1, <2>1 DEF OrderInv, FramesAreChecked
    <3>2. ~Placed(Top.node)
      BY <1>1, <2>1 DEF OrderInv, VisitedIsPlaced, StackIsVisiting
    <3>. SUFFICES ASSUME NEW i \in 1 .. Len(topoOrder) + 1
                  PROVE  /\ \A c \in Callees(topoOrder'[i]) :
                              \E j \in 1 .. (i - 1) : topoOrder'[j] = c
                         /\ \A j \in 1 .. (i - 1) : topoOrder'[j] # topoOrder'[i]
      <4>1. \A x : Callees(x)' = Callees(x)
        BY <2>1, CalleesKept
      <4>. QED BY <2>3, <4>1 DEF TopoSorted
    <3>3. CASE i = Len(topoOrder) + 1
      BY <2>3, <3>1, <3>2, <3>3 DEF Placed
    <3>4. CASE i \in 1 .. Len(topoOrder)
      <4>1. /\ \A c \in Callees(topoOrder[i]) : \E j \in 1 .. (i - 1) : topoOrder[j] = c
            /\ \A j \in 1 .. (i - 1) : topoOrder[j] # topoOrder[i]
        BY <3>4 DEF OrderInv, TopoSorted
      <4>2. topoOrder'[i] = topoOrder[i] /\ \A j \in 1 .. (i - 1) : topoOrder'[j] = topoOrder[j]
        BY <2>3, <3>4
      <4>. QED BY <4>1, <4>2
    <3>. QED BY <2>3, <3>3, <3>4
  <2>. QED BY <2>6, <2>8, <2>9, <2>10
<1>5. CASE UNCHANGED <<body, visitState, topoOrder, stack>>
  BY <1>5, OrderKept
<1>. QED
  BY <1>2, <1>3, <1>4, <1>5
     DEF Next, DfsDone, CollectDirect, Forward, Backward, EndRound, Attach, vars, dfsVars

\* Every function the search orders comes after all its callees, and once.
THEOREM OrderIsTopological == Spec => []TopoSorted
<1>1. OrderInv => TopoSorted
  BY DEF OrderInv
<1>. QED BY OrderInit, OrderStep, <1>1, PTL DEF Spec

-----------------------------------------------------------------------------
(* The summary of an acyclic call graph *)

\* What the operations of every ordered function do has been collected.
DirectIncluded ==
  \A f \in Entered : \A op \in body[f] : DirectEffects(op) \subseteq funcEffects[f]

\* The first n functions of the order have inherited from their callees.
CalleesIncluded(n) ==
  \A i \in 1 .. n : topoOrder[i] \in Func =>
    \A op \in body[topoOrder[i]] : op.kind \in CallKind /\ op.callee \in Func =>
      funcEffects[op.callee] \subseteq funcEffects[topoOrder[i]]

AttributesAreTables ==
  attr = [f \in Func |-> IF f \in Entered THEN funcEffects[f] ELSE None]

SummaryInv ==
  /\ OrderInv
  /\ ~hasCycle =>
       /\ phase \in {"propagate", "attach", "done"} => DirectIncluded
       /\ phase = "propagate" => CalleesIncluded(next - 1)
       /\ phase \in {"attach", "done"} => CalleesIncluded(Len(topoOrder))
       /\ phase = "done" => AttributesAreTables

LEMMA SummaryInit == Init => SummaryInv
BY OrderInit DEF Init, SummaryInv

\* A callee with a body stands earlier in the order than its caller.
LEMMA CalleeIsEarlier ==
  ASSUME TypeOK, TopoSorted, NEW i \in 1 .. Len(topoOrder), topoOrder[i] \in Func,
         NEW op \in body[topoOrder[i]], op.kind \in CallKind
  PROVE  \E j \in 1 .. (i - 1) : topoOrder[j] = op.callee
<1>1. topoOrder[i] # Unknown
  BY FuncAssumption
<1>2. op.callee \in Callees(topoOrder[i])
  BY <1>1 DEF Callees
<1>. QED BY <1>2 DEF TopoSorted

\* One function more: it inherits, and no earlier one depends on it.
LEMMA SummariseStep ==
  ASSUME RefsMatch, OrderInv, next \in 1 .. Len(topoOrder), topoOrder[next] \in Func,
         DirectIncluded, CalleesIncluded(next - 1),
         UNCHANGED <<body, assume, max_iterations, topoOrder>>, Summarise(topoOrder[next]), next' = next + 1
  PROVE  DirectIncluded' /\ CalleesIncluded(next - 1)'
<1>. DEFINE f == topoOrder[next]
<1>1. TypeOK /\ TopoSorted /\ f \in Func /\ Len(topoOrder) \in Nat
  BY OrderType DEF OrderInv
<1>2. /\ funcEffects'[f] = funcEffects[f] \union Inherited(f)
      /\ \A g \in Func : g # f => funcEffects'[g] = funcEffects[g]
  BY <1>1 DEF Summarise, TypeOK
<1>3. DirectIncluded'
  <2>1. Entered' = Entered /\ \A op : DirectEffects(op)' = DirectEffects(op)
    BY DEF Entered, DirectEffects
  <2>2. \A g \in Func : funcEffects[g] \subseteq funcEffects'[g]
    BY <1>2
  <2>3. Entered \subseteq Func
    BY DEF Entered
  <2>. SUFFICES ASSUME NEW g \in Entered, NEW op \in body[g]
                PROVE  DirectEffects(op) \subseteq funcEffects'[g]
    BY <2>1 DEF DirectIncluded
  <2>4. DirectEffects(op) \subseteq funcEffects[g]
    BY DEF DirectIncluded
  <2>. QED BY <2>2, <2>3, <2>4
<1>4. CalleesIncluded(next - 1)'
  <2>. SUFFICES ASSUME NEW i \in 1 .. next, topoOrder[i] \in Func, NEW op \in body[topoOrder[i]],
                       op.kind \in CallKind, op.callee \in Func
                PROVE  funcEffects'[op.callee] \subseteq funcEffects'[topoOrder[i]]
    BY <1>1 DEF CalleesIncluded
  <2>1. PICK j \in 1 .. (i - 1) : topoOrder[j] = op.callee
    BY <1>1, CalleeIsEarlier
  <2>2. op.callee # f
    BY <1>1, <2>1 DEF TopoSorted
  <2>3. funcEffects'[op.callee] = funcEffects[op.callee]
    BY <1>2, <2>2
  <2>4. CASE i = next
    <3>1. op.callee \in Entered
      BY <1>1, <2>1 DEF Entered
    <3>2. funcEffects[op.callee] \subseteq Inherited(f)
      BY <2>4, <3>1 DEF Inherited, Finds
    <3>. QED BY <1>2, <2>3, <2>4, <3>2
  <2>5. CASE i \in 1 .. (next - 1)
    <3>1. topoOrder[i] # f
      BY <1>1, <2>5 DEF TopoSorted
    <3>2. funcEffects[op.callee] \subseteq funcEffects[topoOrder[i]]
      BY <2>5 DEF CalleesIncluded
    <3>. QED BY <1>2, <2>3, <3>1, <3>2
  <2>. QED BY <1>1, <2>4, <2>5
<1>. QED BY <1>3, <1>4

LEMMA SummaryStep == ASSUME RefsMatch PROVE SummaryInv /\ [Next]_vars => SummaryInv'
<1> SUFFICES ASSUME SummaryInv, [Next]_vars, ~hasCycle'
             PROVE  /\ (phase \in {"propagate", "attach", "done"} => DirectIncluded)'
                    /\ (phase = "propagate" => CalleesIncluded(next - 1))'
                    /\ (phase \in {"attach", "done"} => CalleesIncluded(Len(topoOrder)))'
                    /\ (phase = "done" => AttributesAreTables)'
  BY OrderStep DEF SummaryInv
<1>1. OrderInv /\ TypeOK
  BY DEF SummaryInv, OrderInv
<1>2. CASE TryRoot \/ VisitCallee \/ Finish \/ DfsDone
  <2>1. phase' \in {"dfs", "direct"}
    BY <1>2 DEF TryRoot, VisitCallee, Finish, DfsDone
  <2>. QED BY <2>1
<1>3. CASE CollectDirect
  <2>1. /\ UNCHANGED <<body, assume, max_iterations, topoOrder>> /\ phase' = "propagate" /\ next' = 1
        /\ funcEffects' = [f \in Func |->
             IF f \in Entered THEN UNION {DirectEffects(op) : op \in body[f]} ELSE {}]
    BY <1>3 DEF CollectDirect, dfsVars
  <2>2. DirectIncluded'
    <3>1. Entered' = Entered /\ Entered \subseteq Func /\ \A op : DirectEffects(op)' = DirectEffects(op)
      BY <2>1 DEF Entered, DirectEffects
    <3>. SUFFICES ASSUME NEW f \in Entered, NEW op \in body[f]
                  PROVE  DirectEffects(op) \subseteq funcEffects'[f]
      BY <2>1, <3>1 DEF DirectIncluded
    <3>. QED BY <2>1, <3>1
  <2>3. CalleesIncluded(next - 1)'
    BY <2>1 DEF CalleesIncluded
  <2>. QED BY <2>1, <2>2, <2>3
<1>4. CASE Forward
  <2>1. /\ ~hasCycle /\ phase = "propagate" /\ DirectIncluded /\ CalleesIncluded(next - 1)
        /\ next \in 1 .. Len(topoOrder) + 1 /\ Len(topoOrder) \in Nat
        /\ UNCHANGED <<body, assume, max_iterations, topoOrder>>
    BY <1>1, <1>4, OrderType DEF Forward, SummaryInv, TypeOK, dfsVars
  <2>2. UNCHANGED funcEffects => DirectIncluded' /\ \A n : CalleesIncluded(n) => CalleesIncluded(n)'
    <3>1. Entered' = Entered /\ \A op : DirectEffects(op)' = DirectEffects(op)
      BY <2>1 DEF Entered, DirectEffects
    <3>. QED BY <2>1, <3>1 DEF DirectIncluded, CalleesIncluded
  <2>3. CASE next > Len(topoOrder)
    <3>1. phase' = "attach" /\ UNCHANGED funcEffects /\ next - 1 = Len(topoOrder)
      BY <1>4, <2>1, <2>3 DEF Forward, tables
    <3>. QED BY <2>1, <2>2, <3>1
  <2>4. CASE next <= Len(topoOrder)
    <3>1. phase' = "propagate" /\ next' = next + 1 /\ next \in 1 .. Len(topoOrder)
      BY <1>4, <2>1, <2>4 DEF Forward
    <3>2. next' - 1 = next
      BY <2>1, <3>1
    <3>3. CASE topoOrder[next] = Unknown
      <4>1. UNCHANGED funcEffects
        BY <1>4, <2>4, <2>1, <3>3 DEF Forward, tables
      <4>2. CalleesIncluded(next)
        <5>1. \A i \in 1 .. next : topoOrder[i] \in Func => i \in 1 .. (next - 1)
          BY <3>1, <3>3, FuncAssumption
        <5>. QED BY <2>1, <5>1 DEF CalleesIncluded
      <4>. QED BY <2>1, <2>2, <3>1, <3>2, <4>1, <4>2
    <3>4. CASE topoOrder[next] # Unknown
      <4>1. Summarise(topoOrder[next]) /\ topoOrder[next] \in Func
        BY <1>1, <1>4, <2>1, <2>4, <3>4, OrderType DEF Forward, Node
      <4>. QED BY <1>1, <2>1, <3>1, <3>2, <4>1, SummariseStep
    <3>. QED BY <3>3, <3>4
  <2>. QED BY <2>1, <2>3, <2>4
<1>5. CASE Backward \/ EndRound
  BY <1>5 DEF Backward, EndRound, dfsVars
<1>6. CASE Attach
  <2>1. /\ UNCHANGED <<body, assume, max_iterations, topoOrder, funcEffects, hasCycle>> /\ phase = "attach"
        /\ attr' = [f \in Func |-> IF f \in Entered THEN funcEffects[f] ELSE None]
        /\ phase' = "done"
    BY <1>6 DEF Attach, dfsVars, tables
  <2>2. Entered' = Entered /\ \A op : DirectEffects(op)' = DirectEffects(op)
    BY <2>1 DEF Entered, DirectEffects
  <2>3. DirectIncluded' /\ CalleesIncluded(Len(topoOrder))'
    BY <2>1, <2>2 DEF SummaryInv, DirectIncluded, CalleesIncluded
  <2>4. AttributesAreTables'
    BY <2>1, <2>2 DEF AttributesAreTables
  <2>. QED BY <2>1, <2>3, <2>4
<1>7. CASE UNCHANGED vars
  <2>1. UNCHANGED <<body, assume, max_iterations, topoOrder, funcEffects, hasCycle, phase, next, attr>>
    BY <1>7 DEF vars, dfsVars, tables, attrs, loopVars
  <2>2. Entered' = Entered /\ \A op : DirectEffects(op)' = DirectEffects(op)
    BY <2>1 DEF Entered, DirectEffects
  <2>. QED BY <2>1, <2>2 DEF SummaryInv, DirectIncluded, CalleesIncluded, AttributesAreTables
<1>. QED BY <1>2, <1>3, <1>4, <1>5, <1>6, <1>7 DEF Next

LEMMA SummaryImplies == SummaryInv => AcyclicSummarised
<1> SUFFICES ASSUME SummaryInv, ~hasCycle, phase = "done", NEW f \in Func, attr[f] # None,
                    NEW op \in body[f]
             PROVE  /\ DirectEffects(op) \subseteq attr[f]
                    /\ op.kind \in CallKind /\ op.callee \in Func => attr[op.callee] \subseteq attr[f]
  BY DEF AcyclicSummarised, Summarised
<1>1. TypeOK /\ TopoSorted /\ DirectIncluded /\ CalleesIncluded(Len(topoOrder)) /\ AttributesAreTables
  BY DEF SummaryInv, OrderInv
<1>2. f \in Entered /\ attr[f] = funcEffects[f]
  BY <1>1 DEF AttributesAreTables
<1>3. PICK i \in 1 .. Len(topoOrder) : topoOrder[i] = f
  BY <1>2 DEF Entered
<1>4. ASSUME op.kind \in CallKind, op.callee \in Func PROVE attr[op.callee] \subseteq attr[f]
  <2>1. \E j \in 1 .. (i - 1) : topoOrder[j] = op.callee
    BY <1>1, <1>3, <1>4, CalleeIsEarlier
  <2>2. op.callee \in Entered
    BY <1>1, <1>4, <2>1, OrderType DEF Entered
  <2>3. attr[op.callee] = funcEffects[op.callee]
    BY <1>1, <1>4, <2>2 DEF AttributesAreTables
  <2>. QED BY <1>1, <1>2, <1>3, <1>4, <2>3 DEF CalleesIncluded
<1>. QED BY <1>1, <1>2, <1>4 DEF DirectIncluded

\* If calls name functions as the tables do, the attributes of an acyclic module
\* hold what every operation does and what every callee is said to do.
THEOREM AcyclicIsSummarised == ASSUME RefsMatch PROVE Spec => []AcyclicSummarised
<1>. QED BY SummaryInit, SummaryStep, SummaryImplies, PTL DEF Spec

-----------------------------------------------------------------------------
(* What the search leaves behind *)

OnStack(n) == \E k \in 1 .. Len(stack) : stack[k].node = n

\* A function is a root still to be tried or has been reached.
RootsRemain == \A f \in Func : f \in roots \/ visitState[f] # "NotVisited"

\* The stack is a path of calls, and a frame has only callees left to visit.
StackIsPath ==
  \A k \in 1 .. Len(stack) :
    /\ stack[k].todo \subseteq Callees(stack[k].node)
    /\ k < Len(stack) => stack[k + 1].node \in Callees(stack[k].node)

\* Given up when a cycle was found.
Abandoned(n) == visitState[n] = "Visiting" /\ ~OnStack(n)

\* Such a node calls another one; if it called only nodes that are still on the
\* stack, these might be finished later.
AbandonedCallAbandoned == \A n \in Node : Abandoned(n) => \E c \in Callees(n) : Abandoned(c)

\* Nodes are given up just when a cycle is found.
CycleIsNoted == hasCycle <=> \E n \in Node : Abandoned(n)

VisitedNotRecursive == \A f \in Func : visitState[f] = "Visited" => ~Recursive(f)

AttributesMarkOrdered == \A f \in Func : attr[f] = None <=> visitState[f] # "Visited"

SearchInv ==
  /\ OrderInv
  /\ RootsRemain /\ StackIsPath /\ AbandonedCallAbandoned /\ CycleIsNoted /\ VisitedNotRecursive
  /\ phase # "dfs" => stack = <<>> /\ roots = {}
  /\ phase = "done" => AttributesMarkOrdered

\* It holds before the search begins.
LEMMA SearchInit == Init => SearchInv
<1> SUFFICES ASSUME Init PROVE SearchInv
  OBVIOUS
<1>1. Len(stack) = 0
  BY DEF Init
<1>2. \A n \in Node : visitState[n] = "NotVisited"
  BY DEF Init
<1>3. Func \subseteq Node
  BY DEF Node
<1>4. RootsRemain /\ StackIsPath
  BY <1>1 DEF Init, RootsRemain, StackIsPath
<1>5. AbandonedCallAbandoned /\ CycleIsNoted
  BY <1>2 DEF Init, AbandonedCallAbandoned, CycleIsNoted, Abandoned
<1>6. VisitedNotRecursive
  BY <1>2, <1>3 DEF VisitedNotRecursive
<1>. QED BY <1>4, <1>5, <1>6, OrderInit DEF Init, SearchInv

\* Whether a function is recursive depends on the module only.
LEMMA RecursiveKept == ASSUME body' = body PROVE \A f : Recursive(f)' <=> Recursive(f)
BY CalleesKept DEF Recursive

\* A function is not recursive once none of its callees is.
LEMMA CalleesNotRecursive ==
  ASSUME NEW f \in Func, \A c \in Callees(f) : c \in Func => ~Recursive(c)
  PROVE  ~Recursive(f)
<1>. SUFFICES ASSUME NEW S \in SUBSET Func, f \in S, \A x \in S : Callees(x) \intersect S # {}
              PROVE  FALSE
  BY DEF Recursive
<1>1. PICK c \in S : c \in Callees(f)
  OBVIOUS
<1>2. Recursive(c)
  BY DEF Recursive
<1>. QED BY <1>1, <1>2

\* The parts that speak of the search, for a step that leaves it alone.
LEMMA SearchKept ==
  ASSUME SearchInv, UNCHANGED <<body, visitState, roots, stack, hasCycle>>
  PROVE  RootsRemain' /\ StackIsPath' /\ AbandonedCallAbandoned' /\ CycleIsNoted' /\ VisitedNotRecursive'
<1>1. \A x : Callees(x)' = Callees(x) /\ (OnStack(x)' <=> OnStack(x))
  BY CalleesKept DEF OnStack
<1>2. RootsRemain'
  BY DEF SearchInv, RootsRemain
<1>3. StackIsPath'
  BY <1>1 DEF SearchInv, StackIsPath
<1>4. AbandonedCallAbandoned' /\ CycleIsNoted'
  BY <1>1 DEF SearchInv, AbandonedCallAbandoned, CycleIsNoted, Abandoned
<1>5. VisitedNotRecursive'
  BY RecursiveKept DEF SearchInv, VisitedNotRecursive
<1>. QED BY <1>2, <1>3, <1>4, <1>5

\* A new frame, for a callee of the frame below it or on an empty stack.
LEMMA PushSearch ==
  ASSUME SearchInv, UNCHANGED <<body, hasCycle>>, NEW n \in Node,
         visitState[n] = "NotVisited",
         visitState' = [visitState EXCEPT ![n] = "Visiting"],
         NEW s \in Seq(Frame), Len(s) = Len(stack),
         \A k \in 1 .. Len(stack) : s[k].node = stack[k].node /\ s[k].todo \subseteq stack[k].todo,
         Len(stack) > 0 => n \in Callees(stack[Len(stack)].node),
         stack' = Append(s, [node |-> n, todo |-> Callees(n)])
  PROVE  StackIsPath' /\ AbandonedCallAbandoned' /\ CycleIsNoted' /\ VisitedNotRecursive'
<1>. DEFINE L == Len(stack)
<1>0. TypeOK /\ OrderInv
  BY DEF SearchInv, OrderInv
<1>1. L \in Nat
  <2>1. stack \in Seq(Frame)
    BY <1>0 DEF TypeOK, Frame
  <2>. HIDE DEF Frame
  <2>. QED BY <2>1, LenProperties
<1>2. [node |-> n, todo |-> Callees(n)] \in Frame
  BY <1>0, CalleesType DEF Frame
<1>3. /\ Len(stack') = L + 1
      /\ \A k \in 1 .. L : stack'[k] = s[k]
      /\ stack'[L + 1] = [node |-> n, todo |-> Callees(n)]
  BY <1>1, <1>2, FrameAppend
<1>4. \A x : Callees(x)' = Callees(x)
  BY CalleesKept
<1>5. \A x : OnStack(x)' <=> OnStack(x) \/ x = n
  <2>1. \A k \in 1 .. L : k \in 1 .. L + 1 /\ stack'[k].node = stack[k].node
    BY <1>1, <1>3
  <2>2. L + 1 \in 1 .. L + 1 /\ stack'[L + 1].node = n
    BY <1>1, <1>3
  <2>3. \A k \in 1 .. L + 1 : k \in 1 .. L \/ k = L + 1
    BY <1>1
  <2>. QED BY <1>3, <2>1, <2>2, <2>3 DEF OnStack
<1>6. \A x \in Node : visitState'[x] = IF x = n THEN "Visiting" ELSE visitState[x]
  BY <1>0 DEF TypeOK
<1>11. \A x \in Node : Abandoned(x)' <=> Abandoned(x)
  BY <1>5, <1>6 DEF Abandoned
<1>7. StackIsPath'
  <2>. SUFFICES ASSUME NEW k \in 1 .. L + 1
                PROVE  /\ stack'[k].todo \subseteq Callees(stack'[k].node)
                       /\ k < L + 1 => stack'[k + 1].node \in Callees(stack'[k].node)
    BY <1>3, <1>4 DEF StackIsPath
  <2>1. CASE k = L + 1
    BY <2>1, <1>1, <1>3
  <2>2. CASE k \in 1 .. L
    <3>1. /\ stack'[k].node = stack[k].node /\ stack'[k].todo \subseteq stack[k].todo
          /\ stack[k].todo \subseteq Callees(stack[k].node)
      BY <2>2, <1>3 DEF SearchInv, StackIsPath
    <3>2. CASE k = L
      BY <2>2, <3>1, <3>2, <1>1, <1>3
    <3>3. CASE k < L
      <4>1. stack'[k + 1].node = stack[k + 1].node
        BY <2>2, <3>3, <1>1, <1>3
      <4>. QED BY <2>2, <3>1, <3>3, <4>1 DEF SearchInv, StackIsPath
    <3>. QED BY <2>2, <3>2, <3>3, <1>1
  <2>. QED BY <1>1, <2>1, <2>2
<1>8. AbandonedCallAbandoned'
  <2>. SUFFICES ASSUME NEW x \in Node, Abandoned(x)'
                PROVE  \E c \in Callees(x) : Abandoned(c)'
    BY <1>4 DEF AbandonedCallAbandoned
  <2>1. PICK c \in Callees(x) : Abandoned(c)
    BY <1>11 DEF SearchInv, AbandonedCallAbandoned
  <2>2. c \in Node
    BY <1>0, CalleesType
  <2>. QED BY <1>11, <2>1, <2>2
<1>9. CycleIsNoted'
  BY <1>11 DEF SearchInv, CycleIsNoted
<1>10. VisitedNotRecursive'
  <2>1. Func \subseteq Node
    BY DEF Node
  <2>. QED BY <1>6, <2>1, RecursiveKept DEF SearchInv, VisitedNotRecursive
<1>. QED BY <1>7, <1>8, <1>9, <1>10

\* Every step of the search keeps it.
LEMMA SearchStep == SearchInv /\ [Next]_vars => SearchInv'
<1> SUFFICES ASSUME SearchInv, [Next]_vars
             PROVE  /\ RootsRemain' /\ StackIsPath' /\ AbandonedCallAbandoned'
                    /\ CycleIsNoted' /\ VisitedNotRecursive'
                    /\ (phase # "dfs" => stack = <<>> /\ roots = {})'
                    /\ (phase = "done" => AttributesMarkOrdered)'
  BY OrderStep DEF SearchInv
<1>. DEFINE L == Len(stack)
<1>1. TypeOK /\ OrderInv /\ L \in Nat /\ stack \in Seq(Frame)
  <2>1. TypeOK /\ OrderInv /\ stack \in Seq(Frame)
    BY DEF SearchInv, OrderInv, TypeOK, Frame
  <2>. HIDE DEF Frame
  <2>. QED BY <2>1, LenProperties
<1>2. CASE TryRoot
  <2>1. PICK f \in roots :
          /\ roots' = roots \ {f}
          /\ IF visitState[f] = "NotVisited" THEN Push(f) ELSE UNCHANGED <<visitState, stack>>
    BY <1>2 DEF TryRoot
  <2>2. UNCHANGED <<body, hasCycle, phase>> /\ phase = "dfs" /\ L = 0 /\ f \in Func /\ f \in Node
    BY <1>1, <1>2 DEF TryRoot, TypeOK, Node
  <2>3. CASE visitState[f] = "NotVisited"
    <3>1. /\ visitState' = [visitState EXCEPT ![f] = "Visiting"]
          /\ stack' = Append(stack, [node |-> f, todo |-> Callees(f)])
      BY <2>1, <2>3 DEF Push
    <3>2. StackIsPath' /\ AbandonedCallAbandoned' /\ CycleIsNoted' /\ VisitedNotRecursive'
      <4>1. /\ \A k \in 1 .. Len(stack) : stack[k].node = stack[k].node /\ stack[k].todo \subseteq stack[k].todo
            /\ ~(Len(stack) > 0)
        BY <2>2
      <4>. HIDE DEF Frame
      <4>. QED BY <1>1, <2>2, <2>3, <3>1, <4>1, PushSearch
    <3>3. RootsRemain'
      BY <1>1, <2>1, <2>2, <3>1 DEF SearchInv, RootsRemain, TypeOK, Node
    <3>. QED BY <2>2, <3>2, <3>3
  <2>4. CASE visitState[f] # "NotVisited"
    <3>1. UNCHANGED <<visitState, stack>>
      BY <2>1, <2>4
    <3>2. \A x : Callees(x)' = Callees(x) /\ (OnStack(x)' <=> OnStack(x))
      BY <2>2, <3>1, CalleesKept DEF OnStack
    <3>3. RootsRemain'
      BY <2>1, <2>4, <3>1 DEF SearchInv, RootsRemain
    <3>4. StackIsPath'
      BY <2>2, <3>1, <3>2 DEF SearchInv, StackIsPath
    <3>6. AbandonedCallAbandoned' /\ CycleIsNoted'
      BY <2>2, <3>1, <3>2 DEF SearchInv, AbandonedCallAbandoned, CycleIsNoted, Abandoned
    <3>5. VisitedNotRecursive'
      BY <2>2, <3>1, RecursiveKept DEF SearchInv, VisitedNotRecursive
    <3>. QED BY <2>2, <3>3, <3>4, <3>5, <3>6
  <2>. QED BY <2>3, <2>4
<1>3. CASE VisitCallee
  <2>1. PICK n \in Top.todo :
          \/ /\ visitState[n] = "NotVisited"
             /\ visitState' = [visitState EXCEPT ![n] = "Visiting"]
             /\ stack' = Append(Drop(n), [node |-> n, todo |-> Callees(n)])
             /\ UNCHANGED hasCycle
          \/ /\ visitState[n] = "Visited"
             /\ stack' = Drop(n)
             /\ UNCHANGED <<visitState, hasCycle>>
          \/ /\ visitState[n] = "Visiting"
             /\ hasCycle' = TRUE
             /\ stack' = <<>>
             /\ UNCHANGED visitState
    BY <1>3 DEF VisitCallee
  <2>2. /\ n \in Node /\ L \in 1 .. L /\ Top \in Frame /\ Top = stack[L]
        /\ UNCHANGED <<body, roots, phase>> /\ phase = "dfs" /\ stack # <<>>
    BY <1>1, <1>3, StackType DEF VisitCallee, Frame, Top
  <2>3. /\ Drop(n) \in Seq(Frame) /\ Len(Drop(n)) = L
        /\ \A k \in 1 .. L : Drop(n)[k] = IF k = L THEN [node |-> Top.node, todo |-> Top.todo \ {n}]
                                          ELSE stack[k]
    BY <1>1, <2>2, DropType
  <2>4. \A k \in 1 .. L : Drop(n)[k].node = stack[k].node /\ Drop(n)[k].todo \subseteq stack[k].todo
    BY <2>2, <2>3
  <2>5. n \in Callees(stack[L].node)
    BY <2>2 DEF SearchInv, StackIsPath
  <2>6. \A x : Callees(x)' = Callees(x)
    BY <2>2, CalleesKept
  <2>7. CASE /\ visitState[n] = "NotVisited"
             /\ visitState' = [visitState EXCEPT ![n] = "Visiting"]
             /\ stack' = Append(Drop(n), [node |-> n, todo |-> Callees(n)])
             /\ UNCHANGED hasCycle
    <3>. DEFINE s == Drop(n)
    <3>1. /\ s \in Seq(Frame) /\ Len(s) = Len(stack)
          /\ \A k \in 1 .. Len(stack) : s[k].node = stack[k].node /\ s[k].todo \subseteq stack[k].todo
          /\ stack' = Append(s, [node |-> n, todo |-> Callees(n)])
      BY <2>3, <2>4, <2>7
    <3>2. StackIsPath' /\ AbandonedCallAbandoned' /\ CycleIsNoted' /\ VisitedNotRecursive'
      <4>. HIDE DEF s, Frame
      <4>. QED BY <2>2, <2>5, <2>7, <3>1, PushSearch
    <3>3. RootsRemain'
      BY <1>1, <2>2, <2>7 DEF SearchInv, RootsRemain, TypeOK, Node
    <3>. QED BY <2>2, <3>2, <3>3
  <2>8. CASE visitState[n] = "Visited" /\ stack' = Drop(n) /\ UNCHANGED <<visitState, hasCycle>>
    <3>1. \A x : OnStack(x)' <=> OnStack(x)
      BY <2>3, <2>4, <2>8 DEF OnStack
    <3>2. RootsRemain' /\ VisitedNotRecursive'
      BY <2>2, <2>8, RecursiveKept DEF SearchInv, RootsRemain, VisitedNotRecursive
    <3>3. AbandonedCallAbandoned' /\ CycleIsNoted'
      BY <2>6, <2>8, <3>1 DEF SearchInv, AbandonedCallAbandoned, CycleIsNoted, Abandoned
    <3>4. StackIsPath'
      <4>. SUFFICES ASSUME NEW k \in 1 .. L
                    PROVE  /\ Drop(n)[k].todo \subseteq Callees(Drop(n)[k].node)
                           /\ k < L => Drop(n)[k + 1].node \in Callees(Drop(n)[k].node)
        BY <2>3, <2>6, <2>8 DEF StackIsPath
      <4>1. /\ stack[k].todo \subseteq Callees(stack[k].node)
            /\ k < L => stack[k + 1].node \in Callees(stack[k].node)
        BY DEF SearchInv, StackIsPath
      <4>2. k < L => k + 1 \in 1 .. L
        BY <1>1
      <4>. QED BY <2>4, <4>1, <4>2
    <3>. QED BY <2>2, <3>2, <3>3, <3>4
  <2>9. CASE visitState[n] = "Visiting" /\ hasCycle' = TRUE /\ stack' = <<>> /\ UNCHANGED visitState
    <3>1. Len(stack') = 0
      BY <2>9
    <3>2. RootsRemain' /\ VisitedNotRecursive'
      BY <2>2, <2>9, RecursiveKept DEF SearchInv, RootsRemain, VisitedNotRecursive
    <3>3. StackIsPath' /\ CycleIsNoted'
      BY <2>2, <2>9, <3>1 DEF StackIsPath, CycleIsNoted, Abandoned, OnStack
    <3>4. AbandonedCallAbandoned'
      <4>. SUFFICES ASSUME NEW x \in Node, visitState[x] = "Visiting"
                    PROVE  \E c \in Callees(x) : visitState[c] = "Visiting"
        BY <2>6, <2>9, <3>1 DEF AbandonedCallAbandoned, Abandoned, OnStack
      <4>1. CASE ~OnStack(x)
        BY <4>1 DEF SearchInv, AbandonedCallAbandoned, Abandoned
      <4>2. CASE OnStack(x)
        <5>1. PICK k \in 1 .. L : stack[k].node = x
          BY <4>2 DEF OnStack
        <5>2. CASE k = L
          BY <2>5, <2>9, <5>1, <5>2
        <5>3. CASE k < L
          <6>1. stack[k + 1].node \in Callees(x) /\ k + 1 \in 1 .. L
            BY <1>1, <5>1, <5>3 DEF SearchInv, StackIsPath
          <6>2. visitState[stack[k + 1].node] = "Visiting"
            BY <1>1, <6>1 DEF OrderInv, StackIsVisiting
          <6>. QED BY <6>1, <6>2
        <5>. QED BY <1>1, <5>1, <5>2, <5>3
      <4>. QED BY <4>1, <4>2
    <3>. QED BY <2>2, <3>2, <3>3, <3>4
  <2>. QED BY <2>1, <2>7, <2>8, <2>9
<1>4. CASE Finish
  <2>1. /\ L \in 1 .. L /\ Top \in Frame /\ Top = stack[L] /\ Top.todo = {} /\ Top.node \in Node
        /\ UNCHANGED <<body, hasCycle, roots, phase>> /\ phase = "dfs" /\ stack # <<>>
        /\ visitState' = [visitState EXCEPT ![Top.node] = "Visited"]
    BY <1>1, <1>4, StackType DEF Finish, Frame, Top
  <2>2. /\ Len(stack') = L - 1 /\ \A k \in 1 .. L - 1 : stack'[k] = stack[k]
    BY <1>1, <1>4, <2>1, PopType DEF Finish
  <2>3. \A x : Callees(x)' = Callees(x)
    BY <2>1, CalleesKept
  <2>4. \A x \in Node : visitState'[x] = IF x = Top.node THEN "Visited" ELSE visitState[x]
    BY <1>1, <2>1 DEF TypeOK
  <2>5. \A x : x # Top.node => (OnStack(x)' <=> OnStack(x))
    <3>1. \A k \in 1 .. L : k # L => k \in 1 .. L - 1
      BY <1>1
    <3>2. \A k \in 1 .. L - 1 : k \in 1 .. L
      BY <1>1
    <3>. QED BY <2>1, <2>2, <3>1, <3>2 DEF OnStack
  <2>6. \A c \in Callees(Top.node) : visitState[c] = "Visited" /\ c \in Node
    <3>1. \A c \in Callees(Top.node) : Placed(c)
      BY <1>1, <2>1 DEF OrderInv, FramesAreChecked
    <3>2. Callees(Top.node) \subseteq Node
      BY <1>1, <2>1, CalleesType
    <3>. QED BY <1>1, <3>1, <3>2 DEF OrderInv, VisitedIsPlaced
  <2>7. visitState[Top.node] = "Visiting"
    BY <1>1, <2>1 DEF OrderInv, StackIsVisiting
  <2>8. RootsRemain'
    BY <2>1, <2>4 DEF SearchInv, RootsRemain, Node
  <2>9. StackIsPath'
    <3>. SUFFICES ASSUME NEW k \in 1 .. L - 1
                  PROVE  /\ stack[k].todo \subseteq Callees(stack[k].node)
                         /\ k < L - 1 => stack'[k + 1].node \in Callees(stack[k].node)
      BY <2>2, <2>3 DEF StackIsPath
    <3>1. k \in 1 .. L /\ k < L
      BY <1>1
    <3>2. k < L - 1 => stack'[k + 1] = stack[k + 1]
      BY <1>1, <2>2
    <3>. QED BY <3>1, <3>2 DEF SearchInv, StackIsPath
  <2>10. \A x \in Node : Abandoned(x)' <=> Abandoned(x)
    <3>1. OnStack(Top.node)
      BY <2>1 DEF OnStack
    <3>. QED BY <2>4, <2>5, <3>1 DEF Abandoned
  <2>11. AbandonedCallAbandoned' /\ CycleIsNoted'
    <3>1. \A x \in Node : Callees(x) \subseteq Node
      BY <1>1, CalleesType
    <3>. QED BY <2>1, <2>3, <2>10, <3>1 DEF SearchInv, AbandonedCallAbandoned, CycleIsNoted
  <2>12. VisitedNotRecursive'
    <3>1. \A c \in Callees(Top.node) : c \in Func => ~Recursive(c)
      BY <2>6 DEF SearchInv, VisitedNotRecursive
    <3>2. Top.node \in Func => ~Recursive(Top.node)
      BY <3>1, CalleesNotRecursive
    <3>3. Func \subseteq Node
      BY DEF Node
    <3>. QED BY <2>1, <2>4, <3>2, <3>3, RecursiveKept DEF SearchInv, VisitedNotRecursive
  <2>. QED BY <2>1, <2>8, <2>9, <2>11, <2>12
<1>5. CASE DfsDone
  <2>1. UNCHANGED <<body, visitState, roots, stack, hasCycle>> /\ phase' = "direct"
        /\ stack = <<>> /\ roots = {}
    BY <1>5 DEF DfsDone, dfsVars
  <2>. QED BY <2>1, SearchKept
<1>6. CASE CollectDirect \/ Forward \/ Backward \/ EndRound
  <2>1. UNCHANGED <<body, visitState, roots, stack, hasCycle>> /\ phase # "dfs" /\ phase' # "done"
    BY <1>6 DEF CollectDirect, Forward, Backward, EndRound, dfsVars
  <2>. QED BY <2>1, SearchKept DEF SearchInv
<1>7. CASE Attach
  <2>1. UNCHANGED <<body, visitState, roots, stack, hasCycle>> /\ phase # "dfs"
        /\ attr' = [f \in Func |-> IF f \in Entered THEN funcEffects[f] ELSE None]
    BY <1>7 DEF Attach, dfsVars
  <2>2. \A f \in Func : funcEffects[f] # None
    BY <1>1 DEF TypeOK, None, Effect
  <2>3. \A f \in Func : f \in Entered <=> visitState[f] = "Visited"
    BY <1>1 DEF OrderInv, VisitedIsPlaced, Placed, Entered, Node
  <2>4. AttributesMarkOrdered'
    BY <2>1, <2>2, <2>3 DEF AttributesMarkOrdered
  <2>. QED BY <2>1, <2>4, SearchKept DEF SearchInv
<1>8. CASE UNCHANGED vars
  <2>1. UNCHANGED <<body, visitState, roots, stack, hasCycle, phase, attr>>
    BY <1>8 DEF vars, dfsVars, attrs
  <2>. QED BY <2>1, SearchKept DEF SearchInv, AttributesMarkOrdered
<1>. QED BY <1>2, <1>3, <1>4, <1>5, <1>6, <1>7, <1>8 DEF Next

\* Once the search is over a function has been ordered unless it is recursive.
LEMMA SearchEnds ==
  ASSUME SearchInv, phase # "dfs", NEW f \in Func
  PROVE  visitState[f] = "Visited" <=> ~Recursive(f)
<1>1. TypeOK /\ f \in Node /\ stack = <<>> /\ roots = {}
  BY DEF SearchInv, OrderInv, Node
<1>2. Len(stack) = 0
  BY <1>1
<1>3. ASSUME visitState[f] # "Visited" PROVE Recursive(f)
  <2>. DEFINE S == {x \in Func : visitState[x] = "Visiting"}
  <2>1. f \in S
    BY <1>1, <1>3 DEF SearchInv, RootsRemain, TypeOK
  <2>2. ASSUME NEW x \in S PROVE Callees(x) \intersect S # {}
    <3>1. x \in Node /\ Abandoned(x)
      BY <1>2 DEF Abandoned, OnStack, Node
    <3>2. PICK c \in Callees(x) : Abandoned(c)
      BY <3>1 DEF SearchInv, AbandonedCallAbandoned
    <3>3. c \in Node
      BY <1>1, <3>1, CalleesType
    <3>4. Callees(c) # {}
      BY <3>2, <3>3 DEF SearchInv, AbandonedCallAbandoned
    <3>5. c \in Func
      BY <3>3, <3>4 DEF Node, Callees
    <3>. QED BY <3>2, <3>5 DEF Abandoned
  <2>3. S \in SUBSET Func
    OBVIOUS
  <2>. HIDE DEF S
  <2>. QED BY <2>1, <2>2, <2>3 DEF Recursive
<1>. QED BY <1>3 DEF SearchInv, VisitedNotRecursive

\* It holds throughout.
LEMMA SearchAlways == Spec => []SearchInv
<1>. QED BY SearchInit, SearchStep, PTL DEF Spec

\* At its end the search has seen a cycle if and only if a function reaches one,
\* in whichever order it takes the roots and the calls.
THEOREM CycleFoundIffThere == Spec => []CycleDetected
<1>1. SearchInv => CycleDetected
  <2>. SUFFICES ASSUME SearchInv, phase # "dfs"
                PROVE  hasCycle <=> \E f \in Func : Recursive(f)
    BY DEF CycleDetected
  <2>0. Len(stack) = 0 /\ TypeOK
    BY DEF SearchInv, OrderInv
  <2>1. ASSUME NEW f \in Func, Recursive(f) PROVE hasCycle
    <3>1. visitState[f] = "Visiting" /\ f \in Node
      BY <2>0, <2>1, SearchEnds DEF SearchInv, RootsRemain, TypeOK, Node
    <3>2. Abandoned(f)
      BY <2>0, <3>1 DEF Abandoned, OnStack
    <3>. QED BY <3>1, <3>2 DEF SearchInv, CycleIsNoted
  <2>2. ASSUME hasCycle PROVE \E f \in Func : Recursive(f)
    <3>1. PICK n \in Node : Abandoned(n)
      BY <2>2 DEF SearchInv, CycleIsNoted
    <3>2. Callees(n) # {}
      BY <3>1 DEF SearchInv, AbandonedCallAbandoned
    <3>3. n \in Func
      BY <3>2 DEF Node, Callees
    <3>. QED BY <3>1, <3>3, SearchEnds DEF Abandoned
  <2>. QED BY <2>1, <2>2
<1>. QED BY <1>1, SearchAlways, PTL

\* The functions the pass leaves without attributes are the recursive ones and
\* those that call into recursion, and no others.
THEOREM RecursiveLeftUnannotated == Spec => []UnannotatedIffRecursive
<1>1. SearchInv => UnannotatedIffRecursive
  <2>. SUFFICES ASSUME SearchInv, phase = "done", NEW f \in Func
                PROVE  attr[f] = None <=> Recursive(f)
    BY DEF UnannotatedIffRecursive
  <2>1. attr[f] = None <=> visitState[f] # "Visited"
    BY DEF SearchInv, AttributesMarkOrdered
  <2>. QED BY <2>1, SearchEnds
<1>. QED BY <1>1, SearchAlways, PTL

-----------------------------------------------------------------------------
(* The summary of the arguments of an acyclic call graph *)

\* What the callee of op does to its k-th argument.
PassedOn(op, k) == IF op.callee = Unknown THEN Effect ELSE argEffects[op.callee][k]

\* The first n functions of the order have it done to the argument passed there.
ArgsIncluded(n) ==
  \A i \in 1 .. n : topoOrder[i] \in Func =>
    \A op \in body[topoOrder[i]] : op.kind \in SymbolCall =>
      \A k \in 1 .. Len(op.operands) : PassesFirst(op, k) =>
        PassedOn(op, k) \subseteq argEffects[topoOrder[i]][op.operands[k]]

ArgAttributesAreTables ==
  argAttr = [f \in Func |-> IF f \in Entered THEN argEffects[f] ELSE [a \in Arg |-> None]]

ArgSummaryInv ==
  /\ SearchInv
  /\ ~hasCycle =>
       /\ phase = "propagate" => ArgsIncluded(next - 1)
       /\ phase \in {"attach", "done"} => ArgsIncluded(Len(topoOrder))
       /\ phase = "done" => ArgAttributesAreTables

\* It holds before the propagation begins.
LEMMA ArgSummaryInit == Init => ArgSummaryInv
BY SearchInit DEF Init, ArgSummaryInv

\* The position found for an argument passed at its first position is that position.
LEMMA ArgIndexIsPosition ==
  ASSUME TypeOK, NEW f \in Func, NEW op \in body[f], op.kind \in SymbolCall,
         NEW k \in 1 .. Len(op.operands), PassesFirst(op, k)
  PROVE  op.operands[k] \in Arg /\ ArgIndex(op, op.operands[k]) = k
<1>1. op \in Op /\ Len(op.operands) = NumArgs /\ NumArgs \in Nat
  BY DirectType, ModulesAssumption, FuncAssumption DEF TypeOK
<1>4. op.operands[k] \in Arg
  <2>1. op.operands \in Seq(Arg \union {Local})
    BY <1>1 DEF Op
  <2>2. op.operands[k] \in Arg \union {Local}
    BY <2>1, ElementOfSeq
  <2>. QED BY <2>2 DEF PassesFirst
<1>5. ArgIndex(op, op.operands[k]) = k
  <2>. DEFINE Found(i) == /\ op.operands[i] = op.operands[k]
                          /\ \A j \in 1 .. (i - 1) : op.operands[j] # op.operands[k]
  <2>1. k \in 1 .. Len(op.operands) /\ Found(k)
    BY DEF PassesFirst
  <2>2. ASSUME NEW i \in 1 .. Len(op.operands), Found(i) PROVE i = k
    BY <1>1, <2>1, <2>2
  <2>. QED BY <2>1, <2>2 DEF ArgIndex
<1>. QED BY <1>4, <1>5

\* One function more.
LEMMA SummariseArgs ==
  ASSUME OrderInv, next \in 1 .. Len(topoOrder), topoOrder[next] \in Func,
         ArgsIncluded(next - 1),
         UNCHANGED <<body, topoOrder>>, Summarise(topoOrder[next]), next' = next + 1
  PROVE  ArgsIncluded(next - 1)'
<1>. DEFINE f == topoOrder[next]
<1>1. TypeOK /\ TopoSorted /\ f \in Func /\ Len(topoOrder) \in Nat
  BY OrderType DEF OrderInv
<1>2. /\ \A a \in Arg : argEffects'[f][a] = argEffects[f][a] \union UNION {UseEffects(op, a) : op \in UsersOf(f, a)}
      /\ \A g \in Func : g # f => argEffects'[g] = argEffects[g]
  BY <1>1 DEF Summarise, TypeOK
<1>. SUFFICES ASSUME NEW i \in 1 .. next, topoOrder[i] \in Func, NEW op \in body[topoOrder[i]],
                     op.kind \in SymbolCall, NEW k \in 1 .. Len(op.operands), PassesFirst(op, k)
              PROVE  PassedOn(op, k)' \subseteq argEffects'[topoOrder[i]][op.operands[k]]
  BY <1>1 DEF ArgsIncluded
<1>. DEFINE a == op.operands[k]
<1>3. a \in Arg /\ ArgIndex(op, a) = k /\ op.callee \in Node
  BY <1>1, ArgIndexIsPosition, DirectType DEF Op
<1>4. PICK j \in 1 .. (i - 1) : topoOrder[j] = op.callee
  BY <1>1, CalleeIsEarlier DEF CallKind
<1>5. op.callee # f
  BY <1>1, <1>4 DEF TopoSorted
<1>6. PassedOn(op, k)' = PassedOn(op, k)
  BY <1>2, <1>3, <1>5 DEF PassedOn, Node
<1>7. CASE i = next
  <2>1. op \in UsersOf(f, a)
    BY <1>7 DEF UsersOf
  <2>2. UseEffects(op, a) \subseteq argEffects'[f][a]
    BY <1>2, <1>3, <2>1
  <2>3. UseEffects(op, a) = IF Finds(op) THEN argEffects[op.callee][k] ELSE Effect
    BY <1>3 DEF UseEffects, SymbolCall
  <2>4. Finds(op) => op.callee # Unknown
    BY FuncAssumption DEF Finds, Entered
  <2>5. PassedOn(op, k) \subseteq UseEffects(op, a)
    <3>1. Len(op.operands) = NumArgs
      BY <1>1, ModulesAssumption DEF TypeOK
    <3>2. PassedOn(op, k) \subseteq Effect
      <4>1. CASE op.callee = Unknown
        BY <4>1 DEF PassedOn
      <4>2. CASE op.callee # Unknown
        <5>1. op.callee \in Func /\ k \in Arg
          BY <1>3, <3>1, <4>2 DEF Node, Arg
        <5>2. argEffects[op.callee][k] \subseteq Effect
          BY <1>1, <5>1 DEF TypeOK
        <5>. QED BY <4>2, <5>2 DEF PassedOn
      <4>. QED BY <4>1, <4>2
    <3>. QED BY <2>3, <2>4, <3>2 DEF PassedOn
  <2>. QED BY <1>6, <1>7, <2>2, <2>5
<1>8. CASE i \in 1 .. (next - 1)
  <2>1. topoOrder[i] # f
    BY <1>1, <1>8 DEF TopoSorted
  <2>2. PassedOn(op, k) \subseteq argEffects[topoOrder[i]][a]
    BY <1>8 DEF ArgsIncluded
  <2>. QED BY <1>2, <1>6, <2>1, <2>2
<1>. QED BY <1>1, <1>7, <1>8

\* Every step of the propagation keeps it.
LEMMA ArgSummaryStep == ArgSummaryInv /\ [Next]_vars => ArgSummaryInv'
<1> SUFFICES ASSUME ArgSummaryInv, [Next]_vars, ~hasCycle'
             PROVE  /\ (phase = "propagate" => ArgsIncluded(next - 1))'
                    /\ (phase \in {"attach", "done"} => ArgsIncluded(Len(topoOrder)))'
                    /\ (phase = "done" => ArgAttributesAreTables)'
  BY SearchStep DEF ArgSummaryInv
<1>1. OrderInv /\ TypeOK
  BY DEF ArgSummaryInv, SearchInv, OrderInv
<1>2. CASE TryRoot \/ VisitCallee \/ Finish \/ DfsDone
  <2>1. phase' \in {"dfs", "direct"}
    BY <1>2 DEF TryRoot, VisitCallee, Finish, DfsDone
  <2>. QED BY <2>1
<1>3. CASE CollectDirect
  <2>1. phase' = "propagate" /\ next' = 1
    BY <1>3 DEF CollectDirect, dfsVars
  <2>. QED BY <2>1 DEF ArgsIncluded
<1>4. ASSUME UNCHANGED <<body, topoOrder, argEffects>>, NEW n, ArgsIncluded(n) PROVE ArgsIncluded(n)'
  BY <1>4 DEF ArgsIncluded, PassedOn
<1>5. CASE Forward
  <2>1. /\ ~hasCycle /\ phase = "propagate" /\ ArgsIncluded(next - 1)
        /\ next \in 1 .. Len(topoOrder) + 1 /\ Len(topoOrder) \in Nat
        /\ UNCHANGED <<body, topoOrder>>
    BY <1>1, <1>5, OrderType DEF Forward, ArgSummaryInv, TypeOK, dfsVars
  <2>2. CASE next > Len(topoOrder)
    <3>1. phase' = "attach" /\ UNCHANGED argEffects /\ next - 1 = Len(topoOrder)
      BY <1>5, <2>1, <2>2 DEF Forward, tables
    <3>2. ArgsIncluded(Len(topoOrder))'
      BY <1>4, <2>1, <3>1
    <3>. QED BY <3>1, <3>2
  <2>3. CASE next <= Len(topoOrder)
    <3>1. phase' = "propagate" /\ next' = next + 1 /\ next \in 1 .. Len(topoOrder)
      BY <1>5, <2>1, <2>3 DEF Forward
    <3>2. CASE topoOrder[next] = Unknown
      <4>1. UNCHANGED argEffects
        BY <1>5, <2>1, <2>3, <3>2 DEF Forward, tables
      <4>2. ArgsIncluded(next)
        BY <2>1, <3>2, FuncAssumption DEF ArgsIncluded
      <4>4. next' - 1 = next
        BY <2>1, <3>1
      <4>. QED BY <1>4, <2>1, <3>1, <4>1, <4>2, <4>4 DEF ArgsIncluded, PassedOn
    <3>3. CASE topoOrder[next] # Unknown
      <4>1. Summarise(topoOrder[next]) /\ topoOrder[next] \in Func
        BY <1>1, <1>5, <2>1, <2>3, <3>3, OrderType DEF Forward, Node
      <4>. QED BY <1>1, <2>1, <3>1, <4>1, SummariseArgs
    <3>. QED BY <3>2, <3>3
  <2>. QED BY <2>1, <2>2, <2>3
<1>6. CASE Backward \/ EndRound
  BY <1>6 DEF Backward, EndRound, dfsVars
<1>7. CASE Attach
  <2>1. /\ UNCHANGED <<body, topoOrder, argEffects, hasCycle>> /\ phase = "attach" /\ phase' = "done"
        /\ argAttr' = [f \in Func |-> IF f \in Entered THEN argEffects[f] ELSE [a \in Arg |-> None]]
    BY <1>7 DEF Attach, dfsVars, tables
  <2>2. ArgsIncluded(Len(topoOrder))
    BY <2>1 DEF ArgSummaryInv
  <2>3. ArgsIncluded(Len(topoOrder))'
    BY <2>1, <2>2 DEF ArgsIncluded, PassedOn
  <2>4. ArgAttributesAreTables'
    BY <2>1 DEF ArgAttributesAreTables, Entered
  <2>. QED BY <2>1, <2>3, <2>4
<1>8. CASE UNCHANGED vars
  <2>1. UNCHANGED <<body, topoOrder, argEffects, hasCycle, phase, next, argAttr>>
    BY <1>8 DEF vars, dfsVars, tables, attrs, loopVars
  <2>3. (phase = "propagate" => ArgsIncluded(next - 1))'
    BY <1>8, <2>1 DEF ArgSummaryInv, ArgsIncluded, PassedOn
  <2>4. (phase \in {"attach", "done"} => ArgsIncluded(Len(topoOrder)))'
    BY <2>1 DEF ArgSummaryInv, ArgsIncluded, PassedOn
  <2>5. (phase = "done" => ArgAttributesAreTables)'
    BY <2>1 DEF ArgSummaryInv, ArgAttributesAreTables, Entered
  <2>. QED BY <2>3, <2>4, <2>5
<1>. QED BY <1>2, <1>3, <1>5, <1>6, <1>7, <1>8 DEF Next

\* Once the propagation is over it is the property.
LEMMA ArgSummaryImplies == ArgSummaryInv => AcyclicFirstArgSummarised
<1> SUFFICES ASSUME ArgSummaryInv, ~hasCycle, phase = "done",
                    NEW f \in Func, attr[f] # None, NEW op \in body[f], op.kind \in SymbolCall,
                    NEW k \in 1 .. Len(op.operands), PassesFirst(op, k)
             PROVE  (IF op.callee = Unknown THEN Effect ELSE argAttr[op.callee][k])
                      \subseteq argAttr[f][op.operands[k]]
  BY DEF AcyclicFirstArgSummarised, FirstArgSummarised
<1>1. /\ TypeOK /\ OrderInv /\ TopoSorted /\ SearchInv
      /\ ArgsIncluded(Len(topoOrder)) /\ ArgAttributesAreTables
  BY DEF ArgSummaryInv, SearchInv, OrderInv
<1>2. f \in Entered
  BY <1>1 DEF SearchInv, AttributesMarkOrdered, OrderInv, VisitedIsPlaced, Placed, Entered, Node
<1>3. PICK i \in 1 .. Len(topoOrder) : topoOrder[i] = f
  BY <1>2 DEF Entered
<1>4. PassedOn(op, k) \subseteq argEffects[f][op.operands[k]]
  BY <1>1, <1>3 DEF ArgsIncluded
<1>5. argAttr[f] = argEffects[f]
  BY <1>1, <1>2 DEF ArgAttributesAreTables
<1>6. PICK j \in 1 .. (i - 1) : topoOrder[j] = op.callee
  BY <1>1, <1>3, CalleeIsEarlier DEF CallKind
<1>7. ASSUME op.callee # Unknown PROVE argAttr[op.callee] = argEffects[op.callee]
  <2>1. op.callee \in Entered /\ op.callee \in Func
    BY <1>1, <1>3, <1>6, <1>7, OrderType DEF Entered, Node
  <2>. QED BY <1>1, <2>1 DEF ArgAttributesAreTables
<1>. QED BY <1>4, <1>5, <1>7 DEF PassedOn

\* In an acyclic module the attribute on an argument holds what the callee of
\* every call of a symbol is said to do to the first of its arguments that is
\* given this one, and every effect if the callee is unknown.
THEOREM FirstPositionIsSummarised == Spec => []AcyclicFirstArgSummarised
<1>. QED BY ArgSummaryInit, ArgSummaryStep, ArgSummaryImplies, PTL DEF Spec

-----------------------------------------------------------------------------
(* The rounds over a module with recursion *)

\* changed can only be TRUE while a function is left for the round.
RoundsInv ==
  /\ OrderInv
  /\ phase \in {"dfs", "direct"} => iteration = 0
  /\ phase = "propagate" /\ hasCycle =>
       /\ iteration = 0
       /\ max_iterations > 0 /\ changed => \E j \in 1 .. next : topoOrder[j] \in Func
       /\ max_iterations <= 0 => changed /\ next = 0
  /\ phase \in {"attach", "done"} /\ hasCycle =>
       /\ iteration = 1 /\ (max_iterations > 0 => ~changed)
       /\ changed => \A f \in Entered : funcEffects[f] = Effect
  /\ phase = "done" /\ hasCycle /\ changed => AttributesAreTables

\* It holds before the search begins.
LEMMA RoundsInit == Init => RoundsInv
BY OrderInit DEF Init, RoundsInv

\* A function that gained effects has a callee earlier in the order.
LEMMA GainsFromEarlier ==
  ASSUME OrderInv, NEW i \in 1 .. Len(topoOrder), topoOrder[i] \in Func,
         Summarise(topoOrder[i]), funcEffects'[topoOrder[i]] # funcEffects[topoOrder[i]]
  PROVE  \E j \in 1 .. (i - 1) : topoOrder[j] \in Func
<1>1. TypeOK /\ TopoSorted
  BY DEF OrderInv
<1>2. funcEffects'[topoOrder[i]] = funcEffects[topoOrder[i]] \union Inherited(topoOrder[i])
  BY <1>1 DEF Summarise, TypeOK
<1>3. Inherited(topoOrder[i]) # {}
  BY <1>2
<1>4. PICK op \in body[topoOrder[i]] : op.kind \in CallKind /\ Finds(op)
  BY <1>3 DEF Inherited
<1>5. op.callee \in Func
  BY <1>4 DEF Finds, Entered
<1>6. \E j \in 1 .. (i - 1) : topoOrder[j] = op.callee
  BY <1>1, <1>4, CalleeIsEarlier
<1>. QED BY <1>5, <1>6

\* Every step of the rounds keeps it.
LEMMA RoundsStep == RoundsInv /\ [Next]_vars => RoundsInv'
<1> SUFFICES ASSUME RoundsInv, [Next]_vars PROVE RoundsInv'
  OBVIOUS
<1>1. /\ OrderInv /\ OrderInv' /\ TypeOK /\ Len(topoOrder) \in Nat
      /\ max_iterations \in Int /\ max_iterations' = max_iterations
  <2>1. OrderInv /\ OrderInv' /\ TypeOK /\ Len(topoOrder) \in Nat
    BY OrderStep, OrderType DEF RoundsInv, OrderInv
  <2>2. max_iterations' = max_iterations
    BY DEF Next, vars, TryRoot, VisitCallee, Finish, DfsDone, CollectDirect, Forward, Backward, EndRound, Attach
  <2>. QED BY <2>1, <2>2, FuncAssumption DEF TypeOK
<1>2. CASE TryRoot \/ VisitCallee \/ Finish \/ DfsDone
  <2>1. phase = "dfs" /\ iteration' = iteration /\ (phase' = "dfs" \/ phase' = "direct")
    BY <1>2 DEF TryRoot, VisitCallee, Finish, DfsDone, loopVars
  <2>. QED BY <1>1, <2>1 DEF RoundsInv
<1>3. CASE CollectDirect
  <2>1. /\ phase = "direct" /\ phase' = "propagate" /\ iteration' = iteration
        /\ changed' = (max_iterations <= 0) /\ hasCycle' = hasCycle
        /\ hasCycle /\ max_iterations <= 0 => next' = 0
    BY <1>1, <1>3 DEF CollectDirect, dfsVars
  <2>2. (max_iterations <= 0 => changed') /\ (max_iterations > 0 => ~changed')
    <3>1. (max_iterations <= 0 => changed') /\ (~(max_iterations <= 0) => ~changed')
      BY <2>1, Zenon
    <3>2. max_iterations > 0 => ~(max_iterations <= 0)
      BY <1>1
    <3>. QED BY <3>1, <3>2, Zenon
  <2>3. iteration = 0
    BY <2>1 DEF RoundsInv
  <2>. QED BY <1>1, <2>1, <2>2, <2>3 DEF RoundsInv
<1>4. CASE Forward
  <2>1. ~hasCycle /\ hasCycle' = hasCycle /\ (phase' = "propagate" \/ phase' = "attach")
    BY <1>4 DEF Forward, dfsVars
  <2>. QED BY <1>1, <2>1 DEF RoundsInv
<1>5. CASE Backward
  <2>1. /\ phase = "propagate" /\ hasCycle /\ next > 0 /\ next' = next - 1
        /\ UNCHANGED <<phase, iteration, topoOrder, hasCycle>> /\ next \in 1 .. Len(topoOrder)
    BY <1>1, <1>5 DEF Backward, dfsVars, TypeOK
  <2>2. iteration = 0 /\ max_iterations > 0
    BY <1>1, <2>1 DEF RoundsInv
  <2>3. ASSUME changed' PROVE \E j \in 1 .. (next - 1) : topoOrder[j] \in Func
    <3>1. CASE topoOrder[next] = Unknown
      <4>1. changed
        BY <1>5, <2>3, <3>1 DEF Backward
      <4>2. PICK j \in 1 .. next : topoOrder[j] \in Func
        BY <2>1, <2>2, <4>1 DEF RoundsInv
      <4>3. j # next
        BY <3>1, <4>2, FuncAssumption
      <4>. QED BY <2>1, <4>2, <4>3
    <3>2. CASE topoOrder[next] # Unknown
      <4>1. /\ topoOrder[next] \in Func /\ Summarise(topoOrder[next])
            /\ funcEffects'[topoOrder[next]] # funcEffects[topoOrder[next]]
        BY <1>1, <1>5, <2>1, <2>3, <3>2, OrderType DEF Backward, Node
      <4>. QED BY <1>1, <2>1, <4>1, GainsFromEarlier
    <3>. QED BY <3>1, <3>2
  <2>. QED BY <1>1, <2>1, <2>2, <2>3 DEF RoundsInv
<1>6. CASE EndRound
  <2>1. /\ phase = "propagate" /\ hasCycle /\ next = 0 /\ iteration' = iteration + 1
        /\ UNCHANGED <<topoOrder, hasCycle>>
    BY <1>6 DEF EndRound, dfsVars
  <2>2. iteration = 0 /\ (max_iterations > 0 => ~changed)
    BY <2>1 DEF RoundsInv
  <2>3. ~(changed /\ iteration' < max_iterations)
    BY <1>1, <2>1, <2>2
  <2>4. /\ phase' = "attach" /\ changed' = changed
        /\ changed => funcEffects' = [f \in Func |-> IF f \in Entered THEN Effect ELSE {}]
    BY <1>6, <2>3 DEF EndRound
  <2>5. Entered' = Entered /\ Entered \subseteq Func
    BY <2>1 DEF Entered
  <2>. QED BY <1>1, <2>1, <2>2, <2>4, <2>5 DEF RoundsInv
<1>7. CASE Attach
  <2>1. /\ phase = "attach" /\ phase' = "done" /\ UNCHANGED <<topoOrder, hasCycle, iteration, changed, funcEffects>>
        /\ attr' = [f \in Func |-> IF f \in Entered THEN funcEffects[f] ELSE None]
    BY <1>7 DEF Attach, dfsVars, loopVars, tables
  <2>2. Entered' = Entered
    BY <2>1 DEF Entered
  <2>. QED BY <1>1, <2>1, <2>2 DEF RoundsInv, AttributesAreTables
<1>8. CASE UNCHANGED vars
  <2>1. UNCHANGED <<phase, hasCycle, iteration, changed, next, topoOrder, funcEffects, attr>>
    BY <1>8 DEF vars, dfsVars, loopVars, tables, attrs
  <2>2. Entered' = Entered
    BY <2>1 DEF Entered
  <2>. QED BY <1>1, <2>1, <2>2 DEF RoundsInv, AttributesAreTables
<1>. QED BY <1>2, <1>3, <1>4, <1>5, <1>6, <1>7, <1>8 DEF Next

\* It holds throughout.
LEMMA RoundsAlways == Spec => []RoundsInv
<1>. QED BY RoundsInit, RoundsStep, PTL DEF Spec

\* A module with recursion is given one round at most, and unless max_iterations
\* forbids even that one the pass does not give up.
THEOREM RoundsNeverRepeat == Spec => []OneRound
<1>1. RoundsInv => OneRound
  BY DEF RoundsInv, OneRound
<1>. QED BY <1>1, RoundsAlways, PTL

\* When it does give up, every attribute it attaches covers the operations of the
\* function and what its callees are said to do.
THEOREM GivingUpIsSound == Spec => []ExhaustedSummarised
<1>1. RoundsInv => ExhaustedSummarised
  <2>. SUFFICES ASSUME RoundsInv, changed, hasCycle, phase = "done",
                       NEW f \in Func, attr[f] # None, NEW op \in body[f]
                PROVE  /\ DirectEffects(op) \subseteq attr[f]
                       /\ op.kind \in CallKind /\ op.callee \in Func => attr[op.callee] \subseteq attr[f]
    BY DEF ExhaustedSummarised, Summarised
  <2>1. TypeOK /\ TopoSorted /\ AttributesAreTables /\ \A x \in Entered : funcEffects[x] = Effect
    BY DEF RoundsInv, OrderInv
  <2>2. \A x \in Entered : x \in Func /\ attr[x] = Effect
    BY <2>1 DEF AttributesAreTables, Entered
  <2>3. f \in Entered
    BY <2>1 DEF AttributesAreTables
  <2>4. DirectEffects(op) \subseteq Effect
    BY <2>1, DirectType
  <2>5. ASSUME op.kind \in CallKind, op.callee \in Func PROVE op.callee \in Entered
    <3>1. PICK i \in 1 .. Len(topoOrder) : topoOrder[i] = f
      BY <2>3 DEF Entered
    <3>2. \E j \in 1 .. (i - 1) : topoOrder[j] = op.callee
      BY <2>1, <2>5, <3>1, CalleeIsEarlier
    <3>. QED BY <2>1, <2>5, <3>2, OrderType DEF Entered
  <2>. QED BY <2>2, <2>3, <2>4, <2>5
<1>. QED BY <1>1, RoundsAlways, PTL
=============================================================================
