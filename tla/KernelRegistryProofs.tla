------------------------ MODULE KernelRegistryProofs ------------------------
(***************************************************************************)
(* Proofs about KernelRegistry, for any threads and any number of kernels. *)
(* One inductive invariant carries them: a number handed to a program is   *)
(* in the table, with an object of the program's source, from before the   *)
(* writer lock is released.                                                *)
(***************************************************************************)
EXTENDS KernelRegistry, TLAPS

\* The table has number n for the source s.
Has(n, s) == n \in DOMAIN kernels /\ kernels[n] \in DOMAIN heap /\ heap[kernels[n]] = s

Unpublished == {"compile", "jit", "link", "publish"}

Writer == \A t \in Thread : pc[t] \in Creating <=> kernel_mutex = t

\* The number in the hands of the writer is not used for anything yet.
FreshNumber ==
  \A t \in Thread :
    /\ pc[t] \in Unpublished => identifier[t] < last_identifier /\ identifier[t] \notin DOMAIN kernels
    /\ pc[t] \in Unpublished \ {"publish"} => identifier[t] \notin dylibs
    /\ pc[t] \in Unpublished \union {"enter"} => source[t] \in Source

Numbered ==
  /\ \A n \in DOMAIN kernels \union dylibs : n < last_identifier
  /\ last_identifier <= UNKNOWN_PLATFORM

Answered ==
  /\ \A p \in programs : p.id = UNKNOWN_PLATFORM \/ Has(p.id, p.source)
  /\ \A t \in Thread : pc[t] = "return" => source[t] \in Source /\ Has(identifier[t], source[t])
  /\ \A t \in Thread : pc[t] = "lookup" => identifier[t] = UNKNOWN_PLATFORM \/ Has(identifier[t], source[t])

IInv == TypeOK /\ Writer /\ FreshNumber /\ Numbered /\ Answered /\ RunsOwnKernel /\ NeverFatal

-----------------------------------------------------------------------------
\* An empty table answers everything that was promised: nothing.
LEMMA InitIInv == Init => IInv
<1>. SUFFICES ASSUME Init PROVE IInv
  OBVIOUS
<1>. USE ThreadAssumption, NumberAssumption DEF Init
<1>1. TypeOK
  <2>1. DOMAIN kernels = {} /\ DOMAIN heap = {}
    OBVIOUS
  <2>2. kernel_mutex \in Thread \union {NoThread} /\ last_identifier \in Nat \ {0}
    OBVIOUS
  <2>3. JIT \in BOOLEAN /\ alive \in BOOLEAN /\ dylibs = {} /\ programs = {} /\ allocated \in Nat
    OBVIOUS
  <2>4. /\ pc \in [Thread -> Creating \union {"idle", "enter", "lookup", "run"}]
        /\ source \in [Thread -> Source \union {NoSource}]
        /\ identifier \in [Thread -> Nat] /\ kernel \in [Thread -> Nat]
    OBVIOUS
  <2>. QED BY <2>1, <2>2, <2>3, <2>4 DEF TypeOK
<1>2. Writer
  BY DEF Writer, Creating
<1>3. FreshNumber /\ Numbered
  BY DEF FreshNumber, Numbered, Unpublished
<1>4. Answered /\ RunsOwnKernel /\ NeverFatal
  BY DEF Answered, RunsOwnKernel, NeverFatal
<1>. QED BY <1>1, <1>2, <1>3, <1>4 DEF IInv

\* A step of the environment that touches none of this state preserves it.
LEMMA StutterIInv == ASSUME IInv, UNCHANGED vars PROVE IInv'
BY DEF IInv, vars, tableVars, localVars, TypeOK, Writer, FreshNumber, Numbered, Answered,
       RunsOwnKernel, NeverFatal, Creating, Unpublished, Has

\* Every step preserves the types.
LEMMA StepTyped == ASSUME IInv, NEW t \in Thread, Step(t) PROVE TypeOK'
<1>. USE ThreadAssumption, NumberAssumption, SourceAssumption
<1>. USE DEF IInv, TypeOK, At, Goto, Stay, Leave, Throw, Creating, tableVars, localVars
<1>1. CASE CreateElsewhere(t) BY <1>1 DEF CreateElsewhere
<1>2. CASE Create(t) BY <1>2 DEF Create
<1>3. CASE Enter(t) BY <1>3 DEF Enter
<1>4. CASE CompileSource(t)
  <2>1. CASE Throw(t) BY <1>4, <2>1 DEF CompileSource
  <2>2. CASE Goto(t, "jit") /\ Stay /\ UNCHANGED kernel_mutex BY <1>4, <2>2 DEF CompileSource
  <2>. QED BY <1>4, <2>1, <2>2 DEF CompileSource
<1>5. CASE MakeJIT(t)
  <2>1. CASE Throw(t) /\ UNCHANGED JIT BY <1>5, <2>1 DEF MakeJIT
  <2>2. CASE Goto(t, "link") /\ Stay /\ JIT' = TRUE /\ UNCHANGED kernel_mutex BY <1>5, <2>2 DEF MakeJIT
  <2>. QED BY <1>5, <2>1, <2>2 DEF MakeJIT
<1>6. CASE Link(t)
  <2>a. identifier[t] \in Nat OBVIOUS
  <2>b. dylibs' = dylibs \union {identifier[t]} BY <1>6 DEF Link
  <2>0. dylibs' \subseteq Nat BY <2>a, <2>b
  <2>1. CASE Throw(t) BY <1>6, <2>0, <2>1 DEF Link
  <2>2. CASE Goto(t, "publish") /\ Stay /\ UNCHANGED kernel_mutex BY <1>6, <2>0, <2>2 DEF Link
  <2>. QED BY <1>6, <2>1, <2>2 DEF Link
<1>7. CASE Publish(t) BY <1>7 DEF Publish, FreshNumber, Unpublished
<1>8. CASE Return(t)
  <2>1. source[t] \in Source BY <1>8 DEF Return, Answered
  <2>2. programs' \subseteq [id : Nat, source : Source] BY <1>8, <2>1 DEF Return
  <2>. QED BY <1>8, <2>2 DEF Return
<1>9. CASE Callback(t) BY <1>9 DEF Callback
<1>10. CASE Get(t)
  <2>1. CASE identifier[t] \in DOMAIN kernels
    <3>1. kernels[identifier[t]] \in Nat BY <2>1
    <3>2. kernel' \in [Thread -> Nat] BY <1>10, <2>1, <3>1 DEF Get
    <3>. QED BY <1>10, <2>1, <3>2 DEF Get
  <2>2. CASE identifier[t] \notin DOMAIN kernels BY <1>10, <2>2 DEF Get
  <2>. QED BY <2>1, <2>2
<1>11. CASE Run(t) BY <1>11 DEF Run
<1>. QED BY <1>1, <1>2, <1>3, <1>4, <1>5, <1>6, <1>7, <1>8, <1>9, <1>10, <1>11 DEF Step

\* The lock is held by the thread that creates a kernel.
LEMMA StepWriter == ASSUME IInv, NEW t \in Thread, Step(t) PROVE Writer'
<1>. USE ThreadAssumption
<1>. USE DEF IInv, TypeOK, Writer, At, Goto, Stay, Leave, Throw, Creating, tableVars, localVars
<1>1. CASE CreateElsewhere(t) BY <1>1 DEF CreateElsewhere
<1>2. CASE Create(t) BY <1>2 DEF Create
<1>3. CASE Enter(t) BY <1>3 DEF Enter
<1>4. CASE CompileSource(t) BY <1>4 DEF CompileSource
<1>5. CASE MakeJIT(t) BY <1>5 DEF MakeJIT
<1>6. CASE Link(t) BY <1>6 DEF Link
<1>7. CASE Publish(t) BY <1>7 DEF Publish
<1>8. CASE Return(t) BY <1>8 DEF Return
<1>9. CASE Callback(t) BY <1>9 DEF Callback
<1>10. CASE Get(t) BY <1>10 DEF Get
<1>11. CASE Run(t) BY <1>11 DEF Run
<1>. QED BY <1>1, <1>2, <1>3, <1>4, <1>5, <1>6, <1>7, <1>8, <1>9, <1>10, <1>11 DEF Step

\* Numbers and library names are used by their writer only.
LEMMA StepNumbers == ASSUME IInv, NEW t \in Thread, Step(t) PROVE FreshNumber' /\ Numbered'
<1>. USE ThreadAssumption, NumberAssumption, SourceAssumption
<1>. USE DEF IInv, TypeOK, FreshNumber, Numbered, Writer, At, Goto, Stay, Leave, Throw, Creating, Unpublished,
             tableVars, localVars
<1>1. CASE CreateElsewhere(t) BY <1>1 DEF CreateElsewhere
<1>2. CASE Create(t) BY <1>2 DEF Create
<1>3. CASE Enter(t)
  <2>1. identifier'[t] = last_identifier /\ last_identifier' = last_identifier + 1
    BY <1>3 DEF Enter
  <2>2. last_identifier \notin DOMAIN kernels \union dylibs
    BY DEF Numbered
  <2>3. \A u \in Thread : u # t => pc[u] \notin Creating /\ pc'[u] = pc[u]
                              /\ source'[u] = source[u]
    BY <1>3 DEF Enter
  <2>4. FreshNumber'
    BY <1>3, <2>1, <2>2, <2>3 DEF Enter
  <2>5. Numbered'
    <3>1. last_identifier + 1 <= UNKNOWN_PLATFORM
      BY <1>3 DEF Enter
    <3>2. ASSUME NEW n \in DOMAIN kernels \union dylibs PROVE n < last_identifier + 1
      <4>1. n \in Nat /\ last_identifier \in Nat
        OBVIOUS
      <4>2. n < last_identifier
        OBVIOUS
      <4>. QED BY <4>1, <4>2
    <3>. QED BY <1>3, <2>1, <3>1, <3>2 DEF Enter
  <2>. QED BY <2>4, <2>5
<1>4. CASE CompileSource(t) BY <1>4 DEF CompileSource
<1>5. CASE MakeJIT(t) BY <1>5 DEF MakeJIT
<1>6. CASE Link(t) BY <1>6 DEF Link
<1>7. CASE Publish(t) BY <1>7 DEF Publish
<1>8. CASE Return(t) BY <1>8 DEF Return
<1>9. CASE Callback(t) BY <1>9 DEF Callback
<1>10. CASE Get(t) BY <1>10, ZenonT(60) DEF Get
<1>11. CASE Run(t) BY <1>11 DEF Run
<1>. QED BY <1>1, <1>2, <1>3, <1>4, <1>5, <1>6, <1>7, <1>8, <1>9, <1>10, <1>11 DEF Step

\* What the table and the heap hold they keep.
LEMMA StepKeeps ==
  ASSUME IInv, NEW t \in Thread, Step(t)
  PROVE  /\ \A n \in DOMAIN kernels : n \in DOMAIN kernels' /\ kernels'[n] = kernels[n]
         /\ \A a \in DOMAIN heap : a \in DOMAIN heap' /\ heap'[a] = heap[a]
<1>1. CASE Publish(t)
  BY <1>1 DEF Publish, IInv, TypeOK, tableVars
<1>2. CASE UNCHANGED tableVars
  BY <1>2 DEF tableVars
<1>. QED
  BY <1>1, <1>2 DEF Step, CreateElsewhere, Create, Enter, CompileSource, MakeJIT, Link, Return, Callback, Get, Run

\* What a program, the writer or a reader was told stays true.
LEMMA StepAnswers == ASSUME IInv, NEW t \in Thread, Step(t) PROVE Answered' /\ RunsOwnKernel' /\ NeverFatal'
<1>0. \A n, s : Has(n, s) => Has(n, s)'
  BY StepKeeps DEF Has
<1>k. \A a \in DOMAIN heap : a \in DOMAIN heap' /\ heap'[a] = heap[a]
  BY StepKeeps
<1>. USE <1>0, <1>k, NumberAssumption, SourceAssumption
<1>. USE DEF IInv, TypeOK, Answered, RunsOwnKernel, NeverFatal, At, Goto, Stay, Leave, Throw, localVars
<1>1. CASE CreateElsewhere(t) BY <1>1 DEF CreateElsewhere
<1>2. CASE Create(t) BY <1>2 DEF Create
<1>3. CASE Enter(t) BY <1>3 DEF Enter
<1>4. CASE CompileSource(t) BY <1>4 DEF CompileSource
<1>5. CASE MakeJIT(t) BY <1>5 DEF MakeJIT
<1>6. CASE Link(t) BY <1>6 DEF Link
<1>7. CASE Publish(t)
  <2>1. Has(identifier[t], source[t])'
    BY <1>7 DEF Publish, Has, FreshNumber, Unpublished
  <2>. QED BY <1>7, <2>1 DEF Publish, FreshNumber, Unpublished
<1>8. CASE Return(t) BY <1>8 DEF Return
<1>9. CASE Callback(t) BY <1>9 DEF Callback
<1>10. CASE Get(t)
  <2>1. CASE identifier[t] \in DOMAIN kernels
    <3>1. identifier[t] # UNKNOWN_PLATFORM
      BY <2>1 DEF Numbered
    <3>2. Has(identifier[t], source[t])
      BY <1>10, <3>1 DEF Get
    <3>. QED BY <1>10, <2>1, <3>2 DEF Get, Has
  <2>2. CASE identifier[t] \notin DOMAIN kernels
    <3>1. identifier[t] = UNKNOWN_PLATFORM
      BY <1>10, <2>2 DEF Get, Has
    <3>2. alive' BY <1>10, <2>2, <3>1 DEF Get
    <3>3. RunsOwnKernel' BY <1>10, <2>2 DEF Get
    <3>4. Answered' BY <1>10, <2>2 DEF Get
    <3>. QED BY <3>2, <3>3, <3>4
  <2>. QED BY <2>1, <2>2
<1>11. CASE Run(t) BY <1>11 DEF Run
<1>. QED BY <1>1, <1>2, <1>3, <1>4, <1>5, <1>6, <1>7, <1>8, <1>9, <1>10, <1>11 DEF Step

\* The invariant of create and Callback holds in every reachable state.
THEOREM Inductive == Spec => []IInv
<1>1. ASSUME IInv, [Next]_vars PROVE IInv'
  <2>1. CASE UNCHANGED vars BY <1>1, <2>1, StutterIInv
  <2>2. ASSUME NEW t \in Thread, Step(t) PROVE IInv'
    BY <1>1, <2>2, StepTyped, StepWriter, StepNumbers, StepAnswers DEF IInv
  <2>. QED BY <1>1, <2>1, <2>2 DEF Next
<1>. QED BY InitIInv, <1>1, PTL DEF Spec

-----------------------------------------------------------------------------
(* The results *)

\* The state of CpuKernel is well typed.
THEOREM TypeCorrect == Spec => []TypeOK
<1>1. IInv => TypeOK BY DEF IInv
<1>. QED BY <1>1, Inductive, PTL

\* Callback runs a live kernel of its own program's source, outside the lock.
THEOREM CallbackRunsOwnKernel == Spec => []RunsOwnKernel
<1>1. IInv => RunsOwnKernel BY DEF IInv
<1>. QED BY <1>1, Inductive, PTL

\* No program reaches report_fatal_error of Callback.
THEOREM CallbackFindsKernel == Spec => []NeverFatal
<1>1. IInv => NeverFatal BY DEF IInv
<1>. QED BY <1>1, Inductive, PTL

\* create gives createJITDylib a name that is not in use, after any failures.
THEOREM LibraryNamesAreFresh == Spec => []DylibNameFresh
<1>1. IInv => DylibNameFresh BY DEF IInv, FreshNumber, Unpublished, DylibNameFresh
<1>. QED BY <1>1, Inductive, PTL

\* The number baked into a program identifies what it was compiled from.
THEOREM NumbersIdentifySources == Spec => []NumbersIdentify
<1>1. IInv => NumbersIdentify BY DEF IInv, Answered, NumbersIdentify, Has
<1>. QED BY <1>1, Inductive, PTL

\* No step takes a kernel out of the table or moves it.
THEOREM PublishedKernelsStay == Spec => KernelsStay
<1>1. ASSUME IInv, [Next]_vars
      PROVE  [\A n \in DOMAIN kernels : n \in DOMAIN kernels' /\ kernels'[n] = kernels[n]]_kernels
  <2>1. CASE UNCHANGED vars BY <2>1 DEF vars, tableVars
  <2>2. ASSUME NEW t \in Thread, Step(t)
        PROVE  \A n \in DOMAIN kernels : n \in DOMAIN kernels' /\ kernels'[n] = kernels[n]
    BY <1>1, <2>2, StepKeeps
  <2>. QED BY <1>1, <2>1, <2>2 DEF Next
<1>. QED BY <1>1, Inductive, PTL DEF Spec, KernelsStay
=============================================================================
