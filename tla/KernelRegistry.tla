---------------------------- MODULE KernelRegistry ----------------------------
(***************************************************************************)
(* The kernels of src/src/enzyme_ad/jax/enzyme_call.cc: CpuKernel::create  *)
(* compiles a kernel and numbers it, the number is baked into a program as *)
(* a constant, and Callback finds the kernel by the number whenever the    *)
(* program runs.  The kernel is found under kernel_mutex and run outside,  *)
(* while others create kernels and the table grows.                        *)
(*                                                                         *)
(* Compilation and the linker are environment: each may fail, by throwing  *)
(* out of the middle of create.  A number stays used up then.              *)
(***************************************************************************)
EXTENDS Integers, FiniteSets

CONSTANTS
  Thread,    \* threads that lower programs and threads that run them
  Source,    \* what a kernel is compiled from
  NoThread, NoSource,
  MaxId,     \* bound: no kernel is asked for after this number was given out
  UNKNOWN_PLATFORM \* the number of a kernel of another platform; bound: no other gets as far

ASSUME ThreadAssumption == NoThread \notin Thread
ASSUME SourceAssumption == NoSource \notin Source
ASSUME NumberAssumption == MaxId \in Nat /\ UNKNOWN_PLATFORM \in Nat \ {0}

VARIABLES
  kernel_mutex,     \* its writer, or NoThread; a reader only passes through
  last_identifier,  \* the next number
  JIT,              \* whether the LLJIT instance exists
  dylibs,           \* numbers n of the libraries "enzymedl_<n>"
  kernels,          \* the table: number -> address
  heap,             \* the kernel objects: address -> what it was compiled from
  allocated,        \* addresses given out
  programs,         \* lowered programs: the number baked in, and its source
  pc, source, identifier, kernel, \* of each thread, the locals while it is in create or Callback
  alive             \* FALSE once report_fatal_error was reached

tableVars == <<kernels, heap, allocated>>
localVars == <<source, identifier, kernel>>
vars == <<kernel_mutex, last_identifier, JIT, dylibs, tableVars, programs, pc, localVars, alive>>

Creating == {"compile", "jit", "link", "publish", "return"}

TypeOK ==
  /\ kernel_mutex \in Thread \union {NoThread}
  /\ last_identifier \in Nat \ {0}
  /\ JIT \in BOOLEAN /\ dylibs \subseteq Nat
  /\ DOMAIN kernels \subseteq Nat /\ allocated \in Nat
  /\ \A n \in DOMAIN kernels : kernels[n] \in 1 .. allocated
  /\ DOMAIN heap \subseteq 1 .. allocated /\ \A a \in DOMAIN heap : heap[a] \in Source
  /\ programs \subseteq [id : Nat, source : Source]
  /\ pc \in [Thread -> Creating \union {"idle", "enter", "lookup", "run"}]
  /\ source \in [Thread -> Source \union {NoSource}]
  /\ identifier \in [Thread -> Nat]
  /\ kernel \in [Thread -> Nat]
  /\ alive \in BOOLEAN

Init ==
  /\ kernel_mutex = NoThread /\ last_identifier = 1
  /\ JIT = FALSE /\ dylibs = {}
  /\ kernels = [n \in {} |-> 0] /\ heap = [a \in {} |-> 0] /\ allocated = 0
  /\ programs = {}
  /\ pc = [t \in Thread |-> "idle"]
  /\ source = [t \in Thread |-> NoSource]
  /\ identifier = [t \in Thread |-> 0] /\ kernel = [t \in Thread |-> 0]
  /\ alive = TRUE

At(t, label) == alive /\ pc[t] = label
Goto(t, label) == pc' = [pc EXCEPT ![t] = label]
Stay == UNCHANGED localVars
Leave(t) ==
  /\ Goto(t, "idle")
  /\ source' = [source EXCEPT ![t] = NoSource]
  /\ identifier' = [identifier EXCEPT ![t] = 0] /\ kernel' = [kernel EXCEPT ![t] = 0]

-----------------------------------------------------------------------------
(* create *)

\* Another platform is answered before the lock.
CreateElsewhere(t) ==
  /\ At(t, "idle")
  /\ \E s \in Source : programs' = programs \union {[id |-> UNKNOWN_PLATFORM, source |-> s]}
  /\ UNCHANGED <<kernel_mutex, last_identifier, JIT, dylibs, tableVars, pc, localVars, alive>>

Create(t) ==
  /\ At(t, "idle") /\ last_identifier <= MaxId
  /\ \E s \in Source : source' = [source EXCEPT ![t] = s]
  /\ Goto(t, "enter")
  /\ UNCHANGED <<kernel_mutex, last_identifier, JIT, dylibs, tableVars, programs, identifier, kernel, alive>>

\* Mutant: the number is used up only by a kernel that was published.
EnterPeeks(t) ==
  /\ At(t, "enter") /\ kernel_mutex = NoThread /\ last_identifier < UNKNOWN_PLATFORM
  /\ kernel_mutex' = t
  /\ identifier' = [identifier EXCEPT ![t] = Cardinality(DOMAIN kernels) + 1]
  /\ last_identifier' = last_identifier + 1
  /\ Goto(t, "compile")
  /\ UNCHANGED <<JIT, dylibs, tableVars, programs, source, kernel, alive>>

\* Mutant: the number is taken before the lock, and not at once.
EnterUnlocked(t) ==
  /\ At(t, "enter") /\ last_identifier < UNKNOWN_PLATFORM
  /\ kernel_mutex' = t
  /\ identifier' = [identifier EXCEPT ![t] = last_identifier]
  /\ last_identifier' = IF kernel_mutex = NoThread THEN last_identifier + 1 ELSE last_identifier
  /\ Goto(t, "compile")
  /\ UNCHANGED <<JIT, dylibs, tableVars, programs, source, kernel, alive>>

\* The writer lock, and a number.
Enter(t) ==
  /\ At(t, "enter") /\ kernel_mutex = NoThread /\ last_identifier < UNKNOWN_PLATFORM
  /\ kernel_mutex' = t
  /\ identifier' = [identifier EXCEPT ![t] = last_identifier]
  /\ last_identifier' = last_identifier + 1
  /\ Goto(t, "compile")
  /\ UNCHANGED <<JIT, dylibs, tableVars, programs, source, kernel, alive>>

\* An exception unwinds create and its lock.
Throw(t) == kernel_mutex' = NoThread /\ Leave(t)

CompileSource(t) ==
  /\ At(t, "compile")
  /\ \/ Goto(t, "jit") /\ Stay /\ UNCHANGED kernel_mutex
     \/ Throw(t)
  /\ UNCHANGED <<last_identifier, JIT, dylibs, tableVars, programs, alive>>

MakeJIT(t) ==
  /\ At(t, "jit")
  /\ \/ Goto(t, "link") /\ Stay /\ JIT' = TRUE /\ UNCHANGED kernel_mutex
     \/ ~JIT /\ Throw(t) /\ UNCHANGED JIT
  /\ UNCHANGED <<last_identifier, dylibs, tableVars, programs, alive>>

\* Mutant: a lookup that fails is left to the caller.
LinkCarriesOn(t) ==
  /\ At(t, "link")
  /\ dylibs' = dylibs \union {identifier[t]}
  /\ (Goto(t, "publish") \/ Goto(t, "return")) /\ Stay
  /\ UNCHANGED <<kernel_mutex, last_identifier, JIT, tableVars, programs, alive>>

\* createJITDylib, whose result is used unchecked; addIRModule and lookup throw.
Link(t) ==
  /\ At(t, "link")
  /\ dylibs' = dylibs \union {identifier[t]}
  /\ \/ Goto(t, "publish") /\ Stay /\ UNCHANGED kernel_mutex
     \/ Throw(t)
  /\ UNCHANGED <<last_identifier, JIT, tableVars, programs, alive>>

\* Mutant: the table holds the kernels themselves, and growing moves them.
PublishMoves(t) ==
  /\ At(t, "publish")
  /\ allocated' = 2 * allocated + 1
  /\ kernels' = [n \in DOMAIN kernels \union {identifier[t]} |->
                   IF n = identifier[t] THEN allocated' ELSE kernels[n] + allocated]
  /\ heap' = [a \in {kernels'[n] : n \in DOMAIN kernels'} |->
                IF a = allocated' THEN source[t] ELSE heap[a - allocated]]
  /\ Goto(t, "return")
  /\ UNCHANGED <<kernel_mutex, last_identifier, JIT, dylibs, programs, localVars, alive>>

\* Mutant: the table is keyed by what is being compiled last.
PublishOverwrites(t) ==
  /\ At(t, "publish")
  /\ allocated' = allocated + 1
  /\ kernels' = [n \in DOMAIN kernels \union {identifier[t]} |-> allocated']
  /\ heap' = [a \in DOMAIN heap \union {allocated'} |-> IF a = allocated' THEN source[t] ELSE heap[a]]
  /\ Goto(t, "return")
  /\ UNCHANGED <<kernel_mutex, last_identifier, JIT, dylibs, programs, localVars, alive>>

\* try_emplace of a new object; an entry that exists is left as it is.
Publish(t) ==
  /\ At(t, "publish")
  /\ IF identifier[t] \in DOMAIN kernels THEN UNCHANGED tableVars
     ELSE /\ allocated' = allocated + 1
          /\ kernels' = [n \in DOMAIN kernels \union {identifier[t]} |->
                           IF n = identifier[t] THEN allocated' ELSE kernels[n]]
          /\ heap' = [a \in DOMAIN heap \union {allocated'} |->
                        IF a = allocated' THEN source[t] ELSE heap[a]]
  /\ Goto(t, "return")
  /\ UNCHANGED <<kernel_mutex, last_identifier, JIT, dylibs, programs, localVars, alive>>

\* The caller bakes the number into a program.
Return(t) ==
  /\ At(t, "return")
  /\ programs' = programs \union {[id |-> identifier[t], source |-> source[t]]}
  /\ kernel_mutex' = NoThread
  /\ Leave(t)
  /\ UNCHANGED <<last_identifier, JIT, dylibs, tableVars, alive>>

-----------------------------------------------------------------------------
(* Callback *)

\* A program runs: its number is the first operand.
Callback(t) ==
  /\ At(t, "idle")
  /\ \E p \in programs :
       /\ identifier' = [identifier EXCEPT ![t] = p.id]
       /\ source' = [source EXCEPT ![t] = p.source]
  /\ Goto(t, "lookup")
  /\ UNCHANGED <<kernel_mutex, last_identifier, JIT, dylibs, tableVars, programs, kernel, alive>>

\* get, under the reader lock.
Get(t) ==
  /\ At(t, "lookup") /\ kernel_mutex = NoThread
  /\ IF identifier[t] \in DOMAIN kernels
     THEN /\ kernel' = [kernel EXCEPT ![t] = kernels[identifier[t]]]
          /\ Goto(t, "run") /\ UNCHANGED <<source, identifier, alive>>
     ELSE /\ alive' = (identifier[t] = UNKNOWN_PLATFORM)
          /\ Leave(t)
  /\ UNCHANGED <<kernel_mutex, last_identifier, JIT, dylibs, tableVars, programs>>

\* The call, without the lock.
Run(t) ==
  /\ At(t, "run")
  /\ Leave(t)
  /\ UNCHANGED <<kernel_mutex, last_identifier, JIT, dylibs, tableVars, programs, alive>>

Step(t) ==
  \/ CreateElsewhere(t) \/ Create(t) \/ Enter(t) \/ CompileSource(t) \/ MakeJIT(t)
  \/ Link(t) \/ Publish(t) \/ Return(t) \/ Callback(t) \/ Get(t) \/ Run(t)

Next == \E t \in Thread : Step(t)

Spec == Init /\ [][Next]_vars

-----------------------------------------------------------------------------
(* Properties *)

\* A thread that runs a kernel outside the lock runs a live object, compiled
\* from the source of its program, whatever was created since get returned.
RunsOwnKernel ==
  \A t \in Thread : pc[t] = "run" => kernel[t] \in DOMAIN heap /\ heap[kernel[t]] = source[t]

\* enzyme_call.cc:306: no program reaches "couldn't find enzyme kernel", for its
\* number was published before it was returned.
NeverFatal == alive

\* createJITDylib is never asked for a name in use, although failed attempts
\* leave their libraries behind.
DylibNameFresh == \A t \in Thread : pc[t] = "link" => identifier[t] \notin dylibs

\* Two programs share a number only if they share the source, or have none of
\* their own.
NumbersIdentify ==
  \A p, q \in programs : p.id = q.id => p.source = q.source \/ p.id = UNKNOWN_PLATFORM

\* A kernel that was published stays, at its address.
KernelsStay ==
  [][\A n \in DOMAIN kernels : n \in DOMAIN kernels' /\ kernels'[n] = kernels[n]]_kernels
=============================================================================
