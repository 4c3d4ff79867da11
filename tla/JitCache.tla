------------------------------ MODULE JitCache ------------------------------
(***************************************************************************)
(* The process-wide JIT of src/src/enzyme_ad/jax/Passes/LowerJIT.cpp: the  *)
(* cache jitkernels guarded by jit_kernel_mutex, and the lazily built      *)
(* LLJIT instance JIT, which EnzymeJaXMapSymbol may build as well.  Which  *)
(* symbols are mapped to which addresses is left out.                      *)
(*                                                                         *)
(* A thread runs the pass over one module: it asks for the code of one     *)
(* outlined call after another (CompileCall).  A call is known to the      *)
(* cache by the text of its submodule alone; the pass options travel       *)
(* beside it.  The lock is held from the lookup to the return of           *)
(* CompileCall, but EnzymeJaXMapSymbol takes no lock, so the steps of      *)
(* initJIT are separate actions, shared by compiling threads and mappers.  *)
(* Translation, pipelines and the linker are environment: each may fail.   *)
(***************************************************************************)
EXTENDS Integers, FiniteSets

CONSTANTS
  Thread,          \* threads that run LowerJITPass
  Mapper,          \* host threads that call EnzymeJaXMapSymbol
  Text,            \* printed submodules
  Option,          \* settings of the pass (openmp, handler, chip, ...)
  JitOff,          \* the settings whose option jit is false
  NumGPU,          \* [Text -> Nat]: gpu.module operations in the submodule
  NoOwner, Absent, NullInfo,
  MaxCalls,        \* jit_calls in the module one thread compiles
  MaxMaps          \* calls of EnzymeJaXMapSymbol one mapper makes

Actor == Thread \union Mapper

\* A CallInfo whose run pointer is not null: the LLJIT instance that owns the
\* code, and what it was compiled from and with.
Code == [jit : Nat \ {0}, text : Text, option : Option]
Info == Code \union {NullInfo}

ASSUME ActorAssumption == Thread \intersect Mapper = {} /\ NoOwner \notin Actor
ASSUME TextAssumption == Text # {} /\ IsFiniteSet(Text) /\ NumGPU \in [Text -> Nat]
ASSUME TokenAssumption == Absent \notin Info /\ NullInfo \notin Code
ASSUME OptionAssumption == JitOff \subseteq Option
ASSUME BoundAssumption == MaxCalls \in Nat /\ MaxMaps \in Nat

VARIABLES
  jitkernels,       \* the cache: [Text -> Info \union {Absent}]
  jit_kernel_mutex, \* its writer, or NoOwner
  JIT,              \* number of the live LLJIT instance, 0 when null
  built,            \* LLJIT instances created so far
  dylibs,           \* <<instance, n>> for every JITDylib "enzymejitdl_<n>"
  pc,               \* where each actor is
  text, option,     \* the request of each thread
  info,             \* the CallInfo each thread has in hand
  todo,             \* calls left to each actor
  alive,            \* FALSE once the process dereferenced a null JIT
  raced             \* TRUE once the host mapped a symbol while a pass ran

jitVars == <<JIT, built>>
reqVars == <<text, option, todo>>
vars == <<jitkernels, jit_kernel_mutex, jitVars, dylibs, pc, reqVars, info, alive, raced>>

\* Where a thread may be while it holds jit_kernel_mutex, in program order.
Locked == {"find", "pipeline", "translate", "initJIT", "create", "generator",
           "dylib", "define", "lookup", "store", "release"}
InInit == {"initJIT", "create", "generator"}

TypeOK ==
  /\ jitkernels \in [Text -> Info \union {Absent}]
  /\ jit_kernel_mutex \in Thread \union {NoOwner}
  /\ JIT \in Nat /\ built \in Nat
  /\ dylibs \subseteq (Nat \ {0}) \X Nat
  /\ pc \in [Actor -> Locked \union {"idle", "lock", "insert"}]
  /\ text \in [Thread -> Text] /\ option \in [Thread -> Option]
  /\ info \in [Thread -> Info]
  /\ todo \in [Actor -> Nat]
  /\ alive \in BOOLEAN /\ raced \in BOOLEAN

\* jitkernels.size()
Size == Cardinality({x \in Text : jitkernels[x] # Absent})

Init ==
  /\ jitkernels = [x \in Text |-> Absent]
  /\ jit_kernel_mutex = NoOwner
  /\ JIT = 0 /\ built = 0
  /\ dylibs = {}
  /\ pc = [a \in Actor |-> "idle"]
  /\ text = [t \in Thread |-> CHOOSE x \in Text : TRUE]
  /\ option \in [Thread -> Option]
  /\ info = [t \in Thread |-> NullInfo]
  /\ todo = [a \in Actor |-> IF a \in Thread THEN MaxCalls ELSE MaxMaps]
  /\ alive = TRUE /\ raced = FALSE

At(a, label) == alive /\ pc[a] = label
Goto(a, label) == pc' = [pc EXCEPT ![a] = label]
Busy(S) == \E a \in S : pc[a] # "idle"

-----------------------------------------------------------------------------
(* CompileCall *)

\* The submodule is built and printed before the lock is taken.
Request(t) ==
  /\ At(t, "idle") /\ todo[t] > 0 /\ option[t] \notin JitOff
  /\ raced' = (raced \/ Busy(Mapper))
  /\ \E x \in Text : text' = [text EXCEPT ![t] = x]
  /\ todo' = [todo EXCEPT ![t] = @ - 1]
  /\ info' = [info EXCEPT ![t] = NullInfo]
  /\ Goto(t, "lock")
  /\ UNCHANGED <<jitkernels, jit_kernel_mutex, jitVars, dylibs, option, alive>>

\* The exits before the lock: a callee whose type is no function type, and a
\* pass that does not compile. The answer is null, whatever the cache holds.
Refuse(t) ==
  /\ At(t, "idle") /\ todo[t] > 0
  /\ todo' = [todo EXCEPT ![t] = @ - 1]
  /\ info' = [info EXCEPT ![t] = NullInfo]
  /\ UNCHANGED <<jitkernels, jit_kernel_mutex, jitVars, dylibs, pc, text, option, alive, raced>>

\* Mutant: the scoped writer lock is forgotten.
AcquireNoLock(t) ==
  /\ At(t, "lock")
  /\ jit_kernel_mutex' = t
  /\ Goto(t, "find")
  /\ UNCHANGED <<jitkernels, jitVars, dylibs, reqVars, info, alive, raced>>

\* Mutant: the lookup is skipped.
AcquireNoLookup(t) ==
  /\ At(t, "lock") /\ jit_kernel_mutex = NoOwner
  /\ jit_kernel_mutex' = t
  /\ Goto(t, "pipeline")
  /\ UNCHANGED <<jitkernels, jitVars, dylibs, reqVars, info, alive, raced>>

Acquire(t) ==
  /\ At(t, "lock") /\ jit_kernel_mutex = NoOwner
  /\ jit_kernel_mutex' = t
  /\ Goto(t, "find")
  /\ UNCHANGED <<jitkernels, jitVars, dylibs, reqVars, info, alive, raced>>

\* Mutant: found->second is used without the comparison with end().
FindUnchecked(t) ==
  /\ At(t, "find")
  /\ info' = [info EXCEPT ![t] = jitkernels[text[t]]] /\ Goto(t, "release")
  /\ UNCHANGED <<jitkernels, jit_kernel_mutex, jitVars, dylibs, reqVars, alive, raced>>

\* Mutant: a cached null pointer does not count as a hit.
FindRetriesNull(t) ==
  /\ At(t, "find")
  /\ IF jitkernels[text[t]] \in Code
     THEN info' = [info EXCEPT ![t] = jitkernels[text[t]]] /\ Goto(t, "release")
     ELSE info' = info /\ Goto(t, "pipeline")
  /\ UNCHANGED <<jitkernels, jit_kernel_mutex, jitVars, dylibs, reqVars, alive, raced>>

\* Mutant: a compiled text is compiled anew for the next request.
FindRecompiles(t) ==
  /\ At(t, "find")
  /\ info' = info /\ Goto(t, "pipeline")
  /\ UNCHANGED <<jitkernels, jit_kernel_mutex, jitVars, dylibs, reqVars, alive, raced>>

Find(t) ==
  /\ At(t, "find")
  /\ IF jitkernels[text[t]] # Absent
     THEN info' = [info EXCEPT ![t] = jitkernels[text[t]]] /\ Goto(t, "release")
     ELSE info' = info /\ Goto(t, "pipeline")
  /\ UNCHANGED <<jitkernels, jit_kernel_mutex, jitVars, dylibs, reqVars, alive, raced>>

\* The CPU or the GPU pipeline; more than one gpu.module is refused.  A failure
\* returns {} and leaves no entry behind.
Pipeline(t) ==
  /\ At(t, "pipeline")
  /\ \/ NumGPU[text[t]] \in {0, 1} /\ Goto(t, "translate")
     \/ Goto(t, "release")
  /\ UNCHANGED <<jitkernels, jit_kernel_mutex, jitVars, dylibs, reqVars, info, alive, raced>>

-----------------------------------------------------------------------------
(* CompileHostModule: whatever it returns, {} included, goes to "store". *)

Fails(t) == Goto(t, "store") /\ UNCHANGED info

Translate(t) ==
  /\ At(t, "translate")
  /\ Goto(t, "initJIT") \/ Goto(t, "store")
  /\ UNCHANGED <<jitkernels, jit_kernel_mutex, jitVars, dylibs, reqVars, info, alive, raced>>

\* createJITDylib("enzymejitdl_" + size), then addIRModule.
CreateDylib(t) ==
  /\ At(t, "dylib")
  /\ dylibs' = dylibs \union {<<JIT, Size>>}
  /\ Goto(t, "define") \/ Goto(t, "store")
  /\ UNCHANGED <<jitkernels, jit_kernel_mutex, jitVars, reqVars, info, alive, raced>>

\* define(absoluteSymbols(MappedSymbols)): the library keeps a copy.
DefineSymbols(t) ==
  /\ At(t, "define")
  /\ \/ /\ info' = [info EXCEPT ![t] = [jit |-> JIT, text |-> text[t],
                                       option |-> option[t]]]
        /\ Goto(t, "lookup")
     \/ Fails(t)
  /\ UNCHANGED <<jitkernels, jit_kernel_mutex, jitVars, dylibs, reqVars, alive, raced>>

\* lookup of nv_func_init (GPU only) and of entry; a failed one returns {}.
Lookup(t) ==
  /\ At(t, "lookup")
  /\ info' = info \/ info' = [info EXCEPT ![t] = NullInfo]
  /\ Goto(t, "store")
  /\ UNCHANGED <<jitkernels, jit_kernel_mutex, jitVars, dylibs, reqVars, alive, raced>>

\* Mutant: only code is cached, a failed compile leaves no entry.
StoreOnlyCode(t) ==
  /\ At(t, "store")
  /\ jitkernels' = IF info[t] = NullInfo THEN jitkernels
                   ELSE [jitkernels EXCEPT ![text[t]] = info[t]]
  /\ Goto(t, "release")
  /\ UNCHANGED <<jit_kernel_mutex, jitVars, dylibs, reqVars, info, alive, raced>>

Store(t) ==
  /\ At(t, "store")
  /\ jitkernels' = [jitkernels EXCEPT ![text[t]] = info[t]]
  /\ Goto(t, "release")
  /\ UNCHANGED <<jit_kernel_mutex, jitVars, dylibs, reqVars, info, alive, raced>>

\* Mutant: an explicit lock whose unlock is missed on the way out.
ReleaseKeepsLock(t) ==
  /\ At(t, "release")
  /\ Goto(t, "idle")
  /\ UNCHANGED <<jitkernels, jit_kernel_mutex, jitVars, dylibs, reqVars, info, alive, raced>>

\* The scoped writer lock ends with CompileCall.
Release(t) ==
  /\ At(t, "release")
  /\ jit_kernel_mutex' = NoOwner
  /\ Goto(t, "idle")
  /\ UNCHANGED <<jitkernels, jitVars, dylibs, reqVars, info, alive, raced>>

-----------------------------------------------------------------------------
(* initJIT, run by a compiling thread or by EnzymeJaXMapSymbol: it returns ok  *)
(* to the thread, while EnzymeJaXMapSymbol does not look at the result.        *)

InitReturns(a, ok) ==
  Goto(a, IF a \in Mapper THEN "insert" ELSE IF ok THEN "dylib" ELSE "store")

\* Mutant: the test of JIT is dropped.
InitCheckAlwaysCreates(a) ==
  /\ At(a, "initJIT")
  /\ Goto(a, "create")
  /\ UNCHANGED <<jitkernels, jit_kernel_mutex, jitVars, dylibs, reqVars, info, alive, raced>>

InitCheck(a) ==
  /\ At(a, "initJIT")
  /\ IF JIT = 0 THEN Goto(a, "create") ELSE InitReturns(a, TRUE)
  /\ UNCHANGED <<jitkernels, jit_kernel_mutex, jitVars, dylibs, reqVars, info, alive, raced>>

\* LLJITBuilder::create and the move into JIT, which destroys what was there.
InitCreate(a) ==
  /\ At(a, "create")
  /\ \/ /\ built' = built + 1 /\ JIT' = built'
        /\ Goto(a, "generator")
     \/ InitReturns(a, FALSE) /\ UNCHANGED jitVars
  /\ UNCHANGED <<jitkernels, jit_kernel_mutex, dylibs, reqVars, info, alive, raced>>

\* The process-symbol generator; JIT stays set when it cannot be had.
InitGenerator(a) ==
  /\ At(a, "generator")
  /\ \E ok \in BOOLEAN : InitReturns(a, ok)
  /\ UNCHANGED <<jitkernels, jit_kernel_mutex, jitVars, dylibs, reqVars, info, alive, raced>>

-----------------------------------------------------------------------------
(* EnzymeJaXMapSymbol *)

MapSymbol(m) ==
  /\ At(m, "idle") /\ todo[m] > 0
  /\ raced' = (raced \/ Busy(Actor))
  /\ todo' = [todo EXCEPT ![m] = @ - 1]
  /\ Goto(m, "initJIT")
  /\ UNCHANGED <<jitkernels, jit_kernel_mutex, jitVars, dylibs, text, option, info, alive>>

\* JIT->mangleAndIntern(name): with JIT still null the process dies here.
MapInsert(m) ==
  /\ At(m, "insert")
  /\ alive' = (JIT # 0)
  /\ Goto(m, "idle")
  /\ UNCHANGED <<jitkernels, jit_kernel_mutex, jitVars, dylibs, reqVars, info, raced>>

-----------------------------------------------------------------------------
InitJIT(a) == InitCheck(a) \/ InitCreate(a) \/ InitGenerator(a)

\* What follows a request: every step CompileCall takes by itself.
Compile(t) ==
  \/ Acquire(t) \/ Find(t) \/ Pipeline(t) \/ Translate(t) \/ InitJIT(t)
  \/ CreateDylib(t) \/ DefineSymbols(t) \/ Lookup(t) \/ Store(t) \/ Release(t)

Next ==
  \/ \E t \in Thread : Request(t) \/ Refuse(t) \/ Compile(t)
  \/ \E m \in Mapper : MapSymbol(m) \/ InitJIT(m) \/ MapInsert(m)

Spec == Init /\ [][Next]_vars

\* A thread inside CompileCall keeps running.  Weak fairness is enough for the
\* lock: a module has finitely many jit_calls, so contention for it ends.
FairSpec ==
  /\ Spec
  /\ \A t \in Thread : WF_vars(Compile(t))
  /\ \A m \in Mapper : WF_vars(InitJIT(m) \/ MapInsert(m))

-----------------------------------------------------------------------------
(* Properties *)

\* A thread between lookup and return of CompileCall is the writer of
\* jit_kernel_mutex, so no two threads compile at once.
CompilersHoldLock ==
  \A t \in Thread : (pc[t] \in Locked) <=> (jit_kernel_mutex = t)

\* createJITDylib is never given the name of a library that exists.  Names come
\* from jitkernels.size(), so this needs the lock and needs every attempt that
\* made a library, a failed one too, to leave an entry in the cache.
DylibNameFresh ==
  \A t \in Thread : pc[t] = "dylib" => <<JIT, Size>> \notin dylibs

\* A text is compiled to at most one kernel: threads that were given code for
\* the same text were given the same code, and it is the cached one.
OneKernelPerText ==
  \A t \in Thread : (pc[t] = "idle" /\ info[t] # NullInfo) => jitkernels[text[t]] = info[t]

\* An entry of the cache, a null one included, is never replaced or dropped:
\* XLA holds copies of the pointers in its backend_config.
EntriesArePermanent ==
  [][\A x \in Text : jitkernels[x] # Absent => jitkernels'[x] = jitkernels[x]]_vars

\* Code in the cache or in the hands of a thread belongs to the LLJIT instance
\* that is alive: initJIT never destroys an instance that owns code, as long as
\* the host did not map a symbol while a pass ran.
NoDanglingCode ==
  ~raced =>
    /\ \A x \in Text : jitkernels[x] \in Code => jitkernels[x].jit = JIT
    /\ \A t \in Thread : info[t] \in Code => info[t].jit = JIT

\* Every request that reached CompileCall returns, unless the process died.
RequestsReturn ==
  \A t \in Thread : (pc[t] # "idle") ~> (pc[t] = "idle" \/ ~alive)

-----------------------------------------------------------------------------
(* CompileCall implements the memo table of KernelMemo: a request is         *)
(* answered where the text is found, where its entry is stored, or where     *)
(* the pipeline gave up; one that is refused is answered as it is made.      *)

CodeOf == [x \in Text |-> [jit : Nat \ {0}, text : {x}, option : Option]]

MemoStatus(label) ==
  CASE label = "idle" -> "idle" [] label = "release" -> "answered" [] OTHER -> "waiting"

Memo == INSTANCE KernelMemo WITH
  Client <- Thread,
  memo   <- jitkernels,
  wants  <- [t \in Thread |-> option[t] \notin JitOff],
  status <- [t \in Thread |-> MemoStatus(pc[t])],
  answer <- [t \in Thread |-> IF pc[t] \in {"idle", "release"} THEN info[t] ELSE NullInfo]

\* Whatever the interleaving with other threads and with EnzymeJaXMapSymbol, a
\* thread sees the cache as a memo table that is asked and answered in one step.
ImplementsMemo == Memo!MemoSpec
=============================================================================
