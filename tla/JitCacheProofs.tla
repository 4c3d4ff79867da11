--------------------------- MODULE JitCacheProofs ---------------------------
(***************************************************************************)
(* Proofs about JitCache for any threads, mappers, texts and options.      *)
(***************************************************************************)
EXTENDS JitCache, FiniteSetTheorems, TLAPS

\* Past the null test of initJIT there is an instance.
InstanceExists ==
  \A a \in Actor : pc[a] \in {"generator", "dylib", "define"} => JIT # 0

THEOREM TypeInit == Init => TypeOK /\ InstanceExists
<1> SUFFICES ASSUME Init PROVE TypeOK /\ InstanceExists
  OBVIOUS
<1>1. (CHOOSE x \in Text : TRUE) \in Text
  BY TextAssumption
<1>2. TypeOK
  BY <1>1, BoundAssumption DEF Init, TypeOK, Info
<1>3. InstanceExists
  BY DEF Init, InstanceExists
<1>. QED BY <1>2, <1>3

\* One step of any action keeps the types and the instance.
LEMMA TypeStep == TypeOK /\ InstanceExists /\ [Next]_vars => TypeOK' /\ InstanceExists'
<1> SUFFICES ASSUME TypeOK, InstanceExists, [Next]_vars PROVE TypeOK' /\ InstanceExists'
  OBVIOUS
<1> USE DEF TypeOK, InstanceExists, At, Goto, Actor, Locked, jitVars, reqVars
<1>1. ASSUME NEW t \in Thread, Request(t) PROVE TypeOK' /\ InstanceExists'
  BY <1>1 DEF Request, Info
<1>2. ASSUME NEW t \in Thread, Acquire(t) PROVE TypeOK' /\ InstanceExists'
  BY <1>2 DEF Acquire
<1>3. ASSUME NEW t \in Thread, Find(t) PROVE TypeOK' /\ InstanceExists'
  BY <1>3 DEF Find
<1>4. ASSUME NEW t \in Thread, Pipeline(t) PROVE TypeOK' /\ InstanceExists'
  BY <1>4 DEF Pipeline
<1>5. ASSUME NEW t \in Thread, Translate(t) PROVE TypeOK' /\ InstanceExists'
  BY <1>5 DEF Translate
<1>6. ASSUME NEW a \in Actor, InitJIT(a) PROVE TypeOK' /\ InstanceExists'
  <2>1. CASE InitCheck(a)
    BY <1>6, <2>1 DEF InitCheck, InitReturns
  <2>2. CASE InitCreate(a)
    BY <1>6, <2>2 DEF InitCreate, InitReturns
  <2>3. CASE InitGenerator(a)
    BY <1>6, <2>3 DEF InitGenerator, InitReturns
  <2>. QED BY <1>6, <2>1, <2>2, <2>3 DEF InitJIT
<1>7. ASSUME NEW t \in Thread, CreateDylib(t) PROVE TypeOK' /\ InstanceExists'
  <2>1. Size \in Nat
    BY TextAssumption, FS_Subset, FS_CardinalityType DEF Size
  <2>. QED BY <1>7, <2>1 DEF CreateDylib
<1>8. ASSUME NEW t \in Thread, DefineSymbols(t) PROVE TypeOK' /\ InstanceExists'
  BY <1>8 DEF DefineSymbols, Fails, Info, Code
<1>9. ASSUME NEW t \in Thread, Lookup(t) PROVE TypeOK' /\ InstanceExists'
  BY <1>9 DEF Lookup, Info
<1>10. ASSUME NEW t \in Thread, Store(t) PROVE TypeOK' /\ InstanceExists'
  BY <1>10 DEF Store
<1>11. ASSUME NEW t \in Thread, Release(t) PROVE TypeOK' /\ InstanceExists'
  BY <1>11 DEF Release
<1>12. ASSUME NEW m \in Mapper, MapSymbol(m) PROVE TypeOK' /\ InstanceExists'
  BY <1>12 DEF MapSymbol
<1>13. ASSUME NEW m \in Mapper, MapInsert(m) PROVE TypeOK' /\ InstanceExists'
  BY <1>13 DEF MapInsert
<1>14. ASSUME NEW t \in Thread, Refuse(t) PROVE TypeOK' /\ InstanceExists'
  BY <1>14 DEF Refuse, Info
<1>15. CASE UNCHANGED vars
  BY <1>15 DEF vars
<1>. QED
  BY <1>1, <1>2, <1>3, <1>4, <1>5, <1>6, <1>7, <1>8, <1>9, <1>10, <1>11, <1>12, <1>13, <1>14, <1>15
     DEF Next, Compile

\* Type correctness of every reachable state.
THEOREM TypeCorrect == Spec => []TypeOK
<1>. QED BY TypeInit, TypeStep, PTL DEF Spec

-----------------------------------------------------------------------------
(* The lock *)

LEMMA LockInit == Init => CompilersHoldLock
<1>. QED BY ActorAssumption DEF Init, CompilersHoldLock, Locked, Actor

\* Only Acquire enters the region, only Release leaves it, and InitJIT of a
\* mapper moves no thread.
LEMMA LockStep ==
  ASSUME TypeOK, CompilersHoldLock, [Next]_vars
  PROVE  CompilersHoldLock'
<1> USE ActorAssumption
    DEF TypeOK, CompilersHoldLock, At, Goto, Actor, Locked
<1>1. ASSUME NEW t \in Thread, Request(t) \/ Refuse(t) PROVE CompilersHoldLock'
  BY <1>1 DEF Request, Refuse
<1>2. ASSUME NEW t \in Thread, Acquire(t) PROVE CompilersHoldLock'
  BY <1>2 DEF Acquire
<1>3. ASSUME NEW t \in Thread, Find(t) PROVE CompilersHoldLock'
  BY <1>3 DEF Find
<1>4. ASSUME NEW t \in Thread, Pipeline(t) PROVE CompilersHoldLock'
  BY <1>4 DEF Pipeline
<1>5. ASSUME NEW t \in Thread, Translate(t) PROVE CompilersHoldLock'
  BY <1>5 DEF Translate
<1>6. ASSUME NEW a \in Actor, InitJIT(a) PROVE CompilersHoldLock'
  BY <1>6 DEF InitJIT, InitCheck, InitCreate, InitGenerator, InitReturns
<1>7. ASSUME NEW t \in Thread, CreateDylib(t) PROVE CompilersHoldLock'
  BY <1>7 DEF CreateDylib
<1>8. ASSUME NEW t \in Thread, DefineSymbols(t) PROVE CompilersHoldLock'
  BY <1>8 DEF DefineSymbols, Fails
<1>9. ASSUME NEW t \in Thread, Lookup(t) PROVE CompilersHoldLock'
  BY <1>9 DEF Lookup
<1>10. ASSUME NEW t \in Thread, Store(t) PROVE CompilersHoldLock'
  BY <1>10 DEF Store
<1>11. ASSUME NEW t \in Thread, Release(t) PROVE CompilersHoldLock'
  BY <1>11 DEF Release
<1>12. ASSUME NEW m \in Mapper, MapSymbol(m) \/ MapInsert(m) PROVE CompilersHoldLock'
  BY <1>12 DEF MapSymbol, MapInsert
<1>13. CASE UNCHANGED vars
  BY <1>13 DEF vars
<1>. QED
  BY <1>1, <1>2, <1>3, <1>4, <1>5, <1>6, <1>7, <1>8, <1>9, <1>10, <1>11, <1>12, <1>13
     DEF Next, Compile

\* No two threads are in CompileCall past the lookup at once.
THEOREM MutualExclusion == Spec => []CompilersHoldLock
<1>1. Init => TypeOK /\ InstanceExists /\ CompilersHoldLock
  BY TypeInit, LockInit
<1>2. TypeOK /\ InstanceExists /\ CompilersHoldLock /\ [Next]_vars
        => (TypeOK /\ InstanceExists /\ CompilersHoldLock)'
  BY TypeStep, LockStep
<1>. QED BY <1>1, <1>2, PTL DEF Spec

-----------------------------------------------------------------------------
(* The cache *)

\* Between the miss and the store the text of the compiling thread has no entry.
Missed == Locked \ {"find", "release"}
MissedIsAbsent ==
  \A t \in Thread : pc[t] \in Missed => jitkernels[text[t]] = Absent

\* A thread has nothing in hand until code is made, and what it returns from
\* CompileCall is what the cache holds.
InHand ==
  \A t \in Thread :
    /\ pc[t] \in {"lock", "find", "dylib", "define"} \union {"pipeline", "translate"} \union InInit
         => info[t] = NullInfo
    /\ pc[t] \in {"release", "idle"} /\ info[t] # NullInfo => jitkernels[text[t]] = info[t]

CacheInv == TypeOK /\ InstanceExists /\ CompilersHoldLock /\ MissedIsAbsent /\ InHand

LEMMA CacheInit == Init => CacheInv
<1>1. Init => MissedIsAbsent /\ InHand
  BY DEF Init, MissedIsAbsent, InHand, Missed, Locked, InInit, Actor
<1>. QED BY <1>1, TypeInit, LockInit DEF CacheInv

LEMMA CacheStep == CacheInv /\ [Next]_vars => CacheInv'
<1> SUFFICES ASSUME CacheInv, [Next]_vars PROVE MissedIsAbsent' /\ InHand'
  BY TypeStep, LockStep DEF CacheInv
<1> USE ActorAssumption, TokenAssumption
    DEF CacheInv, TypeOK, CompilersHoldLock, MissedIsAbsent, InHand, Missed, Locked,
        InInit, At, Goto, Actor
<1>1. ASSUME NEW t \in Thread, Request(t) \/ Refuse(t) PROVE MissedIsAbsent' /\ InHand'
  BY <1>1 DEF Request, Refuse, reqVars
<1>2. ASSUME NEW t \in Thread, Acquire(t) PROVE MissedIsAbsent' /\ InHand'
  BY <1>2 DEF Acquire, reqVars
<1>3. ASSUME NEW t \in Thread, Find(t) PROVE MissedIsAbsent' /\ InHand'
  BY <1>3 DEF Find, reqVars
<1>4. ASSUME NEW t \in Thread, Pipeline(t) PROVE MissedIsAbsent' /\ InHand'
  BY <1>4 DEF Pipeline, reqVars
<1>5. ASSUME NEW t \in Thread, Translate(t) PROVE MissedIsAbsent' /\ InHand'
  BY <1>5 DEF Translate, reqVars
<1>6. ASSUME NEW a \in Actor, InitJIT(a) PROVE MissedIsAbsent' /\ InHand'
  <2>1. CASE InitCheck(a)
    BY <1>6, <2>1 DEF InitCheck, InitReturns, reqVars
  <2>2. CASE InitCreate(a)
    BY <1>6, <2>2 DEF InitCreate, InitReturns, reqVars
  <2>3. CASE InitGenerator(a)
    BY <1>6, <2>3 DEF InitGenerator, InitReturns, reqVars
  <2>. QED BY <1>6, <2>1, <2>2, <2>3 DEF InitJIT
<1>7. ASSUME NEW t \in Thread, CreateDylib(t) PROVE MissedIsAbsent' /\ InHand'
  BY <1>7 DEF CreateDylib, reqVars
<1>8. ASSUME NEW t \in Thread, DefineSymbols(t) PROVE MissedIsAbsent' /\ InHand'
  BY <1>8 DEF DefineSymbols, Fails, reqVars
<1>9. ASSUME NEW t \in Thread, Lookup(t) PROVE MissedIsAbsent' /\ InHand'
  BY <1>9 DEF Lookup, reqVars
<1>10. ASSUME NEW t \in Thread, Store(t) PROVE MissedIsAbsent' /\ InHand'
  BY <1>10 DEF Store, reqVars
<1>11. ASSUME NEW t \in Thread, Release(t) PROVE MissedIsAbsent' /\ InHand'
  BY <1>11 DEF Release, reqVars
<1>12. ASSUME NEW m \in Mapper, MapSymbol(m) \/ MapInsert(m) PROVE MissedIsAbsent' /\ InHand'
  BY <1>12 DEF MapSymbol, MapInsert, reqVars
<1>13. CASE UNCHANGED vars
  BY <1>13 DEF vars, reqVars
<1>. QED
  BY <1>1, <1>2, <1>3, <1>4, <1>5, <1>6, <1>7, <1>8, <1>9, <1>10, <1>11, <1>12, <1>13
     DEF Next, Compile

LEMMA CacheAlways == Spec => []CacheInv
<1>. QED BY CacheInit, CacheStep, PTL DEF Spec

\* All requests for a text that got code got the same code, the cached one.
THEOREM SameCodeForSameText == Spec => []OneKernelPerText
<1>1. CacheInv => OneKernelPerText
  BY DEF CacheInv, InHand, OneKernelPerText
<1>. QED BY <1>1, CacheAlways, PTL

\* Only Store writes the cache, and it writes where there is no entry.
THEOREM EntriesNeverChange == Spec => EntriesArePermanent
<1>1. CacheInv /\ [Next]_vars =>
        [\A x \in Text : jitkernels[x] # Absent => jitkernels'[x] = jitkernels[x]]_vars
  <2> SUFFICES ASSUME CacheInv, Next,
                      NEW x \in Text, jitkernels[x] # Absent
               PROVE  jitkernels'[x] = jitkernels[x]
    OBVIOUS
  <2>1. ASSUME NEW t \in Thread, Store(t) PROVE jitkernels'[x] = jitkernels[x]
    BY <2>1 DEF Store, CacheInv, TypeOK, MissedIsAbsent, Missed, Locked, At
  <2>2. CASE UNCHANGED jitkernels
    BY <2>2
  <2>. QED
    BY <2>1, <2>2
       DEF Next, Compile, Request, Refuse, Acquire, Find, Pipeline, Translate, InitJIT, InitCheck,
           InitCreate, InitGenerator, CreateDylib, DefineSymbols, Lookup, Release,
           MapSymbol, MapInsert
<1>. QED BY <1>1, CacheAlways, PTL DEF Spec, EntriesArePermanent

-----------------------------------------------------------------------------
(* Names of libraries *)

Cached == {x \in Text : jitkernels[x] # Absent}

LEMMA SizeType == Size \in Nat
<1>. QED BY TextAssumption, FS_Subset, FS_CardinalityType DEF Size

\* A library carries a number below the size of the cache, or the size itself
\* while the thread that made it has yet to store its entry.
NamesBelowSize ==
  \A d \in dylibs :
    \/ d[2] < Size
    \/ d[2] = Size /\ \E t \in Thread : pc[t] \in {"define", "lookup", "store"}

NameInv == CacheInv /\ NamesBelowSize

LEMMA NameFresh == ASSUME NameInv PROVE DylibNameFresh
<1> SUFFICES ASSUME NEW t \in Thread, pc[t] = "dylib", <<JIT, Size>> \in dylibs
             PROVE  FALSE
  BY DEF DylibNameFresh
<1>1. PICK u \in Thread : pc[u] \in {"define", "lookup", "store"}
  BY SizeType DEF NameInv, NamesBelowSize
<1>2. jit_kernel_mutex = t /\ jit_kernel_mutex = u
  BY <1>1 DEF NameInv, CacheInv, CompilersHoldLock, Locked
<1>. QED BY <1>1, <1>2

\* Storing the entry of a text that had none makes the cache one larger.
LEMMA StoreGrows ==
  ASSUME CacheInv, NEW t \in Thread, Store(t)
  PROVE  Size' = Size + 1
<1>1. text[t] \in Text /\ jitkernels[text[t]] = Absent /\ info[t] # Absent
  BY TokenAssumption DEF CacheInv, TypeOK, MissedIsAbsent, Missed, Locked, Store, At
<1>2. Cached' = Cached \union {text[t]} /\ text[t] \notin Cached
  BY <1>1 DEF Store, Cached, CacheInv, TypeOK
<1>3. IsFiniteSet(Cached)
  BY TextAssumption, FS_Subset DEF Cached
<1>4. Cardinality(Cached \union {text[t]}) = Cardinality(Cached) + 1
  BY <1>2, <1>3, FS_AddElement
<1>. QED BY <1>2, <1>4 DEF Size, Cached

LEMMA NameStep == NameInv /\ [Next]_vars => NameInv'
<1> SUFFICES ASSUME NameInv, [Next]_vars PROVE NamesBelowSize'
  BY CacheStep DEF NameInv
<1> USE DEF NameInv, CacheInv, TypeOK, Actor, At, Goto
<1>1. ASSUME NEW t \in Thread, Store(t) PROVE NamesBelowSize'
  <2>1. dylibs' = dylibs /\ Size' = Size + 1 /\ Size \in Nat
    BY <1>1, StoreGrows, SizeType DEF Store
  <2>2. \A d \in dylibs : d[2] \in Nat /\ d[2] <= Size
    BY SizeType DEF NamesBelowSize
  <2>. QED BY <2>1, <2>2 DEF NamesBelowSize
<1>2. ASSUME NEW t \in Thread, CreateDylib(t) PROVE NamesBelowSize'
  <2>1. Size' = Size
    BY <1>2 DEF CreateDylib, Size
  <2>2. pc'[t] \in {"define", "store"}
    BY <1>2 DEF CreateDylib
  <2>3. dylibs' = dylibs \union {<<JIT, Size>>}
    BY <1>2 DEF CreateDylib
  <2>. QED BY <2>1, <2>2, <2>3 DEF NamesBelowSize
<1>3. ASSUME UNCHANGED <<jitkernels, dylibs>>,
             \A t \in Thread : pc[t] \in {"define", "lookup", "store"}
                                 => pc'[t] \in {"define", "lookup", "store"}
      PROVE  NamesBelowSize'
  BY <1>3 DEF NamesBelowSize, Size
<1>4. ASSUME NEW t \in Thread,
             \/ Request(t) \/ Refuse(t) \/ Acquire(t) \/ Find(t) \/ Pipeline(t)
             \/ Translate(t) \/ Release(t)
      PROVE  NamesBelowSize'
  BY <1>3, <1>4 DEF Request, Refuse, Acquire, Find, Pipeline, Translate, Release
<1>5. ASSUME NEW t \in Thread, DefineSymbols(t) \/ Lookup(t) PROVE NamesBelowSize'
  BY <1>3, <1>5 DEF DefineSymbols, Lookup, Fails
<1>6. ASSUME NEW a \in Actor, InitJIT(a) PROVE NamesBelowSize'
  BY <1>3, <1>6 DEF InitJIT, InitCheck, InitCreate, InitGenerator, InitReturns
<1>7. ASSUME NEW m \in Mapper, MapSymbol(m) \/ MapInsert(m) PROVE NamesBelowSize'
  BY <1>3, <1>7, ActorAssumption DEF MapSymbol, MapInsert
<1>8. CASE UNCHANGED vars
  BY <1>3, <1>8 DEF vars
<1>. QED BY <1>1, <1>2, <1>4, <1>5, <1>6, <1>7, <1>8 DEF Next, Compile

\* createJITDylib is never called with a name in use, however the host
\* interleaves EnzymeJaXMapSymbol with the passes.
THEOREM LibraryNamesAreFresh == Spec => []DylibNameFresh
<1>1. Init => NameInv
  BY CacheInit DEF Init, NameInv, NamesBelowSize
<1>. QED BY <1>1, NameStep, NameFresh, PTL DEF Spec

-----------------------------------------------------------------------------
(* Code outlives every use, when the host does not map during a pass *)

OneAtATime == \A m \in Mapper : pc[m] # "idle" => \A a \in Actor \ {m} : pc[a] = "idle"
CreateOnNull == \A a \in Actor : pc[a] = "create" => JIT = 0
NullOwnsNothing ==
  JIT = 0 => /\ \A x \in Text : jitkernels[x] \notin Code
             /\ \A t \in Thread : info[t] \notin Code

SerialInv ==
  /\ CacheInv
  /\ ~raced => OneAtATime /\ CreateOnNull /\ NullOwnsNothing /\ NoDanglingCode

LEMMA SerialInit == Init => SerialInv
<1>1. Init => OneAtATime /\ CreateOnNull /\ NullOwnsNothing /\ NoDanglingCode
  BY TokenAssumption
     DEF Init, OneAtATime, CreateOnNull, NullOwnsNothing, NoDanglingCode, Info, Actor
<1>. QED BY <1>1, CacheInit DEF SerialInv

LEMMA SerialStep ==
  ASSUME SerialInv, [Next]_vars
  PROVE  SerialInv'
<1> SUFFICES ASSUME ~raced' PROVE OneAtATime' /\ CreateOnNull' /\ NullOwnsNothing' /\ NoDanglingCode'
  BY CacheStep DEF SerialInv
<1>0. ~raced
  BY DEF Next, Compile, InitJIT, Request, Refuse, Acquire, Find, Pipeline, Translate, InitCheck, InitCreate,
         InitGenerator, CreateDylib, DefineSymbols, Lookup, Store, Release, MapSymbol, MapInsert, vars
<1> USE <1>0, ActorAssumption, TokenAssumption
    DEF SerialInv, CacheInv, TypeOK, Actor, At, Goto,
        OneAtATime, CreateOnNull, NullOwnsNothing, NoDanglingCode
<1>1. ASSUME NEW t \in Thread, Request(t) \/ Refuse(t)
      PROVE  OneAtATime' /\ CreateOnNull' /\ NullOwnsNothing' /\ NoDanglingCode'
  BY <1>1 DEF Request, Refuse, Busy, Info, jitVars
<1>2. ASSUME NEW t \in Thread, Acquire(t) \/ Pipeline(t) \/ Translate(t) \/ Release(t)
      PROVE  OneAtATime' /\ CreateOnNull' /\ NullOwnsNothing' /\ NoDanglingCode'
  BY <1>2 DEF Acquire, Pipeline, Translate, Release, jitVars
<1>3. ASSUME NEW t \in Thread, Find(t)
      PROVE  OneAtATime' /\ CreateOnNull' /\ NullOwnsNothing' /\ NoDanglingCode'
  BY <1>3 DEF Find, jitVars
<1>4. ASSUME NEW t \in Thread, CreateDylib(t)
      PROVE  OneAtATime' /\ CreateOnNull' /\ NullOwnsNothing' /\ NoDanglingCode'
  BY <1>4 DEF CreateDylib, jitVars
<1>5. ASSUME NEW t \in Thread, DefineSymbols(t)
      PROVE  OneAtATime' /\ CreateOnNull' /\ NullOwnsNothing' /\ NoDanglingCode'
  BY <1>5 DEF DefineSymbols, Fails, jitVars, InstanceExists, Code
<1>6. ASSUME NEW t \in Thread, Lookup(t)
      PROVE  OneAtATime' /\ CreateOnNull' /\ NullOwnsNothing' /\ NoDanglingCode'
  BY <1>6 DEF Lookup, jitVars
<1>7. ASSUME NEW t \in Thread, Store(t)
      PROVE  OneAtATime' /\ CreateOnNull' /\ NullOwnsNothing' /\ NoDanglingCode'
  BY <1>7 DEF Store, jitVars
<1>8. ASSUME NEW a \in Actor, InitCheck(a)
      PROVE  OneAtATime' /\ CreateOnNull' /\ NullOwnsNothing' /\ NoDanglingCode'
  BY <1>8 DEF InitCheck, InitReturns, jitVars
<1>9. ASSUME NEW a \in Actor, InitCreate(a)
      PROVE  OneAtATime' /\ CreateOnNull' /\ NullOwnsNothing' /\ NoDanglingCode'
  \* A compiling thread holds the lock and no mapper is busy, so no other actor
  \* is about to create an instance.
  <2>1. \A b \in Actor \ {a} : pc[b] # "create"
    BY <1>9 DEF InitCreate, CompilersHoldLock, Locked
  <2>2. JIT = 0
    BY <1>9 DEF InitCreate
  <2>. QED BY <1>9, <2>1, <2>2 DEF InitCreate, InitReturns, jitVars
<1>10. ASSUME NEW a \in Actor, InitGenerator(a)
       PROVE  OneAtATime' /\ CreateOnNull' /\ NullOwnsNothing' /\ NoDanglingCode'
  BY <1>10 DEF InitGenerator, InitReturns, jitVars
<1>11. ASSUME NEW m \in Mapper, MapSymbol(m) \/ MapInsert(m)
       PROVE  OneAtATime' /\ CreateOnNull' /\ NullOwnsNothing' /\ NoDanglingCode'
  BY <1>11 DEF MapSymbol, MapInsert, Busy, jitVars
<1>12. CASE UNCHANGED vars
  BY <1>12 DEF vars, jitVars
<1>. QED
  BY <1>1, <1>2, <1>3, <1>4, <1>5, <1>6, <1>7, <1>8, <1>9, <1>10, <1>11, <1>12
     DEF Next, Compile, InitJIT

\* Until the host maps a symbol while a pass runs, no code the cache or a thread
\* holds belongs to a destroyed LLJIT instance.
THEOREM CodeNeverDangles == Spec => []NoDanglingCode
<1>1. SerialInv /\ [Next]_vars => SerialInv'
  BY SerialStep
<1>2. SerialInv => NoDanglingCode
  BY DEF SerialInv, NoDanglingCode
<1>. QED BY SerialInit, <1>1, <1>2, PTL DEF Spec

-----------------------------------------------------------------------------
(* The cache implements the memo table *)

\* Code in hand was made from the text of the request.
MadeFromText == \A t \in Thread : info[t] \in Code /\ pc[t] \in {"lookup", "store"} => info[t].text = text[t]

RefineInv == CacheInv /\ MadeFromText

LEMMA RefineStep == RefineInv /\ [Next]_vars => RefineInv'
<1> SUFFICES ASSUME RefineInv, [Next]_vars PROVE MadeFromText'
  BY CacheStep DEF RefineInv
<1> USE ActorAssumption, TokenAssumption
    DEF RefineInv, MadeFromText, CacheInv, TypeOK, InHand, InInit, Actor, At, Goto
<1>1. ASSUME NEW t \in Thread, DefineSymbols(t) \/ Lookup(t) PROVE MadeFromText'
  BY <1>1 DEF DefineSymbols, Lookup, Fails, reqVars, Code
<1>2. ASSUME NEW t \in Thread,
             \/ Request(t) \/ Refuse(t) \/ Acquire(t) \/ Find(t) \/ Pipeline(t) \/ Translate(t)
             \/ CreateDylib(t) \/ Store(t) \/ Release(t)
      PROVE  MadeFromText'
  BY <1>2 DEF Request, Refuse, Acquire, Find, Pipeline, Translate, CreateDylib, Store, Release, reqVars
<1>3. ASSUME NEW a \in Actor, InitJIT(a) PROVE MadeFromText'
  BY <1>3 DEF InitJIT, InitCheck, InitCreate, InitGenerator, InitReturns, reqVars
<1>4. ASSUME NEW m \in Mapper, MapSymbol(m) \/ MapInsert(m) PROVE MadeFromText'
  BY <1>4 DEF MapSymbol, MapInsert, reqVars
<1>5. CASE UNCHANGED vars
  BY <1>5 DEF vars, reqVars
<1>. QED BY <1>1, <1>2, <1>3, <1>4, <1>5 DEF Next, Compile

\* Names for the mapped variables of KernelMemo.
wants == [t \in Thread |-> option[t] \notin JitOff]
status == [t \in Thread |-> MemoStatus(pc[t])]
answer == [t \in Thread |-> IF pc[t] \in {"idle", "release"} THEN info[t] ELSE NullInfo]

LEMMA MemoInitial == Init => Memo!MemoInit
<1>1. (CHOOSE x \in Text : TRUE) \in Text
  BY TextAssumption
<1>. QED BY <1>1 DEF Init, Memo!MemoInit, MemoStatus, Actor

\* Every step of the program is a step of the memo table or leaves it alone.
LEMMA MemoStep ==
  ASSUME RefineInv, [Next]_vars
  PROVE  [Memo!MemoNext]_(Memo!memoVars)
<1> USE ActorAssumption, TokenAssumption
    DEF RefineInv, CacheInv, TypeOK, InHand, InInit, Actor, At, Goto, MemoStatus
<1> DEFINE Stutter == UNCHANGED <<jitkernels, wants, status, text, answer>>
<1>1. Stutter => UNCHANGED Memo!memoVars
  BY DEF Memo!memoVars, wants, status, answer
<1>2. ASSUME NEW t \in Thread, Request(t) PROVE Memo!Ask(t)
  BY <1>2 DEF Request, Memo!Ask
<1>3. ASSUME NEW t \in Thread, Find(t) PROVE Memo!Recall(t) \/ Stutter
  BY <1>3, ZenonT(60) DEF Find, Memo!Recall, Memo!Answered, wants, status, answer, reqVars
<1>4. ASSUME NEW t \in Thread, Pipeline(t) PROVE Memo!GiveUp(t) \/ Stutter
  BY <1>4 DEF Pipeline, Memo!GiveUp, Memo!Answered, wants, status, answer, reqVars,
              MissedIsAbsent, Missed, Locked
<1>5. ASSUME NEW t \in Thread, Store(t) PROVE Memo!Make(t, info[t])
  BY <1>5 DEF Store, Memo!Make, Memo!Answered, reqVars, MissedIsAbsent, Missed, Locked,
              MadeFromText, CodeOf, Code, Info
<1>6. ASSUME NEW t \in Thread, Release(t) PROVE Memo!Return(t)
  BY <1>6 DEF Release, Memo!Return, reqVars
<1>7. ASSUME NEW t \in Thread,
             Acquire(t) \/ Translate(t) \/ CreateDylib(t) \/ DefineSymbols(t) \/ Lookup(t)
      PROVE  Stutter
  BY <1>7 DEF Acquire, Translate, CreateDylib, DefineSymbols, Lookup, Fails, wants, status, answer, reqVars
<1>8. ASSUME NEW a \in Actor, InitJIT(a) PROVE Stutter
  BY <1>8 DEF InitJIT, InitCheck, InitCreate, InitGenerator, InitReturns, wants, status, answer, reqVars
<1>9. ASSUME NEW m \in Mapper, MapSymbol(m) \/ MapInsert(m) PROVE Stutter
  BY <1>9 DEF MapSymbol, MapInsert, wants, status, answer, reqVars
<1>10. CASE UNCHANGED vars
  <2>1. Stutter
    BY <1>10 DEF vars, reqVars, wants, status, answer
  <2>. QED BY <2>1, <1>1
<1>11. ASSUME NEW t \in Thread, Memo!Make(t, info[t]) PROVE Memo!MemoNext
  BY <1>11 DEF Memo!MemoNext, Memo!Make, Memo!Answered
<1>12. ASSUME NEW t \in Thread, Refuse(t) PROVE Memo!Refuse(t)
  BY <1>12 DEF Refuse, Memo!Refuse, wants, reqVars
<1>. QED
  BY <1>1, <1>2, <1>3, <1>4, <1>5, <1>6, <1>7, <1>8, <1>9, <1>10, <1>11, <1>12
     DEF Next, Compile, Memo!MemoNext

\* The compile cache implements the memo table for every number of threads,
\* texts and options and every behaviour of the host.
THEOREM CacheImplementsMemo == Spec => ImplementsMemo
<1>1. Init => RefineInv
  BY CacheInit DEF RefineInv, MadeFromText, Init, Actor
<1>2. RefineInv /\ [Next]_vars => [Memo!MemoNext]_(Memo!memoVars)
  BY MemoStep
<1>. QED
  BY MemoInitial, <1>1, <1>2, RefineStep, PTL DEF Spec, ImplementsMemo, Memo!MemoSpec
=============================================================================
