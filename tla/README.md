# Verification of Enzyme-JAX

TLA+ modules, TLC configurations and TLAPS proofs about the parts of Enzyme-JAX
(`src/src/enzyme_ad`) that have state, order or algorithms worth checking: the
process-wide JIT of the compiler, the kernel registry of the XLA callback, the
memory effect pass, the JAX primitives, the partial symmetry analysis, a family
of tensor rewrites, the analysis of loops and what is moved out of them, the
removal of barriers from parallel loops, and the communication of sharded tensors.
`PROJECT.json` maps every definition to the lines it models and
lists the runs, the hazards and the theorems.

Line numbers below are those of the files under `src/src/enzyme_ad/jax/`;
`HO` is `Passes/EnzymeHLOOpt.cpp`.

To reproduce: `tlc -config jit_cache.cfg MCJitCache` (and so on, see [Runs](#runs)),
`tlapm JitCacheProofs.tla`.

## Inventory

The system is a compiler between JAX and XLA. `primitives.py` traces a function and
binds it as a primitive; differentiation rules turn that primitive into others;
the lowering runs MLIR pass pipelines, or hands C++ sources to
clang, and leaves a call in the program of XLA. Passes rewrite the module
(optimisation, analysis, raising); the last of them compile outlined kernels to
machine code and leave a pointer, or a number, that a handler uses when XLA executes.

| Part (files) | State | Operations | Interacts with | Hard behaviours | What makes it correct |
|---|---|---|---|---|---|
| JIT kernel cache (`Passes/LowerJIT.cpp`) | `jitkernels`, `jit_kernel_mutex`, `JIT`, `MappedSymbols`: process-wide | `CompileCall`, `CompileHostModule`, `initJIT`, `EnzymeJaXMapSymbol` | passes of any thread; the host maps symbols; `cpu.cc`, `gpu.cc` follow the pointers | interleaving, lazy creation, failures half way, null results that are cached | one code for one text, entries for good, no pointer into a destroyed JIT, every call returns |
| Kernel registry (`enzyme_call.cc`) | `kernels`, `last_identifier`, `JIT`, `kernel_mutex` | `CpuKernel::create`, `get`, `Callback` | JAX compiles, XLA calls back by number | lookup under the lock, run outside it; `create` throws in the middle | a program runs its own source, a number names one kernel |
| JAX primitives (`primitives.py`) | operands, index maps and pipelines of an equation | jvp, partial evaluation, transposition, lowering | JAX's transformations; `enzyme_call.cc` for shapes and tapes | compositions of rules, unused arguments, symbolic zeros | each operand and result is the one meant |
| Memory effects (`Passes/MarkFunctionMemoryEffectsPass.cpp`) | visit states, topological order, effect tables | depth first search, collection, propagation, attributes | attributes are trusted by later passes | recursion, limit of rounds, symbol references | an attribute never leaves out an effect |
| Partial symmetry (`Analysis/PartialSymmetry*`, HO 7730-7770) | a partition of the dimensions of every value | a transfer rule per operation, meet, annotation, a transpose rewrite | the annotation pass leaves what the rewrite trusts | interplay of rules | a claimed exchange leaves the tensor as it is |
| Tensor rewrites (`Passes/EnzymeHLOOpt.cpp`, `Utils.cpp`) | the module | several hundred patterns, a greedy driver | every pipeline | side conditions; patterns that meet each other's results | the meaning is kept, the driver stops |
| While loops (`Implementations/WhileLoopInfo.cpp`, HO 30566-30932, 32500-33240) | bounds, step, affine indices and ranges of the values of a body | trip counts, two propagations, folds, windows of carried tensors | many patterns | integer widths, negative steps, guesses about unknown indices | the count is that of the loop, what is known of a value holds in every iteration |
| Batching (`Passes/AutoBatching.cpp`) | the module | reads of all iterations done at once | loop analysis | indices that leave the tensor or fall | each iteration gets its own part |
| Barriers (`Passes/ParallelLoopDistribute.cpp`, `BarrierElimination.h`) | effects between barriers, values that cross them | removal, caching, splitting, interchange | LowerJIT pipelines | all interleavings of the threads of a block; patterns that prepare for each other | same memory for every schedule, no barrier left, an end |
| Communication (`Passes/OptimizeCommunication.cpp`) | sharded tensors | permutes, halos, selections by device | the mesh of devices, XLA | pairing of sends and receives, branches only some devices take, sizes that do not divide | no deadlock, each device its part of the whole |
| Distributed dialects, MPI (`Dialect/Comm`, `Dialect/Distributed`, `LowerEnzymeXLAMPI.cpp`) | the module | one MPI call per operation | MPI | - | - |
| Parallel lowering (`ParallelLower.cpp`, GPU kernels) | the module | lowering of kernels to loops | LowerJIT pipelines | - | - |
| Module clean-up (`RemoveDuplicateFuncDef` and others) | symbol tables | merging, erasing, renaming | symbol uses | uses that are not calls | uses and meanings kept |
| Handlers (`xla_ffi`, `cpu.cc`, `gpu.cc`, `Integrations/c`) | none beyond registration | FFI glue | XLA | - | - |
| Compilation drivers (`clang_compile.cc`, `compile_with_xla.cc`, `raise.cpp`) | none | calls of clang, LLVM, XLA | environment | may fail | - |
| Dialects, derivative rules, raising, math/BLAS lowering, batching, transform operations, polymer, Tessera | the module | rewrites between dialects | - | see [Not modelled](#not-modelled) | - |

The first ten are modelled, each partly; `PROJECT.json` says for every part what is
left out. Hazards are listed there, one by one, at the line where they bite.

## Modules

| Module | Models | Role |
|---|---|---|
| `KernelMemo` | - | abstract specification of the JIT: a memo table |
| `JitCache` | `Passes/LowerJIT.cpp` | the JIT step by step, and its refinement mapping to `KernelMemo` |
| `JitCacheProofs` | | 8 theorems |
| `KernelRegistry` | `enzyme_call.cc` | create, get and run, step by step |
| `KernelRegistryProofs` | | 7 theorems |
| `MemoryEffects` | `Passes/MarkFunctionMemoryEffectsPass.cpp` | the whole pass |
| `MemoryEffectsProofs` | | 9 theorems: order, summaries, recursion, arguments, rounds |
| `EnzymePrimitive` | `primitives.py` | one equation carried through JAX's transformations |
| `FoldLemmas` | | lemmas on folds over a set, sums, and lists built by a loop that appends none, one or two entries a turn |
| `EnzymePrimitiveProofs` | | 5 theorems |
| `Tensors` | external: meaning of StableHLO operations | reference for the analysis |
| `TensorLemmas` | | lemmas on the operations of `Tensors`: which dimensions of a result may be swapped |
| `PartialSymmetry` | `Analysis/PartialSymmetryAnalysis.cpp`, `Passes/PartialSymmetryAnnotate.cpp`, HO | programs with their tensors and annotations |
| `PartialSymmetryProofs` | | 4 theorems |
| `Windows` | external: meaning of slice, pad, concatenate, update, reverse, reshape; `Utils.cpp`, `Dialect/Ops.cpp`: of the operations on halos | reference for the rewrites |
| `WindowRewrites` | HO, `Utils.cpp` | 26 patterns on windows and the greedy driver |
| `HaloRewrites` | HO | `WindowRewrites` with 36 patterns on halos, in a recognising and a lowering pass |
| `WhileLoopInfo` | `Implementations/WhileLoopInfo.cpp`, HO | what is found out about a loop, what is folded in its body, and the loop running |
| `WhileLoopInfoProofs` | | 5 theorems |
| `LoopWindows` | HO, `Passes/AutoBatching.cpp` | `WhileLoopInfo` with a carried tensor, its reads and updates |
| `Cpuify` | `Passes/ParallelLoopDistribute.cpp`, `Passes/BarrierElimination.h` | the patterns of the cpuify pass, and threads that run the result |
| `Communication` | `Passes/OptimizeCommunication.cpp` | patterns on sharded rows, and devices that run the result |
| `MC*` | | instances |

A definition whose name is that of an action with an addition (`FindRecompiles`,
`SummariseOverwrites`, `PlaceUnskipped`...) is the same code with a plausible bug; it is
part of no specification. `PROJECT.json` pairs each with the property that
tells it from the code.

### JitCache

`jitkernels` maps the text of a submodule to the code made for it, to `NullInfo`
(compilation failed; the null is cached), or to `Absent`. `jit_kernel_mutex` is its
owner. `JIT` is the LLJIT instance in use, 0 for none; `built` counts the instances.
`dylibs` holds the pairs of an instance and the number that names a library.
Each actor has a `pc`:

| Action | Code |
|---|---|
| `Request`, `Acquire` | the pass calls `CompileCall`, which cuts out and prints the submodule (688-859) and takes the lock (866) |
| `Refuse` | the exits before the lock: a callee without a function type, and the option `jit` off (861); null is returned, whatever the cache holds |
| `Find` | the lookup under the key (868), null entries included |
| `Pipeline`, `Translate` | the pass pipelines, whose failure returns without an entry (872-945); the translation of `CompileHostModule`, whose failure is stored as null |
| `InitCheck`, `InitCreate`, `InitGenerator` | the three statements of `initJIT` whose order matters, for compiling threads and for `EnzymeJaXMapSymbol`, which takes no lock (251) |
| `CreateDylib`, `DefineSymbols`, `Lookup` | 350-382: the library named after `jitkernels.size()`, the module added, the symbols found |
| `Store`, `Release` | the entry (949) and the return |
| `MapSymbol`, `MapInsert` | `EnzymeJaXMapSymbol` |

`alive` becomes false where the code dereferences a null `JIT`: a mapper whose creation
of the instance failed goes on all the same. `raced` records that the host mapped a
symbol while a pass ran; nothing in the code prevents it, and it is kept
so that what depends on it is visible: `NoDanglingCode` speaks of the time before, the rest does not.
`JitOff` are the options under which the pass does not compile.

`KernelMemo` is the promise: the first answer made for a text is recorded for good,
every later request gets it; a request that gave up before anything was made leaves no
record. A client that wants no code (`wants` FALSE) is answered null even when there is a record.
`Memo == INSTANCE KernelMemo WITH` maps `memo` to `jitkernels`, `wants` to the option `jit`
and a client's status to groups of labels.

### KernelRegistry

`kernels` maps a number to a kernel, `heap` the kernels to their sources,
`last_identifier` is the next number, `programs` the numbers baked into lowered programs
and what they were lowered from, `JIT` whether there is an instance, `dylibs` the
numbers used for library names. `create` holds `kernel_mutex` throughout and throws out of
each of its stages (`Throw` releases the lock as the destructor does; the number
stays used up). `Get` takes the reader lock; `Run` is outside it. `NeverFatal` is
false once `Callback` fails to find a number (306) and ends the process.

### MemoryEffects

The search is an explicit stack whose frames are the activations of `dfs` with the
callees left to look at; at a back edge all of them return at once and their nodes stay
`Visiting`. `CollectDirect` is the walk over the functions
in the order, `Forward` the pass over an acyclic graph, `Backward` and `EndRound`
the rounds for a graph with cycles, `Attach` the attributes. A body is a set of
operations with callee, operands, own effects and the argument they are on.
`RefsMatch` is FALSE for a module that has a name: `getFullReference` (262) prefixes
it, calls do not (377). `assume` and `max_iterations` are the options of the pass.

What a call does to an argument (`UseEffects`) is of three kinds: what the callee is said to do at the
position the argument is passed at, if the symbol of the callee is found; every effect, if it is not
(167-171); and none, if the callee is a value and not a symbol, for then `handleCallOpInterface` returns
before it inserts anything (161). The position is the first operand that equals the
argument (`ArgIndex`, 145). So `AcyclicArgSummarised`, that an argument is said to undergo all that calls
may do to it, is not true of the code, which the run `effects_indirect` shows; `AcyclicFirstArgSummarised`
is the part that is, for calls of a symbol and the first position. As operations of a function (`DirectEffects`),
calls through values have every effect.

`changed` is assigned by every node of a round, and the last one calls nothing the search ordered, so there is one
round at most (`OneRound`). Where `max_iterations` allows none the pass assumes every effect of functions (421) and
leaves the tables of arguments as they are.

### EnzymePrimitive

One equation `eqn`: its primitive, its operands and results as roles (`In(i)`, `Tangent(i)`,
`Cotangent(j)`, `Tape`, `Out(j)`, `Grad(i)`), the maps `inIdx` and `outIdx` from positions to
arguments and results, and the `enzyme-wrap` request with its activities. `Jvp`, `PartialEval`, `Transpose` rewrite it by the rules
of the pipeline in use (`mlirAd` TRUE is `JaXPipeline`, FALSE `XLAPipeline` and C++), and
`Lower*` build the call: `call.given` is what the code passes, `call.expected` what the
differentiated function takes, `call.results` what comes back. `kept` is the set of
arguments the function uses; the others are dropped by the lowering. Positions count from 1.
Python exceptions are statuses.

### PartialSymmetry and Tensors

A program is built one operation at a time, with the tensor it computes and the
annotation the transfer rule gives: in straight-line code the solver visits every
operation once, after its operands. `exact` marks operations whose rule is
right for these operands; where it is not (a rule the code does not have,
so that the value stays fully symmetric; an exchange that only holds for all
free dimensions at once), the definition beside the rule says when. `Truthful`
compares with the tensors; `symmetry_unknown.cfg` and `symmetry_exchange.cfg` show a false claim of each of the two kinds.

### WindowRewrites, HaloRewrites and Windows

A program is the sequence of its results, trees of nodes that carry the tensor they
denote (symbolic elements: a tensor's entries are the names of input elements, so equal
tensors are equal for every input). An action is a pattern: guard from its early returns,
replacement from its builder calls, at any node (`Become` is the replacement and
the uses it keeps). Patterns: NoopSlice, SliceSlice, SliceSimplify, SlicePad,
SliceConcat, SliceOfDynamicUpdate, SliceDUSToConcat, SliceReverse, PadSimplify,
NegativePadToSlice, PadPad, ConcatFuse, ConcatSlice, ConcatMultiPad, ConcatPad,
PadConcatToConcatPad, ConcatToPad, ConcatSlicesToReverse, NoopReverse,
DynamicUpdateSliceElim, DynamicUpdateToConcat, DUSPad, DUSConcat, DUSDUSConcat,
DUSDUS, DUSSliceSimplify.

`HaloRewrites` adds what the library calls halos: `wrap`, `extend` and `rotate`, which surround a
tensor by parts of itself, an update that leaves the corners, and `multi_slice`, `multi_rotate` and `multi_pad`,
each of which returns several neighbouring windows at once (a node is one result, `Results` all
of an operation). One pass recognises them in concatenations of slices, moves and widens them; a later
one lowers them again (HO 36388-36396). `lowering` says which pass runs; the other patterns are in both.

| Group | Patterns |
|---|---|
| `Recognize` | RecognizeRotate, RecognizeWrap, RecognizeExtend, RecognizeUpdateWithoutCorners, RecognizeMultiSlice, RecognizeMultiRotate, RecognizeMultiPad |
| `Lower` | LowerWrap, LowerExtend, LowerRotate, LowerMultiSlice, LowerMultiRotate, LowerMultiPad |
| `Widen` | WidenWrap, WidenExtend, ConcatWrap |
| `Move` | the folds of halos of nothing, SimplifyBoundary, ExtendToBroadcast, RotatePad, ExtendPad, SliceInternal, SliceOfUpdateWithoutCorners, Slice-, Transpose- and ReshapeExtend, -Wrap and -Rotate, ReshapeSlice, ReduceUnusedMultiSlice, ReduceUnusedMultiRotate |

Several patterns omit a condition they depend on. The model keeps them as they are,
gives `Become` that condition as a second argument, and `exact` records whether every
rewrite so far met it; a program is not followed further once one did not. Each
condition was checked to be necessary: without it `ExactKeepsValue` fails.

| Pattern | Condition the code leaves out |
|---|---|
| ConcatSlice (`Utils.cpp` 2869) | the first of two strided slices ends on a whole stride |
| PadPad (HO 11310) | the inner pad does not remove what the outer adds |
| ConcatMultiPad (HO 4568) | the second pad has nothing behind it |
| PadConcatToConcatPad (HO 22437, 22480) | no common padding along the dimension of the concatenation, no inner padding |
| DUSSliceSimplify (HO 13235) | unit strides and an update inside the slice |
| SliceReverse (HO 15257) | a range that is not empty |
| SliceOfDynamicUpdate, SliceDUSToConcat, DUSDUSConcat, DUSDUS | starts that are in range, as no clamp is applied |
| DUSDUSConcat (HO 2515) | the later update does not cover the head of the earlier one |
| SliceConcat, ConcatFuse | something is left to concatenate |
| RecognizeWrap (HO 24158) | neither side is longer than what it is taken from |
| RecognizeExtend (HO 323, 330) | the strides along the other dimensions are those of the edge |
| WidenWrap, WidenExtend (HO 4662, 4741) | the slice is of the tensor that is wrapped; the result is not longer than that |
| WidenExtend (HO 4920) | nothing is extended on that side yet: it takes every position of an extension for a copy of the outermost one, LowerExtend (1358) for a copy of the positions next to it |
| SliceInternal (HO 1796) | the slice is not of the part behind, which is looked up behind the operand |
| ReduceUnusedMultiRotate (HO 34587) | no amount becomes negative, which `MultiRotateOp::verify` rejects |
| RecognizeMultiPad (HO 34665) | no padding is negative |

### WhileLoopInfo

A loop is a start, a limit, a body of operations in two's complement and the position of
the next induction variable. `phase` is what the pass does: `affine`
(`Propagate` is one round of the worklist of `propagateAffineIndexInfo`,
`SliceOfIota` its second half), `bounds` (`Visit` is one operation of
`propagateBounds`; it is visited once, so the order of visits, which is that of lists of uses, is open),
`fold` (`Annotate`, `Rewrite`, `EndRound` are RemoveNoOpsFromWhileLoop, HO 30566-30932, applied until
nothing changes), and at last `run`, where `Iterate` executes an iteration of the loop as
given. Entries of `affine` and `bounds` are cut to their width with `Wrap` where the
code uses `APInt`.

`guessed` is the set of values whose entry came from looking up an index that has none:
`operator[]` of the map then makes a zero of one bit (`WhileLoopInfo.cpp` 393). `exact` becomes false when a bound
wrapped around or a rewrite of a kind that is wrong was made (`IsExact`). `clean` says
that no value left its width so far; the properties about ranges assume it, because
XLA's integers wrap and the pass takes for granted that they do not.

`WellFormedLoop` says which loops may be given, as the verifiers of the operations do:
operands are computed before their users, are as many as an operation takes and as wide as
it is (conversions and indices apart), and start, limit and next induction variable have
`Width` bits. Bodies may have any length and loops any bounds.

`AffineTruthful` holds in every iteration, those that overflow included, while the body
is as given. After a rewrite it is stated up to the first overflow only: the folds trust ranges that an overflow
breaks, so that a loop whose last step passes over its limit and around (start 3, limit 7, step 3
in four bits) computes other values than it did.

### LoopWindows

The body reads one window and carries one tensor; both are trees of `dynamic_slice` and
`dynamic_update_slice`. `WhileDUSDS` and `WhileDUSDUS` (HO 32828, 33069) simplify windows of windows whose
places stand in a known relation, `RemoveLoopCarried` (AutoBatching 1842) reads the
initial tensor instead of the carried one, `BatchRead` and `BatchIndex` do the reads and the indices of all
iterations ahead of the loop, `WhileIsCopy` (AutoBatching 2028) replaces a loop by one
update. After any of them the given loop runs beside the rewritten trees, and the
properties compare. Tensors' elements are names, so equal means equal for all inputs.

`faithful` records that each rewrite met the conditions the code leaves out:

| Rewrite | Condition |
|---|---|
| RemoveLoopCarried | the index is not constant and was not guessed; the step is not zero (the pattern asks for a step, AutoBatching 1846, and for nothing of it) |
| BatchRead, WhileIsCopy | the places of the outermost iterations are in the tensor; if the index falls, the last one is reached |
| BatchIndex (AutoBatching 1277) | the step is one: the code scales `iota + step * start`, not `step * iota + start` (`WhileLoopInfo.cpp` 562 has it right) |
| WhileIsCopy | the updates have one element and distinct places |

### Cpuify

`prog` is a function: host operations and parallel loops of one dimension, whose bodies are trees of
`if`, `for` and `while` over loads, stores, additions and barriers, in SSA names. `Rewrite`
applies any pattern of the pass's four methods anywhere, until none applies
(`Options` is empty); then the function runs: `Step` is a thread
that touches shared memory, `LeaveBarrier` all of them passing a barrier. What threads do on their
own happens at once (`Alone`): no other thread can tell.

| Definition | Code |
|---|---|
| `BarrierElim` with `Around`, `Inside` | `BarrierElimination.h`: effects before and after a barrier, as far as the next barriers and beyond, through enclosing loops |
| `IsRecomputable`, `MinCut`, `Cut` | values crossing a barrier: recomputed, cached by each thread, or the minimum cut of both (344-486, 873-1024) |
| `WrapWithBarriers`, `InterchangeForIf`, `InterchangeWhile`, `HoistBarrierIf`, `DistributeIf`, `Reg2MemFor`, `Reg2MemIf`, `DistributeAroundBarrier` | the patterns of these names |
| `Execute`, `Settled`, `Hosted` | external: scf, memref and arith |

The execution of the function as given is deterministic (each given function is free of races), so `expected` is
computed once (`Outcome`). `faithful` leaves out three patterns where they are wrong:
HoistBarrierIf clones stores of the prefix to the host and, for an `if` without
`else`, makes all that surrounds it conditional; DistributeIf evaluates a recomputable condition ahead of
the loop, before writes that precede an earlier barrier; Reg2MemIf sinks a
store past other writes to its place, because it looks for reads only.

Two more were met and are modelled as they are: wrapAndDistribute looks for the second barrier
it inserted in the block around the loop (it stays, and a later pattern takes it); a `while` whose condition is
not computed in its own first region is not interchanged in the model, as the code would use a
value out of its scope.

### Communication

A program is a tree of nodes `[op, in, n, at]`: operation, operands, size, attributes. It
denotes a row, a tensor of one dimension, sharded over `mesh.shards` devices along one axis of a mesh;
`mesh.other` devices lie along the rest, and `mesh.minor` says whether
neighbours along the axis have consecutive partition ids. Each pattern of the pass is an action
of its name: some replace an operation on the whole tensor by pads, sums, selections and
rotations, the others by a manual computation (`*_manual`), a body that every device
runs on its shards. After any number of rewrites `Launch` starts a manual computation whose operands are known;
each device then goes through its `Permutes`, giving its part to its targets (`Send`) and
waiting for that of its source (`Receive`), and when all have done so `Gather` puts together what they
return (`Returned`). XLA either branches, so that a device runs only the permutes of its branch of a
conditional, or runs both branches and keeps one result: `flattened`.

| Definition | Code |
|---|---|
| `ShiftPairs`, `SplitHalfPairs` | `generateShiftPairs`: sources and targets, for all devices, for the edges, and for the two halves |
| `Idx`, `InMiddle` | `getChecksForBoundaries`: tests on the partition id |
| `NonEdge*`, `Edge*`, `ExtendEdgeResult` | the bodies of the branches of a wrap or extend |
| `LeftShard` ... `InOperand` | `multiDimensionalSelect`: which elements come from which operand |
| `Configurations` | `getWrapExtendConfiguration`: halos of one size and a result that divides |
| `PadUndefined` | `padWithUndefinedValueInDim`: a slice is padded with its surroundings; what is undefined is 0 here, and no property may depend on it |

`faithful` records the conditions the code leaves out. Each was seen to be necessary: without it
`ComputesGlobal` fails.

| Pattern | Condition the code leaves out |
|---|---|
| PeriodicConcatSimplify, WrapCommOptimize, ExtendCommOptimize | two devices along the dimension: with four, the start of the right half (419) wraps around, and the permute of the inner devices (1072) is expected of edge devices that are in the other branch |
| the same | the partition id modulo the devices is the coordinate (764), as on the last axis |
| PeriodicConcatSimplify | the joined slice divides and a halo fits in a shard; the wrap checks it |
| ExtendCommOptimize | both sides are equal: they are handed to `getWrapExtendConfiguration` in the other order |
| MultiRotateSpmdOptimize | two devices: the left halo is asked from the wrong side (2895; the comments at 2888 and 2891 have the right one); when it pads, no left amount and one axis |
| ConcatTwoOperandsCommOptimize | never right: the body returns all it holds and not a shard's worth (its test is disabled) |
| DUSToPadComm, DUSOfConcatSlicesOptimize | a start that is not clamped |
| ConcatTwoDUSLike, ExtendDUSLike, DUSToPadManualCompComm | a mesh of one axis: the partition id is compared with shard numbers |
| DUSToPadManualCompComm | its test that the size divides, by the size of a shard rounded down, is right |
| ConcatToPadCommOptimize | an operand that is not zero: with zeros only it goes on to read the first summand of none, which is undefined |

Abstracted: rows in place of tensors with several dimensions (a dimension that is not communicated is copied
along); devices leave a manual computation together, which no other device can tell; a send never waits
for its receiver.

## Runs

| Run | Instance | Asks | Properties |
|---|---|---|---|
| `jit_cache` | 2 threads, 1 mapper, texts with 0, 1 and 2 `gpu.module`s, options with jit on and off, 2 calls per thread, 2 mappings at any time | is the cache a memo table whatever the host does, and safe until the host maps during a pass | TypeOK, CompilersHoldLock, DylibNameFresh, NoDanglingCode, OneKernelPerText, EntriesArePermanent, ImplementsMemo, RequestsReturn |
| `registry` | 3 threads, 2 sources, numbers up to 2 | does every program run its own live kernel after failures and during growth | RunsOwnKernel, NeverFatal, DylibNameFresh; deadlock |
| `effects` | every graph of plain calls of 3 functions, every mix of the other operations in 2 (indirect calls, arguments passed twice), every order of roots, `max_iterations` 0 and 8 | is the order right, recursion found, every effect summarised that the code means to, what becomes of the rounds | TypeOK, TopoSorted, UnannotatedIffRecursive, AcyclicSummarised, AcyclicFirstArgSummarised, OneRound, ExhaustedSummarised |
| `effects_cycle` | f calls g calls h beside a recursive r | do the rounds reach a fixed point | Summarised (violated) |
| `effects_indirect` | f hands its argument to a function it was given | does an argument undergo what it is said to | AcyclicArgSummarised (violated) |
| `primitive_maps` | up to 4 arguments, 3 results, both pipelines, every set of used arguments | is every operand and result the right one, in every composition | OperandsMatch, ResultsMatch, AssertionsHold, FirstOrderRaisesOnly |
| `symmetry` | 3 values of rank up to 3, sides 2 and 3, every operation | are claims true, and is the transpose rewrite right | ExactTruthful, RewriteKeepsValue |
| `window_rewrites` | 7200 programs of two or three windows, of halos next to, over and under them, of several results; both passes | do the patterns keep the meaning, does the driver stop | ExactKeepsValue, ReachesFixpoint |
| `loops` | 4 bits, bodies of an increment and two operations, steps from -2 to 3 | is what the pass knows of a loop so in every iteration, are folds right, do the rounds end | TypeOK, AffineTruthful, CountsTrips, BoundsTruthful, FoldsKeepValue, AnalysisEnds |
| `loop_windows` | 5 bits, tensors of four, trees of up to two windows, loops of up to three iterations and, with a step of zero, the first eight of endless ones | do rewritten, hoisted and copied windows hold what they should | WindowsKeepValue, BatchKeepsValue, CopyKeepsValue |
| `cpuify` | 26 functions, 3 threads, 7 ways to run the pass | same memory for every schedule, no barrier left, an end | KeepsMemory, NoBarrierLeft, Converges; deadlock |
| `communication` | about 1800 operations on rows of up to 8, on lines of two to four devices and grids of two by two, up to two rewrites | do the devices make what the operation on the whole tensor makes, does none wait for ever | ComputesGlobal, DevicesFinish |

Why the bounds are enough:

- Two threads and a mapper give every race there is on one lock and one lazily created
  object; two calls per thread let a thread meet its own entry, the other's, and a
  null one; the second mapping meets an instance it did not build. The theorems cover
  every number of threads, texts and calls.
- `MaxId` 2 allows a failed number before a published one and two live kernels; calls of
  `create` that were under way when the bound was reached still take numbers, so four occur.
  Programs go on running after that, and kernels for other platforms (`CreateElsewhere`,
  number `UNKNOWN_PLATFORM`, 9 here) are asked for at any time.
- Three functions have every shape of acyclic graph of depth three, cycles of each
  length, and a cycle beside an acyclic part; call arguments swap so that effects on
  arguments cross. `IterationLimits` has 8, with which the rounds end by themselves, and 0, with which
  the pass gives up; no number beyond 0 makes a difference, since there is one round at most (`RoundsNeverRepeat`).
- Four arguments and three results exceed both numbers at which the index maps
  differ: an argument that is dropped before, between and after others, and more
  results than arguments.
- Tensors with each partition of one or two dimensions and, in three, with none, one and all
  pairs symmetric (the others are their transposes); generic in everything
  else (one prime per orbit, so that a false claim changes an entry).
- Vectors of three allow a window at the start, in the middle and at the end, empty
  ones, and strides that do not divide; squares allow patterns that distinguish a
  dimension from the others. A vector of three or four has halos shorter than, as long as and longer than it is, and
  neighbours that go on with the halo, with the operand or with neither. The longest sequence of rewrites has 14 steps;
  `MaxRewrites` is 16, so `ReachesFixpoint` would see a longer one. (The code's own
  limit, 100 iterations, is further away.)
- Four bits hold every sign, the wraparound at both ends, and conversions to three and five
  bits; `MaxIters` 16 is more than a loop without overflow can run. Tensors of four let windows of
  one and two meet in every way at indices that rise, fall, stand still and jump by two; `Width` 5 there keeps these
  indices in range.
- Three threads, each reading its neighbour, make a missing barrier show: with two, the pairs that
  race are the same in both directions. No sequence of rewrites is longer than 14;
  `MaxRewrites` is 15.
- On two devices the neighbours before and after are the same, so three (and four) tell the direction of a shift;
  four have inner devices in both halves, and the patterns that need an even number. The second axis of a grid
  tells the partition id from the coordinate when it is the minor one, and adds replicas. Rows
  of up to eight have sizes that divide and that do not, halos up to a whole shard and, in
  the cases the code refuses or forgets to, beyond. With two rewrites a pattern meets the pads, slices
  and rotations another one made.

Symmetry is declared for threads and sources in `registry`, which has no liveness property. `CHECK_DEADLOCK FALSE` stands where the program ends: a pass finishes, threads
run out of calls, a lowered equation is done, a loop or a program has run. `registry` never ends and checks it, and so does
`cpuify`, where the end is a step of its own and threads that wait at different barriers would be stuck.

Fairness. `RequestsReturn` assumes weak fairness of the steps of each thread: an OS
scheduler runs a thread that can run. The mutex is not assumed to be fair; it need not
be, because each thread makes finitely many calls. It says *unless the process died*:
a mapper without an instance kills it. `AnalysisEnds` assumes weak fairness of the steps of the
loop analysis, since the pass is one thread and all that is asked is that it keeps running, and nothing of the loop. `DevicesFinish` assumes weak fairness of each device and of
the gathering of results, since a device that can run does, and nothing of the compiler;
`Receive` is enabled only once its row is there.

### What the runs found

Two runs show the code do something else than it, or its documentation, says.

- `effects_cycle`: with recursion anywhere in the module the rounds stop too early.
  `changed` is assigned for every node (415), so the last node decides, and callers
  are visited before callees (396). A caller two calls away from a write is said not
  to write.
- `effects_indirect`: a call through a function pointer adds no effect to the arguments it is given
  (161), where an unknown symbol adds every one. An argument that is only handed on this
  way is said not to be accessed.

Other places where the code is not right as it stands are conditions of the models: the properties of the passing runs
hold with them, and fail without. Where the smallest program that shows it is worth keeping, a
configuration beside the runs has it; it is no part of them, and TLC finds its only property violated within seconds.

| Configuration, module | Property | Shows |
|---|---|---|
| `effects_named.cfg`, MCMemoryEffects | AcyclicSummarised | in a module with a name the tables are keyed by full paths (262) and calls name bare symbols (377): effects of callees are lost (`RefsMatch`) |
| `effects_repeated.cfg`, MCMemoryEffects | AcyclicArgSummarised | an argument passed twice in one call is looked up at its first position for both (145) |
| `effects_exhausted_args.cfg`, MCMemoryEffects | ExhaustedArgSummarised | when the pass gives up it fills the table of functions (421) and not that of arguments |
| `symmetry_exchange.cfg`, MCPartialSymmetry | AlwaysTruthful | the exchange of all free dimensions of a product at once is recorded as exchanges of single ones (285) |
| `symmetry_unknown.cfg`, MCPartialSymmetry | AlwaysTruthful | a result of an operation without a rule stays fully symmetric (524) |
| `windows_strided.cfg`, MCHaloRewrites | AlwaysKeepsValue | DUSSliceSimplify ends a slice of stride two where one of stride one would end (HO 13246) |
| `loops_unequal.cfg`, MCWhileLoopInfo | FoldsAlwaysKeepValue | NE of two values whose ranges do not meet is folded to false (HO 30729) |
| `cpuify_hoist.cfg`, MCCpuify | AlwaysKeepsMemory | HoistBarrierIf runs what is in front of the `if` once more for thread 0 (1931) |
| `comm_halves.cfg`, MCCommunication | AlwaysComputesGlobal | on four devices the start of the right half wraps around (419) |
| `comm_branches.cfg`, MCCommunication | DevicesAlwaysFinish | the inner two of four devices wait for a permute the edges never run (1072) |
| `comm_left_halo.cfg`, MCCommunication | AlwaysComputesGlobal | the left halo is asked from the wrong side (2895) |
| `comm_axis.cfg`, MCCommunication | AlwaysComputesGlobal | on a mesh of two axes the partition id is not the shard number (2940) |

An `Always...` property is the one of the passing run without its condition `exact` or `faithful`.
Conditions without such a configuration:

- `enzyme_vjp` reads `acts[i]`, one per argument, for every result (`primitives.py` 1377): more
  results than arguments is an IndexError (a status of the equation).
- DUSDUSConcat keeps the covered head of the earlier update instead of its tail (HO 2515).
- Loops: a remainder by a divisor whose range spans zero is folded (`IsExact`);
  `getConstantNumIters` gives at least one iteration for a negative step with start equal to limit,
  and divides by zero for a step of zero; `getNumIters` is not rounded up (216), unlike its constant sibling; ranges
  ignore wraparound; a conversion keeps the affine entry of a wider or narrower value.
- The description of `multi_pad` (`Dialect/EnzymeXLAOps.td` 465) counts results by the padding in front;
  RecognizeMultiPad and LowerMultiPad, and so the model, by the padding behind.
- The rest of the tables of [WindowRewrites](#windowrewrites-halorewrites-and-windows), [LoopWindows](#loopwindows) and
  [Communication](#communication), and of the list of [Cpuify](#cpuify).

Beside these, the cache does not know the options of the pass (868), so that an entry made
under other options is reused. Nothing in the code says that it should not be, so no
run is about it.

## Proofs

The eight proof modules hold 38 theorems, 484 lemmas and 17159 obligations. Assumptions on constants are named in
the module that declares them and evaluated by TLC in every run.

`JitCacheProofs`, for every set of threads, mappers and texts. Assumes
`ActorAssumption` (threads and mappers are disjoint), `TextAssumption` (finitely many
texts, needed for the size of the table), `TokenAssumption`, `BoundAssumption`,
`OptionAssumption` (`JitOff` are options).

- `TypeCorrect`: `TypeOK`, with `InstanceExists` (a code's instance was built).
- `MutualExclusion`: whoever is past `Acquire` owns the lock.
- `SameCodeForSameText`, `EntriesNeverChange`: `CacheInv` adds `MissedIsAbsent` (a thread
  past its lookup that will store finds its entry still absent, because it never let go
  of the lock) and `InHand` (a thread holds nothing until code is made, and what it returns is in the table).
  Without them `Store` might overwrite.
- `LibraryNamesAreFresh`: `NameInv` adds `NamesBelowSize`: a name in use is below the size of the
  table, or equals it while the thread that made the library is on its way to `Store`. It is
  the argument why naming libraries after `jitkernels.size()` is right although
  attempts fail: every attempt that made a library leaves an entry, if only a null one.
- `CodeNeverDangles`: until the host maps during a pass. `SerialInv` adds that until then a mapper that runs runs alone
  (`OneAtATime`), that an actor about to create found null and it still is (`CreateOnNull`),
  and that while `JIT` is null there is no code (`NullOwnsNothing`).
- `CacheImplementsMemo`: `Spec => Memo!MemoSpec`. `RefineInv` adds `MadeFromText`; each step
  is a step of the memo table or a stutter.

`KernelRegistryProofs`, for every set of threads and sources and every number
range. One invariant `IInv`: `TypeOK`, `Writer` (creators own the lock),
`FreshNumber` (the number in the hands of the creator is in no table and no library's
name yet), `Numbered` (numbers in use are below the counter), `Answered` (the
number in a program, or in the hands of a thread that runs one, names a live kernel of
its source or `UNKNOWN_PLATFORM`), `RunsOwnKernel`, `NeverFatal`.
Theorems `TypeCorrect`, `CallbackRunsOwnKernel`, `CallbackFindsKernel`,
`LibraryNamesAreFresh`, `NumbersIdentifySources`, and `PublishedKernelsStay` (action property).

`MemoryEffectsProofs`, for every finite or infinite set of functions and every call
graph whose bodies `ModulesAssumption` types.

- `TypeCorrect`.
- `OrderIsTopological`: `OrderInv` says that the visited nodes are those placed, the stack
  is the visiting ones without repetition, the callees a frame has dealt with are placed
  or on the stack (`FramesAreChecked`), and so that what is placed has its callees
  before it, unless a cycle was seen.
- `AcyclicIsSummarised` (assumes `RefsMatch`): without a cycle no attribute leaves
  out an effect of a function or of what it calls. `SummaryInv` says
  that direct effects are in the tables (`DirectIncluded`), that the functions the loop
  has passed contain the effects of their callees (`CalleesIncluded`), and that attributes are
  the tables (`AttributesAreTables`).
- `CycleFoundIffThere` and `RecursiveLeftUnannotated`: whichever root the search begins with,
  it reports a cycle exactly when there is one, and leaves without attributes exactly the functions that
  reach one. `SearchInv` adds to `OrderInv` that the stack is a path of calls (`StackIsPath`), that
  a function that was not reached is still among the roots
  (`RootsRemain`), that a function left Visiting off the stack calls one of its kind
  (`AbandonedCallAbandoned`) and that there is one just when a cycle was noted (`CycleIsNoted`), and that what is visited is
  not recursive (`VisitedNotRecursive`). The abandoned functions are then the set of functions that witnesses
  recursion; the other direction is that a visited function has only visited callees.
- `FirstPositionIsSummarised`: without a cycle, what is said of an argument
  contains what each call of a symbol is said to do at the first position it is passed at, and every effect where the
  symbol is not found. Nothing is assumed of references or of calls: they may pass an argument twice, and calls
  through values may be among the others. It claims nothing of those two, because the code gives nothing
  (`effects_indirect`, `effects_repeated.cfg`).
- `RoundsNeverRepeat`: with a cycle there is one round at most, and the pass gives up only if
  `max_iterations` allows none. `RoundsInv` says that while a round goes on and something changed last, a function is
  left for it to visit: what gains effects has a callee earlier in the order (`GainsFromEarlier`). It is the general
  form of what `effects_cycle` shows: no `max_iterations` lets a later round repair the first.
- `GivingUpIsSound`: where it gives up, every attribute contains what operations and callees do.

`EnzymePrimitiveProofs`, for every number of arguments and results, every set of arguments
the function uses, both kinds of pipeline. Assumes `BoundsAssumption` and
`MlirAdAssumption`. The run covers 4 arguments and 3 results at most; that no list of operands goes out of step
with its index map at a larger size is what the proof adds.

- `PrimitiveInvariant`: `PrimitiveInv` names the forms an equation can have. One level of
  differentiation leaves a fresh call, the forward call (`ForwardEqn`), its linear half (`LinearEqn`), the transposed
  call (`ReverseEqn`), or without MLIR the four calls `FwdEqn`, `AugEqn`, `ShadowEqn`, `RevEqn`,
  each written out as a list of operands, an index map, activities and results; a second level marks the
  pipeline (`Nested`) and nothing more is said of it than that its lowering does not succeed. The four properties are not inductive by themselves: they
  speak of a call once it was lowered, so the invariant has to say what every rule leaves to be lowered.
- `OperandsReachTheirParameters`, `ResultsReachTheirTakers`, `AssertionsNeverFail`,
  `RaisesForTheUnsupportedOnly` follow from it. Each action has its lemma (`JvpKeeps`, ..., `LowerRevKeeps`).

The second half of `FoldLemmas` is what those lemmas rest on. The rules build lists in a loop that appends the operand alone, or with
its tangent, or nothing. The length of such a list, the place where the entries of turn i begin and
which entries of one list stand beside which of another are facts about `FlattenSeq` of a
sequence of pieces, proved by induction on the number of turns, written as a set of naturals that holds 0 and
each successor, because induction theorems take an operator.

`PartialSymmetryProofs`, for programs of any length over tensors of any rank, shape and integer values. Assumes
`InputsAssumption` (inputs are tensors) and `WidthsAssumption`. The run has tensors of rank 3 at most and
sides 2 and 3. The model's own bound on `Dot` remains: up to two batching and two contracting pairs.

- `SymmetryInvariant`: `SymmetryInv` says of every value that its annotation, where it is exact, joins only
  dimensions in `Swaps` of its tensor, and that a transpose still is the transposition of the operand it names
  (on which both the alias test and the rewrite rely); and of every replaced
  value that the two are equal where exact and are exact alike (`StandsFor`), which is what makes a rewrite
  through values that were replaced before right.
- `AnalysisIsTruthful` (`ExactTruthful`) and `SimplifyKeepsValue` (`RewriteKeepsValue`) follow from it.
- `TypeCorrect`: every annotation is a canonical partition (a set has the name of its least dimension, so equal
  partitions are equal annotations), because uniting two sets keeps that, in whatever order
  pairs are united; and operands and substitutes are earlier values, so rewrites make no circle.

The argument: the pairs of dimensions that may be swapped are an equivalence (`SwapsEquivalence`), so uniting sets pair
after pair, which is all a rule does, is right as soon as each pair is (`UnitedRespects`).
What is left is one fact per operation, in `TensorLemmas`: a transpose carries swaps along its permutation, a broadcast
along its dimensions, elementwise operations keep the swaps of both operands, and `x + transpose(x)` gains the
two that were moved. For dot_general, batching and free dimensions are swapped inside each term of the sum
(`BatchingRule`, `LeftRule`, `RightRule`). The exchange of a free dimension of the left operand with one of the right
(`DotExchangeRule`) swaps the factors of every term and permutes the terms: equal counts of contracting dimensions per set
give a permutation of at most two (`CountedSets`, `TwoPaired`), and the sum does not depend on
the order of its terms, which the first half of `FoldLemmas` proves of `MapThenSumSet`. The conditions of `ExchangeExact` (one
free dimension on either side, at most two contracting ones, a permutation that is its own inverse) are used at just these places.

`WhileLoopInfoProofs`, for loops of any length, width, bounds and constants, any number of iterations and
any values loaded. Assumes `WidthAssumption` (two bits at least: in one bit there is no step of one),
`LoopsAssumption`, `DataAssumption`, `MaxItersAssumption`. `LoopsAssumption` has `WellFormedLoop` of each loop and, since the
provers know no more of `2^w` than its type, the equations that define it for the widths in use (`Doubling`). A loop's values are a
recursive function; what it computes is taken from its equation, by induction on positions in the body
(`IterationValues`, with `UpTo` of `FoldLemmas`).

- `TypeCorrect`: `Types` adds that the body keeps its shape under rewriting (`SameShape`: operations, widths and numbers of
  operands, each operand still computed earlier), that an entry made by looking an index up has no scale,
  that ranges and marks are those of values no wider than the induction variable, and that what is left to fold
  was visited and can be folded.
- `FoldsKeepValueHolds`, `BoundsTruthfulHolds`, `AffineTruthfulHolds`, `CountsTripsHolds` follow from one invariant `Inv`. The analysis speaks
  of the loop as a whole while `Iterate` runs it, so `Inv` quantifies over iterations, not only over the one at hand:
  - `SoundOn(Starts(loop))`: in every clean iteration that starts between start and limit, operands
    and aliases have the values of what they replaced, values lie within the ranges found and
    within the marks of earlier rounds, and entries are linear with scale and offset up to multiples of `2^Width`. It holds as long as
    `exact` does. Each operation of `computeBounds` and each fold has its lemma (products and
    quotients of ranges by their four corners, remainders by the sign of the dividend).
  - `Fresh \/ CountsUp`: ranges are made for constant trip counts above zero only (`Rewritable`), and
    then the induction variable has one step and it is positive, or no iteration starts at all. Without it `Starts(loop)` would not be
    the iterations that run.
  - `Undisturbed`: a set of values each made from the induction variable, constants and each other by steps that cannot
    be folded (`Steady`) is left alone by every rewrite. The step is among them. That is why
    `CountsTrips` needs no `exact`: a wrong fold may change what the body computes, never how often it runs.
  - `Trips`: while nothing overflowed the induction variable is start plus iterations times step (`OnTrack`), or it
    has wrapped around to a value from which no clean iteration starts (`Stuck`): the same overflow that made
    the variable small again then stops `clean`.
  - `Plain`: while nothing is replaced, entries are right up to multiples of `2^Narrowest`, in iterations that overflow too: each result
    is cut at its width, and a narrower power of two divides a wider one (`PowersDivide`).

Only model-checked:
`WindowRewrites`, `HaloRewrites`, `LoopWindows`, `Cpuify` and `Communication` (recursive, over trees); `Summarised` and
`AcyclicArgSummarised`, which the code violates; the liveness properties
`RequestsReturn`, `AnalysisEnds` and `DevicesFinish`. That numbers identify sources and
published kernels stay, that a cycle is found if and only if there is one, and `TypeOK` of `PartialSymmetry` and `KernelRegistry`, are proved,
and not checked by a run of its own. Out of the prover's reach are
liveness under fairness, `ENABLED`, induction over data (what a recursive definition
computes for every input) and modules that reach a RECURSIVE operator.

## Not modelled

Within the modelled parts:

- LowerJIT: the walk over the module (a call whose operands do not fit is reported but does not
  fail the pass, 1033; callees are erased at the end, 1113), `rewriteKernelCallABI`,
  what the LLVM pipelines do, `MappedSymbols`.
- MemoryEffects: values derived from an argument by views or loads, operands of a call that are not call arguments
  (grid sizes and the like), a call whose callee is null, declarations that come with attributes.
- Kernel registry: data pointers of `call`, temporary and tape sizes, Python bindings.
- Primitives: types and shapes, the text of pipelines other than `enzyme-wrap`, `hlo_call`,
  `cpp_call` and export.
- Symmetry: control flow, results after the first, attributes on operations.
- Loops: loops in loops, several induction variables, unrolling, operations whose affine
  entry is that of another shape; windows of more than one dimension.
- Batching: equal operations outside loops, the batch interface.
- Barriers: Reg2MemWhile, NormalizeParallel, LowerCacheLoad, parallel loops of two
  dimensions or inside each other; two memories that may alias.
- Communication: RotateSpmdOptimize, MultiRotateCustomCallOptimize, MultiSliceCustomCallOptimize,
  MultiPadCustomCallOptimize, WrapCustomCallOptimize, whose results are custom calls that XLA expands;
  UpdateWithoutCornersToSelect (corners need two dimensions), ReorderAssociativeOp (order of additions only).
- Rewrites: equal nodes are one operation, starts and padding values are constant, shardings;
  ConcatToBroadcast, DUSDUSToDUSPad, ConcatConcatToDUS and folds of constants that are not splats; of the halos
  UseMultiRotateNeutralResult, DUSDUSToDUSExtend, ConcatConcatAxisSwap and those of elementwise operations
  (LowerUpdateWithoutCorners is what the operation means here); the other several hundred patterns.

Whole parts:

- Handlers and compilation drivers: glue without state; their success or failure is
  what the models of their callers choose.
- Dialects: definitions of operations. Polymer: conversion to libraries that
  hold the algorithms. Transform operations: generated wrappers.
- Derivative rules and multi-float lowering need real or floating point arithmetic.
- Distributed dialects and the lowering to MPI: definitions, and one call per operation.
- Raising, parallel lowering and math/BLAS lowering relate the semantics of whole dialects.
- `external/` (isl, Polly) is third-party.

## Plan

Done: 1. `KernelMemo`, `JitCache`, their proofs and runs; 2. `MemoryEffects`;
3. `EnzymePrimitive`; 4. `KernelRegistry`; 5. `PartialSymmetry`; 6. `WindowRewrites`, `HaloRewrites`;
7. `WhileLoopInfo`, `LoopWindows`; 8. `Cpuify`; 9. `Communication`.

Next, in this order:

1. `ModulePasses`: RemoveDuplicateFuncDef (83) and LowerJIT's walk over a symbol table with
   nested modules; composed with `JitCache`, so that a pass compiles several calls.
2. More patterns: broadcast, transpose and reshape.
   Derived argument values in `MemoryEffects`. Parallel loops of two dimensions in `Cpuify`.
3. Proofs: dot_general with any number of pairs in `PartialSymmetry`; the windows of
   `LoopWindows`, on top of the loop's invariant; that two phases without conflict commute.
