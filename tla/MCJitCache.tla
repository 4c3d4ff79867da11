----------------------------- MODULE MCJitCache -----------------------------
(***************************************************************************)
(* Small instances of JitCache: two threads, each compiling a module of up *)
(* to MaxCalls calls, a host thread mapping symbols, and submodules with   *)
(* no, one and two gpu.modules.                                            *)
(***************************************************************************)
EXTENDS JitCache, TLC

CONSTANTS cpuText, gpuText, pairText

MCNumGPU == [x \in Text |-> CASE x = cpuText -> 0 [] x = gpuText -> 1 [] x = pairText -> 2]
=============================================================================
