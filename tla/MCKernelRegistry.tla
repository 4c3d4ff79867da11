-------------------------- MODULE MCKernelRegistry --------------------------
(***************************************************************************)
(* Small instances of KernelRegistry: threads that create and run kernels  *)
(* of two sources, up to a few numbers.                                    *)
(***************************************************************************)
EXTENDS KernelRegistry, TLC

RegistrySymmetry == Permutations(Thread) \union Permutations(Source)
=============================================================================
