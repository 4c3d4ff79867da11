SPECIFICATION Spec
CONSTANTS
  Thread = {t1, t2, t3}
  Source = {s1, s2}
  NoThread = NoThread
  MaxId = 2
  UNKNOWN_PLATFORM = 9
  NoSource = NoSource
SYMMETRY RegistrySymmetry
INVARIANTS
  RunsOwnKernel
  NeverFatal
  DylibNameFresh
