SPECIFICATION FairSpec
CONSTANTS
  cpuText = cpuText
  gpuText = gpuText
  pairText = pairText
  Thread = {t1, t2}
  Mapper = {m1}
  Text = {cpuText, gpuText, pairText}
  Option = {serial, nojit}
  JitOff = {nojit}
  NumGPU <- MCNumGPU
  NoOwner = NoOwner
  Absent = Absent
  NullInfo = NullInfo
  MaxCalls = 2
  MaxMaps = 2
CHECK_DEADLOCK FALSE
INVARIANTS
  TypeOK
  CompilersHoldLock
  DylibNameFresh
  NoDanglingCode
  OneKernelPerText
PROPERTIES
  EntriesArePermanent
  ImplementsMemo
  RequestsReturn
