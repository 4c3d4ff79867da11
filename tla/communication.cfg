CONSTANTS
  Jobs <- MCJobs
  MaxRewrites = 2
  MaxDevices = 4
SPECIFICATION Spec
INVARIANT ComputesGlobal
PROPERTY DevicesFinish
CHECK_DEADLOCK FALSE
