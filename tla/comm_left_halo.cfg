CONSTANTS
  Jobs <- LeftHaloJobs
  MaxRewrites = 2
  MaxDevices = 4
SPECIFICATION Spec
INVARIANT AlwaysComputesGlobal
CHECK_DEADLOCK FALSE
