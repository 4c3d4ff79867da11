CONSTANTS
  Jobs <- BranchesJobs
  MaxRewrites = 2
  MaxDevices = 4
SPECIFICATION Spec
PROPERTY DevicesAlwaysFinish
CHECK_DEADLOCK FALSE
