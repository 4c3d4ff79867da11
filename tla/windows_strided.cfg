CONSTANTS
  Programs <- StridedCut
  MaxRewrites = 16
SPECIFICATION HaloSpec
INVARIANT AlwaysKeepsValue
CHECK_DEADLOCK FALSE
