CONSTANTS
  Programs <- MCPrograms
  MaxRewrites = 16
SPECIFICATION HaloSpec
INVARIANTS
  ExactKeepsValue
  ReachesFixpoint
CHECK_DEADLOCK FALSE
