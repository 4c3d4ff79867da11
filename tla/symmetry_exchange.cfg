SPECIFICATION Spec
CONSTANTS
  Inputs <- Unsymmetric
  Operation = {"argument", "dot"}
  MaxValues = 2
  MaxRank = 4
  Widths = {2}
CHECK_DEADLOCK FALSE
INVARIANT AlwaysTruthful
