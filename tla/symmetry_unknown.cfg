SPECIFICATION Spec
CONSTANTS
  Inputs <- Matrices
  Operation = {"argument", "subtract"}
  MaxValues = 3
  MaxRank = 2
  Widths = {2}
CHECK_DEADLOCK FALSE
INVARIANT AlwaysTruthful
