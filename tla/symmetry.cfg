SPECIFICATION Spec
CONSTANTS
  Inputs <- SmallTensors
  Operation = {"argument", "constant", "transpose", "broadcast", "negate", "add", "subtract", "dot"}
  MaxValues = 3
  MaxRank = 3
  Widths = {2, 3}
CHECK_DEADLOCK FALSE
INVARIANTS
  ExactTruthful
  RewriteKeepsValue
