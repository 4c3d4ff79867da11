SPECIFICATION Spec
CONSTANTS
  f = f
  g = g
  h = h
  r = r
  Func = {f}
  Unknown = Unknown
  NumArgs = 2
  Modules <- CallsValue
  IterationLimits = {8}
  RefsMatch = TRUE
CHECK_DEADLOCK FALSE
INVARIANTS
  AcyclicArgSummarised
