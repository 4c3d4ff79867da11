SPECIFICATION Spec
CONSTANTS
  f = f
  g = g
  h = h
  r = r
  Func = {f, g}
  Unknown = Unknown
  NumArgs = 2
  Modules <- PassesTwice
  IterationLimits = {8}
  RefsMatch = TRUE
CHECK_DEADLOCK FALSE
INVARIANTS
  AcyclicArgSummarised
