SPECIFICATION Spec
CONSTANTS
  f = f
  g = g
  h = h
  r = r
  Func = {f, g}
  Unknown = Unknown
  NumArgs = 2
  Modules <- CallsWriter
  IterationLimits = {8}
  RefsMatch = FALSE
CHECK_DEADLOCK FALSE
INVARIANTS
  AcyclicSummarised
