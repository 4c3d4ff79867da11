SPECIFICATION Spec
CONSTANTS
  f = f
  g = g
  h = h
  r = r
  Func = {f, r}
  Unknown = Unknown
  NumArgs = 2
  Modules <- UnknownBesideCycle
  IterationLimits = {0}
  RefsMatch = TRUE
CHECK_DEADLOCK FALSE
INVARIANTS
  ExhaustedArgSummarised
