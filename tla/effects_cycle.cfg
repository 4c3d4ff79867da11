SPECIFICATION Spec
CONSTANTS
  f = f
  g = g
  h = h
  r = r
  Func = {f, g, h, r}
  Unknown = Unknown
  NumArgs = 2
  Modules <- ChainBesideCycle
  IterationLimits = {8}
  RefsMatch = TRUE
CHECK_DEADLOCK FALSE
INVARIANTS
  Summarised
