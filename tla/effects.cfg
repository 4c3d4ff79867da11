SPECIFICATION Spec
CONSTANTS
  f = f
  g = g
  h = h
  r = r
  Func = {f, g, h}
  Unknown = Unknown
  NumArgs = 2
  Modules <- EveryGraph
  IterationLimits = {0, 8}
  RefsMatch = TRUE
CHECK_DEADLOCK FALSE
INVARIANTS
  TypeOK
  TopoSorted
  UnannotatedIffRecursive
  AcyclicSummarised
  AcyclicFirstArgSummarised
  OneRound
  ExhaustedSummarised
