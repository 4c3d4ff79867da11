SPECIFICATION Spec
CONSTANTS
  Width = 4
  MaxIters = 16
  DataValues = {0, 2}
  Loops <- MCLoops
INVARIANTS
  TypeOK
  AffineTruthful
  CountsTrips
  BoundsTruthful
  FoldsKeepValue
PROPERTY AnalysisEnds
CHECK_DEADLOCK FALSE
