SPECIFICATION WSpec
CONSTANTS
  Width = 5
  MaxIters = 8
  DataValues = {0, 2}
  Loops <- MCLoops
INVARIANTS
  WindowsKeepValue
  BatchKeepsValue
  CopyKeepsValue
CHECK_DEADLOCK FALSE
