SPECIFICATION Spec
CONSTANTS
  Width = 4
  MaxIters = 16
  DataValues = {0, 2}
  Loops <- UnequalLoop
INVARIANT FoldsAlwaysKeepValue
CHECK_DEADLOCK FALSE
