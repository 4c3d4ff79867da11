CONSTANTS
  Programs <- CountsThenBranches
  Methods <- HoistOnly
  Threads = 3
  MaxRewrites = 15
SPECIFICATION Spec
INVARIANT AlwaysKeepsMemory
