CONSTANTS
  Programs <- MCPrograms
  Methods <- MCMethods
  Threads = 3
  MaxRewrites = 15
SPECIFICATION Spec
INVARIANTS KeepsMemory NoBarrierLeft Converges
