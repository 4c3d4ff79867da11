SPECIFICATION Spec
CONSTANTS
  MaxArgs = 4
  MaxOuts = 3
  MlirAd = {TRUE, FALSE}
INVARIANTS
  OperandsMatch
  ResultsMatch
  AssertionsHold
  FirstOrderRaisesOnly
CHECK_DEADLOCK FALSE
