CONSTANTS
  MaxModelCalls = 6
  FaultAttempts = 1
SPECIFICATION Spec
INVARIANTS
  SucceededMeansRead
CHECK_DEADLOCK FALSE
