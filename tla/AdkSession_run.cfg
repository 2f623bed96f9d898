CONSTANTS
  MaxModelCalls = 6
  FaultAttempts = 1
SPECIFICATION Spec
INVARIANTS
  
  SuccessIsEvidenced
CHECK_DEADLOCK FALSE
