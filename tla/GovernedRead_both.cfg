CONSTANTS
  MaxCrashes = 1
  Programs <- BothPrograms
SPECIFICATION Spec
INVARIANTS
  FaultsBounded
  
  InterventionFirst
CHECK_DEADLOCK FALSE
