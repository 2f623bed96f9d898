CONSTANTS
  Records <- Script
  MaxRecords = 3
  MaxRotations = 1
SPECIFICATION Spec
INVARIANTS
  TailIsWhole
  SpawnFirst
CHECK_DEADLOCK FALSE
