CONSTANTS
  MaxCalls = 2
  MaxRestarts = 1
  MaxReloads = 2
  Recordings <- Recorded
SPECIFICATION LiveSpec
INVARIANTS
  CallsBounded
  
  SettledTogether
PROPERTIES
  NotYanked
CHECK_DEADLOCK FALSE
