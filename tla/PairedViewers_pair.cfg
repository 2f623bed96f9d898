CONSTANTS
  Stories <- Conversations
  MaxActs = 2
  MaxNow = 3
SPECIFICATION Spec
INVARIANTS
  
  Converged
CHECK_DEADLOCK FALSE
