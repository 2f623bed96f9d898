CONSTANTS
  r1 = r1
  r2 = r2

  Runs = {r1, r2}
  NoId = NoId
  s1 = s1
  s2 = s2
  Slots = {s1, s2}
  Driver = "mcp"
  Senders = {1}
  Batches <- PageBatches
  MaxSequence = 2
  MaxModelCalls = 1
  PerRunCallCeiling = 1
  TotalCallBudget = 3
  LaunchMayFail = FALSE
  MaxCrashes = 1
SPECIFICATION PageSpec
SYMMETRY TickSymmetry
INVARIANTS
  SuccessShownIsRecorded
PROPERTIES
  ShownCursorAdvances
  
  ReplayStable
CHECK_DEADLOCK FALSE
