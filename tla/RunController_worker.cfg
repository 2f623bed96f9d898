CONSTANTS
  r1 = r1
  r2 = r2
  Runs = {r1, r2}
  Driver = "worker"
  Senders = {}
  Batches = {}
  MaxSequence = 3
  MaxModelCalls = 1
  PerRunCallCeiling = 1
  TotalCallBudget = 1
  LaunchMayFail = TRUE
  MaxCrashes = 1
SPECIFICATION WorkerSpec
INVARIANTS
  CompletedHasItsEnd
  CallsMatchEvidence
  BudgetHolds
  SlotInvariant
PROPERTIES
  ImplementsLifecycle
  SlotIsFreed
CHECK_DEADLOCK FALSE
