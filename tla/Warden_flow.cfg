CONSTANTS
  Incidents = {"failing"}
  AttemptBudget = 1
  MaxAttempt = 2
  MaxProposals = 3
  MaxRestarts = 1
  ClassOf <- OneClass
SPECIFICATION Spec
INVARIANTS
  
  SuccessIsAuthoritative
  
PROPERTIES
  OutcomeIsFinal
CHECK_DEADLOCK FALSE
