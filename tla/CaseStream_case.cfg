CONSTANTS
  Threshold = 2
  WindowEvents = 3
  MaxOutputTokens = 2
  MaxArrivals = 5
  Cases <- KnownCases
SPECIFICATION Spec
INVARIANTS
  SplitIsWhole
  SuccessHasItsReceipts
  
  FindingsAreExact
  TimelineMatchesManifest
  
  OperatorIsAsked
  PointersLandHome
PROPERTIES
  ClaimsPersist
  
CHECK_DEADLOCK FALSE
