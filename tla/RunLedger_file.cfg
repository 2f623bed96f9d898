CONSTANTS
  r1 = r1
  r2 = r2
  Runs = {r1, r2}
  Versions = {"open", "closed"}
  Events = {"a", "b"}
  MaxSequence = 2
  MaxLines = 4
SPECIFICATION Spec
SYMMETRY LedgerSymmetry
INVARIANTS
  CutCostsOneLine
  
PROPERTIES
  ImplementsView
CHECK_DEADLOCK FALSE
