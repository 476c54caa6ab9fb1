SPECIFICATION FairSpec
CONSTANTS
  Ring = 2
  Total = 4
  MaxRuns = 2
  MaxOthers = 2
  MaxDrivers = 2
  Mishaps = {"moved", "entered", "resumed", "reconnected"}
CHECK_DEADLOCK FALSE
INVARIANTS   LabelTruthful 
PROPERTIES  RunEnds
