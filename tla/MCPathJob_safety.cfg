SPECIFICATION FairSpec
CONSTANTS
  Robots = {"UR", "XARM"}
  Points = 2
  MaxRuns = 2
  MaxStops = 1
  MaxOthers = 2
CHECK_DEADLOCK FALSE
INVARIANTS BusyTruthful 
PROPERTIES  NoPathInServoMode RunEnds
