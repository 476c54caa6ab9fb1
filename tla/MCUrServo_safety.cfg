SPECIFICATION FairSpec
CONSTANTS
  Ring = 2
  Totals <- Lengths
  MaxRuns = 2
  MaxStops = 1
  Faults <- Moves
CHECK_DEADLOCK FALSE
INVARIANTS DoneMeansExecuted OverMeansStopped RunIdxNeverAhead
PROPERTIES StopIsFinal ImplementsPathDelivery RunEnds
