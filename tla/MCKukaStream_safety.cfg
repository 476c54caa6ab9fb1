SPECIFICATION FairSpec
CONSTANTS
  Ring = 3
  Advance = 2
  Totals <- AroundRing
  MaxRuns = 2
  MayFail = TRUE
INVARIANTS RightPoint RingWindow
PROPERTIES ImplementsPathDelivery StreamCompletes
CHECK_DEADLOCK FALSE
