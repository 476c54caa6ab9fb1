SPECIFICATION PromptSpec
CONSTANTS
  Ring = 4
  Advance = 3
  Totals <- AroundRing
  MaxRuns = 2
  MayFail = TRUE
INVARIANTS IdxTracksMotion
PROPERTIES RunCompletes
CHECK_DEADLOCK FALSE
