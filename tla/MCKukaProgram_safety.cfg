SPECIFICATION ProgramFairSpec
CONSTANTS
  Ring = 3
  Plans <- Texts
  MaxPrograms = 2
  MaxStops = 1
  Overlap = FALSE
CHECK_DEADLOCK FALSE
INVARIANT EventsBeforePoints
PROPERTY ProgramEnds
