SPECIFICATION FairSpec
CONSTANTS
  Slots = {kr}
  MaxSessions = 3
  JoinTimesOut = FALSE
PROPERTIES MirrorsOwnSession SlotCatchesUp
