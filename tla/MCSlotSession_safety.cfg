SPECIFICATION Spec
CONSTANTS
  Slots = {kr, ur}
  MaxSessions = 2
  JoinTimesOut = TRUE
SYMMETRY Symmetry
INVARIANTS ConnectedIsServed OneReader
