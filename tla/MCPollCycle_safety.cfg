SPECIFICATION FairSpec
CONSTANTS
  AuxEvery = 2
  MaxVarFailures = 2
  MaxSamples = 1
  FloatExponent = 2
INVARIANTS RefreshSoon 
PROPERTIES RecordingShownEnds  RowCommandFreshUndisturbed
CHECK_DEADLOCK FALSE
