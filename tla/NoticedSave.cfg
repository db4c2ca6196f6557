CONSTANTS
  Inputs = {}
  MaxInputs = 2
SPECIFICATION Spec
INVARIANT WatchedSavesReload
CHECK_DEADLOCK FALSE
