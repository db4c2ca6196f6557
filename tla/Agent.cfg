CONSTANTS
  Inputs = {"hangup", "stop", "failure", "invalid"}
  MaxInputs = 3
SPECIFICATION FairSpec
INVARIANT NoSaveForgotten
INVARIANT NoChangeForgotten
INVARIANT OneSetOfTriggers
PROPERTY SavesTakeEffect
PROPERTY ChangesAreFired
CHECK_DEADLOCK FALSE
