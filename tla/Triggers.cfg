CONSTANTS
  Schedule = {2, 4}
  MissedAfter = 1
  Inputs = {"reload", "stop", "crash", "back"}
  MaxClock = 5
  MaxStarts = 3
  MinSleep = 2
  MaxSlept = 6
  Callers = {c1, c2}
  HookConfigs = {"absent", "async", "wait"}
  MaxReloads = 1
  Names = {a, b, c, u}
  Undefined = {u}
  ref = ref
  tag = tag
  ParamNames = {ref, tag}
  ParamConfigs <- Definitions
  MaxRows = 2
SPECIFICATION TriggersSpec
INVARIANT NothingLost
INVARIANT TwiceOnlyAgain
INVARIANT SleepsFireOnce
INVARIANT RowForAnswer
INVARIANT VerdictRight
INVARIANT CommandGetsParams
INVARIANT MissingExplained
PROPERTY TimesAreHandled
PROPERTY ServerCloses
CHECK_DEADLOCK FALSE
