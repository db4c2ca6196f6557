CONSTANTS
  Requests = {"user", "replaced", "shutdown"}
  Children = {c1, c2}
  Web = Web
  Job = Job
  WebOut = WebOut
  JobOut = JobOut
  Streams <- RunnerStreams
  RunOf <- RunnerRunOf
  MaxUnits = 3
  MaxPending = 1
  MaxSize = 2
  Backups = 2
  MaxFailures = 1
  Events = {e}
  MaxRuns = 4
  Settings <- RunnerSettings
  MaxRestarts = 5
SPECIFICATION RunnerSpec
INVARIANT NoChildSurvives
INVARIANT KilledInOrder
INVARIANT StoppedForReason
INVARIANT KeptIsSuffix
INVARIANT KeptInOrder
INVARIANT LinesWhole
INVARIANT AllWritten
INVARIANT LastAttemptReported
INVARIANT WholeChainReported
INVARIANT WaitsDouble
PROPERTY ImplementsContract
PROPERTY RunsReturn
PROPERTY WaitEnds
CHECK_DEADLOCK FALSE
