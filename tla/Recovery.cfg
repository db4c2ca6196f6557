CONSTANTS
  build = build
  deploy = deploy
  Events = {build, deploy}
  MaxRuns = 5
  Configs <- FollowConfig
  MaxQueued = 1
  ScheduleBatch = 4
  FollowBatch = 2
  FullScan = FALSE
  Retention = TRUE
  Inputs = {"event", "stop", "crash"}
  Timed = {build}
  MaxFirings = 2
  MaxStarts = 3
SPECIFICATION Spec
INVARIANT RowsMatchRuns
INVARIANT AfterOnce
INVARIANT QueueBounded
INVARIANT RetryChain
PROPERTY ImplementsRunQueue
CHECK_DEADLOCK FALSE
