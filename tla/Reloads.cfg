CONSTANTS
  build = build
  deploy = deploy
  Events = {build}
  MaxRuns = 3
  Configs <- ReloadConfigs
  MaxQueued = 1
  ScheduleBatch = 2
  FollowBatch = 1
  FullScan = FALSE
  Retention = FALSE
  Inputs = {"webhook", "reload", "cancel"}
  Timed = {build}
  MaxFirings = 2
  MaxStarts = 1
SPECIFICATION Spec
INVARIANT TypeOK
INVARIANT RunningCounts
INVARIANT AnswersAreRecorded
INVARIANT NoLostWakeup
PROPERTY ExclusiveStart
CHECK_DEADLOCK FALSE
