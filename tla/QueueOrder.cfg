CONSTANTS
  build = build
  deploy = deploy
  Events = {build}
  MaxRuns = 3
  Configs <- QueueConfig
  MaxQueued = 3
  ScheduleBatch = 5
  FollowBatch = 2
  FullScan = TRUE
  Retention = FALSE
  Inputs = {"event"}
  Timed = {}
  MaxFirings = 3
  MaxStarts = 1
SPECIFICATION Spec
PROPERTY QueueOrder
CHECK_DEADLOCK FALSE
