CONSTANTS
  build = build
  deploy = deploy
  Events = {build}
  MaxRuns = 2
  Configs <- QueueConfig
  MaxQueued = 3
  ScheduleBatch = 5
  FollowBatch = 2
  FullScan = TRUE
  Retention = FALSE
  Inputs = {"webhook", "cancel"}
  Timed = {}
  MaxFirings = 2
  MaxStarts = 1
SPECIFICATION FairSpec
PROPERTY CallersAnswered
CHECK_DEADLOCK FALSE
