CONSTANTS
  build = build
  deploy = deploy
  Events = {build, deploy}
  MaxRuns = 3
  Configs <- LiveConfigs
  MaxQueued = 1
  ScheduleBatch = 1
  FollowBatch = 1
  FullScan = FALSE
  Retention = FALSE
  Inputs = {"event", "webhook", "reload"}
  Timed = {}
  MaxFirings = 2
  MaxStarts = 1
SPECIFICATION LiveSpec
PROPERTY QueueDrains
PROPERTY EndsFollowed
PROPERTY CallersAnswered
CHECK_DEADLOCK FALSE
