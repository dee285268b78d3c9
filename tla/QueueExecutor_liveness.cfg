\* Fair executor, handlers and recovery: runs settle, cancel answers.
CONSTANTS
  MaxItems = 2
  MaxBatch = 1
  MaxRuns = 1
  RecoverLimit = 1
  Instances = {radarr}
  Policies = {"pause", "continue", "abort"}
  Disk = disk
SPECIFICATION FairSpec
PROPERTIES RunsSettle CancelReturns
