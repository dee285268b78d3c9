\* Two items, two runs: runs that follow each other, with crashes, retries and deletions under them.
CONSTANTS
  MaxItems = 2
  MaxBatch = 2
  MaxRuns = 2
  RecoverLimit = 1
  Instances = {}
  Policies = {"pause", "continue"}
  Disk = disk
SPECIFICATION Spec
INVARIANTS TypeOK SafetyHalt OneOpenRun RunningMeansExecuting NothingStranded
PROPERTIES ImplementsLifecycle ClosingCountsAreFresh BegunOncePerLaunch
