\* One disk item and two writes of others; or any two requests fail, two retries, two edits of
\* another user.
CONSTANTS
  Media = {"f", "g"}
  Collections = {"k", "l"}
  Tags = {1, 2, 3, 4}
  Starts <- MCStarts
  Plans <- MCPlans
  MaxFailures = 2
  MaxRetries = 2
  MaxEdits = 2
  Names = {"m", "n", "o", "a", "b", "f", "g", "l", "x"}
  Disks <- MCDisks
  Configured <- MCConfigured
  Targets <- MCTargets
  Measured <- MCMeasured
  Mutable <- MCMutable
  StopAt <- MCStopAt
  Cap = 2
  MaxItems = 1
  MaxWrites = 2
SPECIFICATION HandlersSpec
CHECK_DEADLOCK FALSE
INVARIANTS MergeLosesNoCarrier TagsAreAsShown HandedOutIsFresh WalksAreHonest
PROPERTIES StaysInside PassedMeansDone
