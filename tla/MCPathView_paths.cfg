\* What is chosen for the dialogs is in the module.
CONSTANTS
  i1 = i1
  i2 = i2
  Worlds <- MCWorlds
  Configured <- MCConfigured
  Mounts <- MCMounts
  FirstWorld = "before"
  Filters <- MCFilters
  NoFilter = "all"
  Scopes = {{}, {i2}}
  FullLevelEntries = 3
  DefaultLimit = 3
  FlatLimit = 2
  MaxRequests = 2
  MaxActs = 3
  Ids = {"r", "l", "x"}
  Situations <- MCSituations
  FolderRows <- MCFolderRows
  Offered <- MCFolderRows
  Switchable <- MCSwitchable
  TypedPaths <- MCTypedPaths
  Drafts <- MCDrafts
  PreflightLimit = 2
  KindsOpened = {"disk", "bulk", "create", "switch"}
  MaxClicks = 4
  MaxEdits = 4
  MaxChecks = 2
SPECIFICATION ViewSpec
INVARIANTS AtRestTheTreeIsAsAsked TheTreeReachesTheRootFolders TheFlatListIsWhole StagedAsJudged ExpansionFollowsTheGrammar
CHECK_DEADLOCK FALSE
