SPECIFICATION StagingSpec
CONSTANTS
  Ids = {"radarr", "sonarr", "m1", "m2", "s1", "late", "li", "co"}
  Instances = {"radarr", "sonarr"}
  Media = {"m1", "m2", "s1", "late"}
  Lists = {"li"}
  Collections = {"co"}
  Owner <- MCOwner
  From <- A
  To <- MCTo
  Worlds <- MCWorlds
  Late = {"late"}
  Kinds = {"remap", "reconcile", "delete"}
  MaxMeddling = 1
  Parts = {"chains", "drawer"}
  Lossless = FALSE
  MaxRows = 3
  MaxClicks = 2
INVARIANTS StagedAsShown BridgeSatisfiesTheGuard AlignedWhenDone MarksTellWhatIsStaged
PROPERTIES DropsFollowMoves
CHECK_DEADLOCK FALSE
