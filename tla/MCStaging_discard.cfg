SPECIFICATION StagingSpec
CONSTANTS
  Ids = {"radarr", "sonarr", "m1", "m2", "s1", "late", "li", "co"}
  Instances = {"radarr", "sonarr"}
  Media = {"m1", "m2", "s1", "late"}
  Lists = {"li"}
  Collections = {"co"}
  Owner <- MCOwner
  From <- A
  To <- MCTo
  Worlds <- MCWorlds
  Late = {}
  Kinds = {"remap", "reconcile", "delete"}
  MaxMeddling = 0
  Parts = {"drawer"}
  Lossless = TRUE
  MaxRows = 3
  MaxClicks = 4
PROPERTIES DiscardAllDiscards
CHECK_DEADLOCK FALSE
