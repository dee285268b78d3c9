SPECIFICATION StagingSpec
CONSTANTS
  Ids = {"radarr", "sonarr", "m1", "m2", "s1", "late", "li", "co"}
  Instances = {"radarr", "sonarr"}
  Media = {"m1", "m2", "s1", "late"}
  Lists = {"li"}
  Collections = {"co"}
  Owner <- MCOwner
  From <- A
  To <- MCTo
  Worlds <- MCWorlds
  Late = {}
  Kinds = {"reconcile"}
  MaxMeddling = 0
  Parts = {"chains"}
  Lossless = TRUE
  MaxRows = 2
  MaxClicks = 0
PROPERTIES NoneLeftBehind
CHECK_DEADLOCK FALSE
