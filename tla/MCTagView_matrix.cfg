CONSTANTS
  Instances = {"r", "s"}
  Enabled = {"r", "s"}
  Mute = {"r"}
  Labels = {"uuhd", "uhd", "Uhd", "hd"}
  Uses = {"media", "collections"}
  Worlds <- MCWorlds
  Drifting <- MCDrifting
  Replaced <- MCReplaced
  MaxLoads = 2
  MaxRequests = 2
  MaxDrift = 1
  MaxClicks = 4
SPECIFICATION Spec
CHECK_DEADLOCK FALSE
INVARIANTS BatchesDoWhatTheirButtonsSay
