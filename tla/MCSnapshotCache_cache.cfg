\* A path read and a fleet read that overlap, one change, one edit; a database of two
\* items, an event and an instance.
CONSTANTS
  Instances = {i1}
  Servers = {a, b}
  PathReads = {r1}
  FleetReads = {r2}
  MaxChanges = 1
  MaxEdits = 1
  ItemIds = {1, 2}
  EventIds = {1}
  InstanceIds = {1}
  Null = 0
SPECIFICATION KeptSpec
INVARIANTS SnapshotsAreFresh ViewsAreFresh UpgradesAreWhole
PROPERTIES UpgradesKeepRows
SYMMETRY Interchangeable
