--------------------------- MODULE MCSnapshotCache ---------------------------
(***************************************************************************)
(* What is kept, for TLC.  A behavior looks at what the server remembers   *)
(* of its instances (SnapshotCache; ids, URLs and reads are                *)
(* interchangeable) or at its database over the releases (Migrations), the *)
(* other one staying as it began.                                          *)
(***************************************************************************)
EXTENDS SnapshotCache, Migrations, TLC

VARIABLE looked
all == <<looked, vars, databaseVars>>

KeptInit ==
  /\ looked \in {"caches", "upgrades"} /\ Init /\ DatabaseInit
  /\ (looked = "upgrades" => Listed = {})
CacheStep == looked = "caches" /\ Next /\ UNCHANGED <<looked, databaseVars>>
UpgradeStep == looked = "upgrades" /\ DatabaseNext /\ UNCHANGED <<looked, vars>>
KeptNext == CacheStep \/ UpgradeStep
KeptSpec == KeptInit /\ [][KeptNext]_all

Interchangeable == Permutations(Instances) \cup Permutations(PathReads) \cup Permutations(FleetReads) \cup Permutations(Servers)
=============================================================================
