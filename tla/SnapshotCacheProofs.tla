--------------------------- MODULE SnapshotCacheProofs ---------------------------
(***************************************************************************)
(* The database client's tables: that upgrades are whole and keep every    *)
(* row (UpgradesAreWhole, UpgradesKeepRows of Migrations), for any ids and *)
(* instances, any releases one after the other, and a process that stops   *)
(* wherever it likes; and that what the cache of snapshots answers is      *)
(* fresh (SnapshotCache), for every number of instances, servers,          *)
(* overlapping reads, changes and edits.                                   *)
(***************************************************************************)
EXTENDS SnapshotCache, Migrations, TLAPS

-------------------------------------------------------------------------------
(* Part 1: upgrades.  What every database holds, and where the process is.   *)

RowsTyped ==
  /\ instances \subseteq InstanceIds
  /\ DOMAIN items \subseteq ItemIds /\ \A i \in DOMAIN items : items[i] \in Row

\* The files are recorded in their order, and none is newer than the release.
InOrder ==
  /\ release \in 1 .. Latest /\ userVersion \in 0 .. release
  /\ recorded = 1 .. userVersion

\* The schema is that of the last file, and every row passes its checks.
SchemaIsOf ==
  /\ ops = IF userVersion = 0 THEN {} ELSE OpsOf[userVersion]
  /\ resources = IF userVersion = 0 THEN {} ELSE ResourcesOf[userVersion]
RowsPass ==
  /\ \A i \in DOMAIN items : Passes(items[i], ops)
  /\ \A s \in snapshots : s[2] \in resources

\* Foreign keys are off while files are applied, and only then.
Places ==
  /\ pc \in {"down", "migrating", "serving"}
  /\ pc = "migrating" => foreignKeys = FALSE
  /\ pc = "serving" => foreignKeys = TRUE /\ userVersion = release

UpgradeInv == RowsTyped /\ InOrder /\ SchemaIsOf /\ RowsPass /\ Linked /\ Places

LEMMA InvMeansWhole == UpgradeInv => ServedDatabaseIsWhole
<1>1. OpsOf[7] = QueueOps /\ ResourcesOf[7] = SnapshotResources
  BY DEF OpsOf, ResourcesOf, Ops007, QueueOps, Resources006, SnapshotResources
<1>2. QED
  BY <1>1 DEF UpgradeInv, InOrder, SchemaIsOf, RowsPass, Places, ServedDatabaseIsWhole, Latest

\* The file that is next follows the last one that was applied.
LEMMA NextFile ==
  ASSUME InOrder, NEW f \in PendingFiles(release), \A g \in PendingFiles(release) : f <= g
  PROVE  f = userVersion + 1 /\ f \in 1 .. Latest
<1>1. userVersion + 1 \in PendingFiles(release)
  BY DEF InOrder, PendingFiles, Latest
<1>2. QED
  BY <1>1 DEF InOrder, PendingFiles, Latest

\* A later file allows what an earlier one did, but for the op the last one deletes.
LEMMA ChecksGrow ==
  ASSUME NEW f \in 2 .. Latest
  PROVE  /\ OpsOf[f - 1] \ {"importList.create"} \subseteq OpsOf[f]
         /\ f # 7 => OpsOf[f - 1] \subseteq OpsOf[f]
         /\ ResourcesOf[f - 1] \subseteq ResourcesOf[f]
<1>1. f \in {2, 3, 4, 5, 6, 7}
  BY DEF Latest
<1>2. QED
  BY <1>1 DEF OpsOf, Ops001, Ops002, Ops003, Ops005, Ops006, Ops007, ResourcesOf, Resources001, Resources004, Resources006

\* What a file copies: every row but those it deletes, as it is but for its link to one of those.
LEMMA CopiedRows ==
  ASSUME NEW f, RowsTyped
  PROVE  /\ DOMAIN Copied(f) = DOMAIN items \ IF f = 7 THEN Doomed ELSE {}
         /\ \A i \in DOMAIN Copied(f) :
              /\ i \in DOMAIN items /\ f = 7 => items[i].op # "importList.create"
              /\ Copied(f)[i] \in Row
              /\ Copied(f)[i].op = items[i].op /\ Copied(f)[i].instance = items[i].instance
              /\ Copied(f)[i].dependsOn = Cleared(items[i].dependsOn, f)
BY DEF Copied, Cleared, Doomed, RowsTyped, Row

LEMMA CopiesPass ==
  ASSUME UpgradeInv, NEW f \in PendingFiles(release), \A g \in PendingFiles(release) : f <= g
  PROVE  /\ \A i \in DOMAIN Copied(f) : Passes(Copied(f)[i], OpsOf[f])
         /\ \A s \in snapshots : s[2] \in ResourcesOf[f]
<1>1. f = userVersion + 1 /\ f \in 1 .. Latest /\ userVersion \in Nat
  BY NextFile DEF UpgradeInv, InOrder
<1>2. CASE userVersion = 0
  BY <1>2, CopiedRows DEF UpgradeInv, SchemaIsOf, RowsPass, Passes
<1>3. CASE userVersion # 0
  <2>1. f \in 2 .. Latest /\ f - 1 = userVersion
    BY <1>1, <1>3
  <2>2. ops = OpsOf[f - 1] /\ resources = ResourcesOf[f - 1]
    BY <1>3, <2>1 DEF UpgradeInv, SchemaIsOf
  <2>3. \A i \in DOMAIN Copied(f) : items[i].op \in OpsOf[f]
    <3>1. TAKE i \in DOMAIN Copied(f)
    <3>2. /\ i \in DOMAIN items /\ items[i].op \in OpsOf[f - 1]
          /\ f = 7 => items[i].op # "importList.create"
      BY <2>2, CopiedRows DEF UpgradeInv, RowsPass, Passes
    <3>3. QED
      BY <2>1, <3>2, ChecksGrow
  <2>4. \A i \in DOMAIN Copied(f) : Passes(Copied(f)[i], OpsOf[f])
    <3>1. TAKE i \in DOMAIN Copied(f)
    <3>2. /\ i \in DOMAIN items /\ Copied(f)[i].op = items[i].op /\ Copied(f)[i].instance = items[i].instance
      BY CopiedRows DEF UpgradeInv
    <3>3. items[i].op \in OpsOf[f] /\ (items[i].instance = Null <=> items[i].op = "fs.mkdir")
      BY <2>3, <3>2 DEF UpgradeInv, RowsPass, Passes
    <3>4. QED
      BY <3>2, <3>3 DEF Passes
  <2>5. \A s \in snapshots : s[2] \in ResourcesOf[f]
    BY <2>1, <2>2, ChecksGrow DEF UpgradeInv, RowsPass
  <2>6. QED
    BY <2>4, <2>5
<1>4. QED
  BY <1>2, <1>3

-------------------------------------------------------------------------------
(* The start of the process.                                                 *)

LEMMA UpgradeApply ==
  ASSUME UpgradeInv, NEW f, ApplyFile(f)
  PROVE  UpgradeInv'
<1>1. f = userVersion + 1 /\ f \in 1 .. Latest /\ userVersion \in Nat /\ f \in 1 .. release /\ recorded = 1 .. userVersion
  BY NextFile DEF UpgradeInv, InOrder, ApplyFile, PendingFiles
<1>2. /\ items' = Copied(f) /\ events' = Links(f) /\ instances' = instances /\ snapshots' = snapshots
      /\ ops' = OpsOf[f] /\ resources' = ResourcesOf[f] /\ recorded' = recorded \cup {f} /\ userVersion' = f
      /\ release' = release /\ pc' = pc /\ foreignKeys' = foreignKeys /\ pc = "migrating"
  BY DEF UpgradeInv, Places, ApplyFile, Rebuild, process
<1>3. RowsTyped /\ Linked
  BY DEF UpgradeInv
<1>4. RowsTyped'
  BY <1>2, <1>3, CopiedRows DEF RowsTyped
<1>5. InOrder'
  BY <1>1, <1>2 DEF UpgradeInv, InOrder
<1>6. SchemaIsOf'
  BY <1>1, <1>2 DEF SchemaIsOf
<1>7. RowsPass'
  BY <1>2 DEF ApplyFile, Rebuild, RowsPass, Passes
<1>8. Linked'
  <2>1. \A i \in DOMAIN items' : /\ items'[i].instance \in instances' \cup {Null}
                                 /\ items'[i].dependsOn \in DOMAIN items' \cup {Null}
    <3>1. TAKE i \in DOMAIN items'
    <3>2. /\ i \in DOMAIN items /\ items'[i].instance = items[i].instance
          /\ items'[i].dependsOn = Cleared(items[i].dependsOn, f)
          /\ DOMAIN items' = DOMAIN items \ IF f = 7 THEN Doomed ELSE {}
      BY <1>2, <1>3, CopiedRows
    <3>3. items[i].instance \in instances \cup {Null} /\ items[i].dependsOn \in DOMAIN items \cup {Null}
      BY <1>3, <3>2 DEF Linked
    <3>4. QED
      BY <1>2, <3>2, <3>3 DEF Cleared
  <2>2. \A e \in DOMAIN events' : events'[e] \in DOMAIN items' \cup {Null}
    BY <1>2, <1>3, CopiedRows DEF Linked, Links, Cleared
  <2>3. QED
    BY <1>2, <1>3, <2>1, <2>2 DEF Linked
<1>9. Places'
  BY <1>2 DEF UpgradeInv, Places
<1>10. QED
  BY <1>4, <1>5, <1>6, <1>7, <1>8, <1>9 DEF UpgradeInv

\* Nothing but the process changes.
LEMMA ProcessStep ==
  ASSUME UpgradeInv, UNCHANGED <<rows, schema>>, release' \in 1 .. Latest, userVersion <= release', Places'
  PROVE  UpgradeInv'
BY DEF UpgradeInv, rows, schema, RowsTyped, InOrder, SchemaIsOf, RowsPass, Passes, Linked

LEMMA InvProcess ==
  ASSUME UpgradeInv, (\E r \in release .. Latest : Boot(r)) \/ Recheck \/ Stop
  PROVE  UpgradeInv'
<1>1. /\ release \in 1 .. Latest /\ userVersion \in 0 .. release /\ recorded = 1 .. userVersion
  BY DEF UpgradeInv, InOrder
<1>2. ASSUME NEW r \in release .. Latest, Boot(r)
      PROVE  UpgradeInv'
  <2>1. r \in 1 .. Latest /\ userVersion <= r
    BY <1>1, <1>2 DEF Latest
  <2>2. PendingFiles(r) = {} => userVersion = r
    BY <1>1, <2>1 DEF PendingFiles, Latest
  <2>3. Places'
    BY <1>2, <2>2 DEF Boot, Places, schema
  <2>4. QED
    BY <1>2, <2>1, <2>3, ProcessStep DEF Boot
<1>3. ASSUME Recheck
      PROVE  UpgradeInv'
  <2>1. userVersion = release
    BY <1>1, <1>3 DEF Recheck, PendingFiles, Latest
  <2>2. Places' /\ release' = release
    BY <1>3, <2>1 DEF Recheck, Places, schema
  <2>3. QED
    BY <1>1, <1>3, <2>1, <2>2, ProcessStep DEF Recheck
<1>4. ASSUME Stop
      PROVE  UpgradeInv'
  <2>1. Places' /\ release' = release
    BY <1>4 DEF Stop, Places
  <2>2. QED
    BY <1>1, <1>4, <2>1, ProcessStep DEF Stop, Latest
<1>5. QED
  BY <1>2, <1>3, <1>4

-------------------------------------------------------------------------------
(* Writes of a release that serves.                                          *)

\* Nothing but the rows changes.
LEMMA RowsStep ==
  ASSUME UpgradeInv, UNCHANGED <<schema, process>>, RowsTyped', RowsPass', Linked'
  PROVE  UpgradeInv'
BY DEF UpgradeInv, schema, process, InOrder, SchemaIsOf, Places

LEMMA InvStages ==
  ASSUME UpgradeInv, NEW i \in ItemIds, NEW row \in Row, Stage(i, row)
  PROVE  UpgradeInv'
<1>1. RowsTyped /\ RowsPass /\ Linked /\ foreignKeys
  BY DEF UpgradeInv, Places, Stage
<1>2. /\ DOMAIN items' = DOMAIN items \cup {i} /\ items'[i] = row
      /\ \A j \in DOMAIN items : items'[j] = items[j]
      /\ UNCHANGED <<instances, events, snapshots, schema, process>>
      /\ ops' = ops /\ resources' = resources
  BY DEF Stage, schema
<1>3. row.instance \in instances \cup {Null} /\ row.dependsOn \in DOMAIN items \cup {Null} /\ Passes(row, ops)
  BY <1>1 DEF Stage
<1>4. RowsTyped'
  BY <1>1, <1>2 DEF RowsTyped
<1>5. RowsPass'
  BY <1>1, <1>2, <1>3 DEF RowsPass, Passes
<1>6. Linked'
  BY <1>1, <1>2, <1>3 DEF Linked
<1>7. QED
  BY <1>2, <1>4, <1>5, <1>6, RowsStep

LEMMA InvLogs ==
  ASSUME UpgradeInv, NEW i \in ItemIds, NEW e, Log(e, i)
  PROVE  UpgradeInv'
<1>1. RowsTyped /\ RowsPass /\ Linked
  BY DEF UpgradeInv
<1>2. /\ UNCHANGED <<instances, items, snapshots, schema, process>> /\ ops' = ops /\ resources' = resources
      /\ DOMAIN events' = DOMAIN events \cup {e} /\ i \in DOMAIN items
      /\ \A d \in DOMAIN events' : events'[d] = i \/ (d \in DOMAIN events /\ events'[d] = events[d])
  BY DEF Log, schema
<1>3. RowsTyped' /\ RowsPass' /\ Linked'
  BY <1>1, <1>2 DEF RowsTyped, RowsPass, Passes, Linked
<1>4. QED
  BY <1>2, <1>3, RowsStep

\* Whoever depends on a row of the cascade is in it.
LEMMA CascadeIsClosed ==
  ASSUME NEW S \in SUBSET DOMAIN items, NEW j \in DOMAIN items, items[j].dependsOn \in Cascade(S)
  PROVE  j \in Cascade(S)
BY DEF Cascade

LEMMA CascadeHolds ==
  ASSUME NEW S \in SUBSET DOMAIN items
  PROVE  S \subseteq Cascade(S)
BY DEF Cascade

\* Rows are deleted with their dependents and their events.
LEMMA DeletesKeep ==
  ASSUME UpgradeInv, foreignKeys, NEW S \in SUBSET DOMAIN items, Without(Cascade(S)),
         instances' \subseteq instances, snapshots' \subseteq snapshots,
         \A i \in DOMAIN items \ S : items[i].instance \in instances' \cup {Null},
         \A s \in snapshots' : s[1] \in instances',
         UNCHANGED <<schema, process>>
  PROVE  UpgradeInv'
<1>1. RowsTyped /\ RowsPass /\ Linked /\ ops' = ops /\ resources' = resources
  BY DEF UpgradeInv, schema
<1>2. /\ DOMAIN items' = DOMAIN items \ Cascade(S)
      /\ \A i \in DOMAIN items' : i \in DOMAIN items \ S /\ items'[i] = items[i]
  BY CascadeHolds DEF Without
<1>3. \A e \in DOMAIN events' : e \in DOMAIN events /\ events'[e] = events[e] /\ events[e] \notin Cascade(S)
  BY DEF Without
<1>4. RowsTyped' /\ RowsPass'
  BY <1>1, <1>2 DEF RowsTyped, RowsPass, Passes
<1>5. \A i \in DOMAIN items' : items'[i].dependsOn \in DOMAIN items' \cup {Null}
  <2>1. TAKE i \in DOMAIN items'
  <2>2. i \in DOMAIN items \ Cascade(S) /\ items'[i] = items[i] /\ items[i].dependsOn \in DOMAIN items \cup {Null}
    BY <1>1, <1>2 DEF Linked
  <2>3. items[i].dependsOn \notin Cascade(S)
    BY <2>2, CascadeIsClosed
  <2>4. QED
    BY <1>2, <2>2, <2>3
<1>6. Linked'
  BY <1>1, <1>2, <1>3, <1>5 DEF Linked
<1>7. QED
  BY <1>4, <1>6, RowsStep

LEMMA InvDeletes ==
  ASSUME UpgradeInv, (\E S \in SUBSET DOMAIN items : DeleteItems(S)) \/ (\E a \in InstanceIds : RemoveInstance(a))
  PROVE  UpgradeInv'
<1>1. Linked /\ (pc = "serving" => foreignKeys)
  BY DEF UpgradeInv, Places
<1>2. ASSUME NEW S \in SUBSET DOMAIN items, DeleteItems(S)
      PROVE  UpgradeInv'
  <2>1. /\ foreignKeys /\ Without(Cascade(S)) /\ instances' = instances /\ snapshots' = snapshots
        /\ UNCHANGED <<schema, process>>
    BY <1>1, <1>2 DEF DeleteItems, Gone
  <2>2. QED
    BY <1>1, <2>1, DeletesKeep DEF Linked
<1>3. ASSUME NEW a \in InstanceIds, RemoveInstance(a)
      PROVE  UpgradeInv'
  <2> DEFINE S == {i \in DOMAIN items : items[i].instance = a}
  <2>1. /\ foreignKeys /\ Without(Cascade(S)) /\ instances' = instances \ {a}
        /\ snapshots' = {s \in snapshots : s[1] # a} /\ UNCHANGED <<schema, process>>
    BY <1>1, <1>3 DEF RemoveInstance, Gone
  <2>2. /\ \A i \in DOMAIN items \ S : items[i].instance \in instances' \cup {Null}
        /\ \A s \in snapshots' : s[1] \in instances'
    BY <1>1, <2>1 DEF Linked
  <2>3. S \in SUBSET DOMAIN items /\ instances' \subseteq instances /\ snapshots' \subseteq snapshots
    BY <2>1
  <2> HIDE DEF S
  <2>4. QED
    BY <2>1, <2>2, <2>3, DeletesKeep
<1>4. QED
  BY <1>2, <1>3

LEMMA InvAdds ==
  ASSUME UpgradeInv, NEW a \in InstanceIds, CreateInstance(a) \/ Invalidate(a) \/ \E r \in resources : PutSnapshot(a, r)
  PROVE  UpgradeInv'
<1>1. RowsTyped /\ RowsPass /\ Linked /\ (pc = "serving" => foreignKeys)
  BY DEF UpgradeInv, Places
<1>2. CASE CreateInstance(a)
  <2>1. UNCHANGED <<items, events, snapshots, schema, process>> /\ instances' = instances \cup {a} /\ ops' = ops /\ resources' = resources
    BY <1>2 DEF CreateInstance, schema
  <2>2. RowsTyped' /\ RowsPass' /\ Linked'
    BY <1>1, <2>1 DEF RowsTyped, RowsPass, Passes, Linked
  <2>3. QED
    BY <2>1, <2>2, RowsStep
<1>3. ASSUME NEW r \in resources, PutSnapshot(a, r)
      PROVE  UpgradeInv'
  <2>1. /\ UNCHANGED <<instances, items, events, schema, process>> /\ snapshots' = snapshots \cup {<<a, r>>}
        /\ a \in instances /\ ops' = ops /\ resources' = resources
    BY <1>1, <1>3 DEF PutSnapshot, schema
  <2>2. RowsTyped' /\ RowsPass' /\ Linked'
    BY <1>1, <2>1 DEF RowsTyped, RowsPass, Passes, Linked
  <2>3. QED
    BY <2>1, <2>2, RowsStep
<1>4. CASE Invalidate(a)
  <2>1. /\ UNCHANGED <<instances, items, events, schema, process>> /\ snapshots' \subseteq snapshots
        /\ ops' = ops /\ resources' = resources
    BY <1>4 DEF Invalidate, schema
  <2>2. RowsTyped' /\ RowsPass' /\ Linked'
    BY <1>1, <2>1 DEF RowsTyped, RowsPass, Passes, Linked
  <2>3. QED
    BY <2>1, <2>2, RowsStep
<1>5. QED
  BY <1>2, <1>3, <1>4

-------------------------------------------------------------------------------
(* The theorems.                                                             *)

LEMMA UpgradeInit == DatabaseInit => UpgradeInv
BY DEF DatabaseInit, UpgradeInv, RowsTyped, InOrder, SchemaIsOf, RowsPass, Linked, Places, Latest

LEMMA InvStep == UpgradeInv /\ [DatabaseNext]_databaseVars => UpgradeInv'
<1> SUFFICES ASSUME UpgradeInv, [DatabaseNext]_databaseVars
             PROVE  UpgradeInv'
  OBVIOUS
<1>1. CASE UNCHANGED databaseVars
  BY <1>1 DEF databaseVars, rows, schema, process, UpgradeInv, RowsTyped, InOrder, SchemaIsOf, RowsPass, Passes, Linked, Places
<1>2. ASSUME NEW f \in 1 .. Latest, ApplyFile(f)
      PROVE  UpgradeInv'
  BY <1>2, UpgradeApply
<1>3. ASSUME NEW i \in ItemIds, NEW row \in Row, Stage(i, row)
      PROVE  UpgradeInv'
  BY <1>3, InvStages
<1>4. ASSUME NEW e \in EventIds, NEW i \in ItemIds, Log(e, i)
      PROVE  UpgradeInv'
  BY <1>4, InvLogs
<1>5. QED
  BY <1>1, <1>2, <1>3, <1>4, InvProcess, InvDeletes, InvAdds DEF DatabaseNext

\* A release that serves has the whole schema of its files and reads every row, with
\* every reference intact; and no file is ever refused by the rows it copies.
THEOREM UpgradesHold == DatabaseSpec => []UpgradesAreWhole
<1>1. UpgradeInv => UpgradesAreWhole
  BY InvMeansWhole, CopiesPass DEF UpgradesAreWhole, FilesApply
<1>2. QED
  BY <1>1, UpgradeInit, InvStep, PTL DEF DatabaseSpec

LEMMA StepKeepsRows == UpgradeInv /\ [DatabaseNext]_databaseVars => [KeepsRows]_databaseVars
<1> SUFFICES ASSUME UpgradeInv, DatabaseNext, pc # "serving"
             PROVE  KeepsRows
  BY DEF KeepsRows
<1> DEFINE same == UNCHANGED <<instances, items, events, snapshots, recorded>>
<1>1. RowsTyped /\ InOrder /\ (pc = "migrating" => foreignKeys = FALSE)
  BY DEF UpgradeInv, Places
<1>2. same => KeepsRows
  BY <1>1 DEF KeepsRows, RowsTyped, Row
<1>3. ASSUME NEW f \in 1 .. Latest, ApplyFile(f)
      PROVE  KeepsRows
  <2> DEFINE gone == IF f = 7 THEN Doomed ELSE {}
  <2>1. f \notin recorded /\ recorded' = recorded \cup {f}
    BY <1>3 DEF ApplyFile, PendingFiles
  <2>2. 7 \in recorded' \ recorded <=> f = 7
    BY <2>1
  <2>3. items' = Copied(f) /\ events' = Links(f) /\ instances' = instances /\ snapshots' = snapshots
    BY <1>1, <1>3 DEF ApplyFile, Rebuild
  <2>4. /\ DOMAIN items' = DOMAIN items \ gone
        /\ \A i \in DOMAIN items' : items'[i] = [items[i] EXCEPT !.dependsOn = IF @ \in gone THEN Null ELSE @]
    BY <1>1, <2>3 DEF Copied, Cleared
  <2>5. DOMAIN events' = DOMAIN events /\ \A e \in DOMAIN events : events'[e] = IF events[e] \in gone THEN Null ELSE events[e]
    BY <2>3 DEF Links, Cleared
  <2>6. QED
    BY <2>2, <2>3, <2>4, <2>5 DEF KeepsRows
<1>4. ASSUME (\E r \in release .. Latest : Boot(r)) \/ Recheck \/ Stop
      PROVE  KeepsRows
  BY <1>2, <1>4 DEF Boot, Recheck, Stop, rows, schema
<1>5. QED
  BY <1>3, <1>4 DEF DatabaseNext, Stage, Log, DeleteItems, CreateInstance, RemoveInstance, Invalidate, PutSnapshot

\* Wherever an upgrade stops, every row is still there but the work of the op that the
\* last file deletes.
THEOREM NoRowIsLost == DatabaseSpec => UpgradesKeepRows
BY UpgradeInit, InvStep, StepKeepsRows, PTL DEF DatabaseSpec, UpgradesKeepRows

-------------------------------------------------------------------------------
(* Part 2: the cache.  What its entries, views and reads hold.               *)

USE CacheBounds, NamesApart

Entries == [server : Servers \cup {"none", "gone"}, version : Nat, reachable : BOOLEAN]
Snapshots == [entry : Entries, raced : BOOLEAN]
Memos == [of : [Instances -> Entries], built : BOOLEAN, raced : BOOLEAN]
Asks == [server : Servers \cup {"none"}, pooled : BOOLEAN, reachable : BOOLEAN,
         answered : BOOLEAN, version : Nat]
Reads == [busy : BOOLEAN, refresh : BOOLEAN, todo : SUBSET Instances,
          got : [Instances -> Entries], asked : [Instances -> Asks], raced : BOOLEAN]

FleetTyped ==
  /\ server \in [Instances -> Servers \cup {"none", "gone"}]
  /\ enabled \subseteq Listed
  /\ closing \subseteq Instances
  /\ version \in [Servers -> Nat]
  /\ item = NoItem \/ (item.instance \in Instances /\ item.server \in Servers)
  /\ due \in [Instances -> [Servers -> Nat]]

\* Nobody is told of a version that is still to come.
DueIsPast == \A i \in Instances, s \in Servers : due[i][s] <= version[s]

\* A snapshot has its place, and none waits for an instance that is still to be
\* created.
SnapshotOK(i) ==
  /\ snapshot[i] \in Snapshots
  /\ snapshot[i] = NoSnapshot \/ snapshot[i].entry.server \in Servers
  /\ server[i] = "none" => snapshot[i] = NoSnapshot
SnapshotsOK == snapshot = [i \in Instances |-> snapshot[i]] /\ \A i \in Instances : SnapshotOK(i)

\* What a request in flight of instance i has or will bring is up to date.
AskFresh(i, ask) ==
  ask # NoAsk => ask.server = server[i] /\ (ask.answered => ask.version >= due[i][server[i]])

\* A read that no invalidation overtook accounts for the enabled instances, and
\* has nothing outdated of them, but for those whose edit is under way.
ReadFresh(rec, i) ==
  /\ i \in Listed => ~Stale(i, rec.got[i]) /\ AskFresh(i, rec.asked[i])
  /\ i \in enabled <=> i \in rec.todo \/ rec.asked[i] # NoAsk \/ rec.got[i] # NoEntry

ReadOK(rec) ==
  /\ rec \in Reads
  /\ ~rec.busy => rec = Idle
  /\ \A i \in Instances : rec.asked[i].server = "none" => rec.asked[i] = NoAsk
  /\ rec.busy /\ ~rec.raced => \A i \in Instances \ closing : ReadFresh(rec, i)
ReadsOK == reader = [r \in Readers |-> reader[r]] /\ \A r \in Readers : ReadOK(reader[r])

\* The same of a memo.
MemoOK(m) ==
  /\ m \in Memos
  /\ m # NoMemo /\ ~m.raced => \A i \in Instances \ closing :
       /\ i \in enabled <=> m.of[i] # NoEntry
       /\ i \in enabled => ~Stale(i, m.of[i])
MemosOK == memo = [v \in Views |-> memo[v]] /\ \A v \in Views : MemoOK(memo[v])

IInv ==
  /\ FleetTyped
  /\ DueIsPast
  /\ SnapshotsOK
  /\ SnapshotsAreFresh
  /\ ReadsOK
  /\ MemosOK

-------------------------------------------------------------------------------
(* Lemmas about the pieces actions are made of.                              *)

\* The record a read goes on with keeps the invariant of all reads.
LEMMA OneRead ==
  ASSUME IInv, NEW r \in Readers, NEW new, ReadOK(new), reader' = [reader EXCEPT ![r] = new],
         UNCHANGED <<server, enabled, closing, due>>
  PROVE  ReadsOK'
<1>1. \A q \in Readers : ReadOK(reader'[q])
  BY DEF IInv, ReadsOK
<1>2. \A q \in Readers : ReadOK(reader[q])'
  BY <1>1 DEF ReadOK, ReadFresh, AskFresh, Stale, Listed
<1>3. reader' = [q \in Readers |-> reader'[q]]
  BY DEF IInv, ReadsOK
<1>4. QED
  BY <1>2, <1>3 DEF ReadsOK

\* An invalidation makes no read worse: whoever is reading is overtaken.
LEMMA AllOvertaken ==
  ASSUME IInv, Overtake
  PROVE  ReadsOK'
<1> SUFFICES ASSUME NEW r \in Readers PROVE ReadOK(reader[r])'
  BY DEF Overtake, ReadsOK
<1>1. reader'[r] = [reader[r] EXCEPT !.raced = reader[r].busy] /\ ReadOK(reader[r])
  BY DEF Overtake, IInv, ReadsOK
<1>2. reader'[r] \in Reads
  BY <1>1 DEF ReadOK, Reads
<1>3. /\ reader'[r].raced = reader[r].busy /\ reader'[r].busy = reader[r].busy
      /\ reader'[r].asked = reader[r].asked
  BY <1>1 DEF ReadOK, Reads
<1>4. ASSUME ~reader[r].busy PROVE reader'[r] = Idle
  <2>1. reader[r] = Idle /\ ~Idle.busy
    BY <1>1, <1>4 DEF ReadOK
  <2>2. reader'[r] = [Idle EXCEPT !.raced = FALSE]
    BY <1>1, <2>1 DEF Idle
  <2>3. QED
    BY <2>2 DEF Idle
<1>5. QED
  BY <1>1, <1>2, <1>3, <1>4 DEF ReadOK

\* An edit of i takes its agent from the pool and excuses what is read of i.
LEMMA UnpoolKeeps ==
  ASSUME IInv, NEW i \in Instances, Unpool(i), UNCHANGED due, closing' = closing \cup {i},
         \A j \in Instances \ {i} : server'[j] = server[j] /\ (j \in enabled' <=> j \in enabled)
  PROVE  ReadsOK'
<1> SUFFICES ASSUME NEW r \in Readers PROVE ReadOK(reader[r])'
  BY DEF Unpool, ReadsOK
<1> DEFINE old == reader[r]
           new == reader'[r]
<1>1. new = [old EXCEPT !.asked[i].pooled = FALSE] /\ ReadOK(old)
  BY DEF Unpool, IInv, ReadsOK
<1>2. old \in Reads
  BY <1>1 DEF ReadOK
<1> DEFINE ask == [old.asked[i] EXCEPT !.pooled = FALSE]
           all == [old.asked EXCEPT ![i] = ask]
<1>a. new = [old EXCEPT !.asked = all]
  BY <1>1, <1>2 DEF Reads
<1>b. old.asked \in [Instances -> Asks]
  BY <1>2 DEF Reads
<1>c. ask \in Asks /\ ask.server = old.asked[i].server
  BY <1>b DEF Asks
<1>d. ASSUME old.asked[i] = NoAsk PROVE ask = NoAsk
  <2>1. old.asked[i] \in Asks /\ old.asked[i].pooled = FALSE
    BY <1>b, <1>d DEF NoAsk
  <2>2. ask = old.asked[i]
    BY <2>1 DEF Asks
  <2>3. QED
    BY <1>d, <2>2
<1> HIDE DEF ask
<1>e. all \in [Instances -> Asks] /\ all[i] = ask /\ \A j \in Instances \ {i} : all[j] = old.asked[j]
  BY <1>b, <1>c
<1> HIDE DEF all
<1>3. /\ new.busy = old.busy /\ new.todo = old.todo /\ new.got = old.got /\ new.raced = old.raced
      /\ new.asked = all
  BY <1>a, <1>2 DEF Reads
<1>4. new \in Reads
  BY <1>a, <1>2, <1>e DEF Reads
<1>5. \A j \in Instances \ {i} : new.asked[j] = old.asked[j]
  BY <1>3, <1>e
<1>6. old.asked[i] = NoAsk => new.asked[i] = NoAsk
  BY <1>3, <1>d, <1>e
<1>7. new.asked[i].server = old.asked[i].server
  BY <1>3, <1>c, <1>e
<1>8. ASSUME ~new.busy PROVE new = Idle
  <2>1. old = Idle
    BY <1>1, <1>3, <1>8 DEF ReadOK
  <2>2. \A j \in Instances : old.asked[j] = NoAsk
    BY <2>1 DEF Idle
  <2>3. all = [j \in Instances |-> NoAsk]
    BY <1>d, <1>e, <2>2
  <2>4. new = [Idle EXCEPT !.asked = [j \in Instances |-> NoAsk]]
    BY <1>a, <2>1, <2>3
  <2>5. QED
    BY <2>4 DEF Idle
<1>9. \A j \in Instances : new.asked[j].server = "none" => new.asked[j] = NoAsk
  BY <1>1, <1>5, <1>6, <1>7 DEF ReadOK
<1>10. ASSUME new.busy, ~new.raced, NEW j \in Instances \ closing' PROVE ReadFresh(reader[r], j)'
  <2>1. j \in Instances \ closing /\ j # i /\ ReadFresh(old, j)
    BY <1>1, <1>3, <1>10 DEF ReadOK
  <2>2. server'[j] = server[j] /\ (j \in enabled' <=> j \in enabled) /\ due' = due
        /\ new.asked[j] = old.asked[j] /\ new.got = old.got /\ new.todo = old.todo
    BY <1>3, <1>5, <2>1
  <2>3. QED
    BY <2>1, <2>2 DEF ReadFresh, AskFresh, Stale, Listed
<1>11. QED
  BY <1>4, <1>8, <1>9, <1>10 DEF ReadOK

\* Looking for what is left to do asks, or takes the snapshot with its stain.
LEMMA LookOK ==
  ASSUME IInv, NEW rec \in Reads, rec.busy, NEW some \in SUBSET rec.todo,
         \A i \in Instances : rec.asked[i].server = "none" => rec.asked[i] = NoAsk,
         ~rec.raced => \A i \in Instances \ closing : ReadFresh(rec, i)
  PROVE  ReadOK(Look(rec, some))
<1> DEFINE new == Look(rec, some)
<1>1. some \subseteq Instances
  BY DEF Reads
<1> DEFINE mine == [i \in Instances |-> Ask(server[i], TRUE)]
<1>2. /\ new.busy = rec.busy /\ new.todo = rec.todo \ some
      /\ new.raced = (rec.raced \/ \E i \in some : Hit(rec, i) /\ snapshot[i].raced)
  BY DEF Look, Reads
<1>g. new.got = [i \in Instances |->
                   IF i \notin some THEN rec.got[i]
                   ELSE IF Hit(rec, i) THEN snapshot[i].entry
                   ELSE IF i \in Listed THEN NoEntry ELSE Unreachable]
  BY DEF Look, Reads
<1>h. new.asked = [i \in Instances |->
                     IF i \in some /\ i \in Listed /\ ~Hit(rec, i) THEN mine[i] ELSE rec.asked[i]]
  BY DEF Look, Reads
<1>i. new = [rec EXCEPT !.todo = new.todo, !.got = new.got, !.asked = new.asked, !.raced = new.raced]
  BY DEF Look, Reads
<1>3. \A i \in Instances : SnapshotOK(i)
  BY DEF IInv, SnapshotsOK
<1>4. NoEntry \in Entries /\ Unreachable \in Entries
  BY DEF NoEntry, Unreachable, Entry, Entries
<1>5. ASSUME NEW i \in Listed
      PROVE  mine[i] \in Asks /\ mine[i].server = server[i] /\ ~mine[i].answered /\ mine[i] # NoAsk
  BY DEF Listed, Ask, Asks, NoAsk
<1> HIDE DEF new, mine
<1>a. rec.got \in [Instances -> Entries] /\ rec.asked \in [Instances -> Asks]
  BY DEF Reads
<1>b. \A i \in Instances : snapshot[i].entry \in Entries
  BY <1>3 DEF SnapshotOK, Snapshots
<1>6. new.got \in [Instances -> Entries]
  BY <1>g, <1>a, <1>b, <1>4
<1>7. new.asked \in [Instances -> Asks]
  BY <1>h, <1>5, <1>a
<1>8. new.raced \in BOOLEAN /\ new.todo \in SUBSET Instances
  BY <1>2 DEF Reads
<1>9. new \in Reads
  BY <1>i, <1>6, <1>7, <1>8 DEF Reads
<1>10. ASSUME NEW i \in Instances, new.asked[i].server = "none" PROVE new.asked[i] = NoAsk
  <2>1. CASE i \in some /\ i \in Listed /\ ~Hit(rec, i)
    <3>1. new.asked[i] = mine[i] /\ mine[i].server \in Servers
      BY <1>h, <1>5, <2>1 DEF Listed
    <3>2. QED
      BY <1>10, <3>1
  <2>2. CASE ~(i \in some /\ i \in Listed /\ ~Hit(rec, i))
    BY <1>h, <1>10, <2>2
  <2>3. QED
    BY <2>1, <2>2
<1>11. ASSUME ~new.raced, NEW i \in Instances \ closing PROVE ReadFresh(new, i)
  <2>1. ReadFresh(rec, i) /\ ~(i \in some /\ Hit(rec, i) /\ snapshot[i].raced)
    BY <1>2, <1>11 DEF ReadFresh
  <2>2. CASE i \notin some
    BY <1>2, <1>g, <1>h, <2>1, <2>2 DEF ReadFresh
  <2>3. CASE i \in some /\ Hit(rec, i)
    <3>1. i \in Listed /\ snapshot[i] # NoSnapshot /\ ~snapshot[i].raced /\ i \in enabled
      BY <2>1, <2>3 DEF Hit, ReadFresh
    <3>2. ~Stale(i, snapshot[i].entry) /\ snapshot[i].entry.server \in Servers
      BY <1>3, <1>11, <3>1 DEF IInv, SnapshotsAreFresh, SnapshotOK
    <3>3. snapshot[i].entry # NoEntry
      BY <3>2 DEF NoEntry, Entry
    <3>4. new.got[i] = snapshot[i].entry /\ new.asked[i] = rec.asked[i]
      BY <1>g, <1>h, <2>3
    <3>5. QED
      BY <2>1, <3>1, <3>2, <3>3, <3>4 DEF ReadFresh
  <2>4. CASE i \in some /\ ~Hit(rec, i)
    <3>1. i \in enabled /\ i \in Listed
      BY <2>1, <2>4 DEF ReadFresh, IInv, FleetTyped
    <3>2. new.got[i] = NoEntry /\ new.asked[i] = mine[i]
      BY <1>g, <1>h, <2>4, <3>1
    <3>3. ~Stale(i, NoEntry)
      BY DEF Stale, NoEntry, Entry
    <3>4. AskFresh(i, new.asked[i])
      BY <1>5, <3>1, <3>2 DEF AskFresh
    <3>5. QED
      BY <1>5, <3>1, <3>2, <3>3, <3>4 DEF ReadFresh
  <2>5. QED
    BY <2>2, <2>3, <2>4
<1>12. QED
  BY <1>2, <1>9, <1>10, <1>11 DEF ReadOK, new

-------------------------------------------------------------------------------
(* The first state, and each action.                                         *)

\* The cache begins empty, with the instances as they are.
LEMMA InvInit == Init => IInv
<1> SUFFICES ASSUME Init PROVE IInv
  OBVIOUS
<1>1. FleetTyped
  BY DEF Init, FleetTyped, Listed, Untold
<1>2. DueIsPast
  BY DEF Init, DueIsPast, Untold
<1>3. SnapshotsOK
  BY DEF Init, SnapshotsOK, SnapshotOK, NoSnapshot, NoEntry, Entry, Snapshots, Entries
<1>4. SnapshotsAreFresh
  BY DEF Init, SnapshotsAreFresh, Listed, Stale, NoSnapshot, NoEntry, Entry
<1>5. ReadsOK
  <2>1. Idle \in Reads
    BY DEF Idle, Reads, NoEntry, Entry, Entries, NoAsk, Asks
  <2>2. ReadOK(Idle)
    BY <2>1 DEF ReadOK, Idle
  <2>3. QED
    BY <2>2 DEF Init, ReadsOK
<1>6. MemosOK
  BY DEF Init, MemosOK, MemoOK, NoMemo, Memos, NoEntry, Entry, Entries
<1>7. QED
  BY <1>1, <1>2, <1>3, <1>4, <1>5, <1>6 DEF IInv

\* What a step that only reads leaves alone.
LEMMA ReadingKeeps ==
  ASSUME IInv, UNCHANGED <<server, enabled, closing, version, item, due>>
  PROVE  /\ FleetTyped' /\ DueIsPast'
         /\ snapshot' = snapshot => SnapshotsOK' /\ SnapshotsAreFresh'
         /\ memo' = memo => MemosOK'
<1>1. FleetTyped' /\ DueIsPast'
  BY DEF IInv, FleetTyped, Listed, DueIsPast
<1>2. ASSUME snapshot' = snapshot PROVE SnapshotsOK' /\ SnapshotsAreFresh'
  BY <1>2 DEF IInv, SnapshotsOK, SnapshotOK, SnapshotsAreFresh, Stale, Listed
<1>3. ASSUME memo' = memo PROVE MemosOK'
  BY <1>3 DEF IInv, MemosOK, MemoOK, Stale
<1>4. QED
  BY <1>1, <1>2, <1>3

\* A read begins with all enabled instances to do.
LEMMA InvBeginRead ==
  ASSUME IInv, NEW r \in Readers, NEW refresh \in BOOLEAN, BeginRead(r, refresh)
  PROVE  IInv'
<1> DEFINE rec == [Idle EXCEPT !.busy = TRUE, !.refresh = refresh, !.todo = enabled]
<1>1. /\ rec \in Reads /\ rec.busy /\ ~rec.raced /\ rec.todo = enabled
      /\ \A i \in Instances : rec.asked[i] = NoAsk /\ rec.got[i] = NoEntry
  BY DEF IInv, FleetTyped, Listed, Idle, Reads, NoEntry, Entry, Entries, NoAsk, Asks
<1>2. \A i \in Instances \ closing : ReadFresh(rec, i)
  BY <1>1 DEF ReadFresh, AskFresh, Stale, NoEntry, Entry
<1> HIDE DEF rec
<1>3. ReadOK(rec)
  BY <1>1, <1>2 DEF ReadOK
<1>4. ReadOK(Look(rec, enabled))
  BY <1>1, <1>2, LookOK
<1>5. reader' = [reader EXCEPT ![r] = IF r \in FleetReads THEN Look(rec, enabled) ELSE rec]
  BY DEF BeginRead, rec
<1>6. ReadsOK'
  BY <1>3, <1>4, <1>5, OneRead DEF BeginRead
<1>7. QED
  BY <1>6, ReadingKeeps DEF BeginRead, IInv

\* The path view goes on with one instance.
LEMMA InvNextInstance ==
  ASSUME IInv, NEW r \in Readers, NEW i \in Instances, NextInstance(r, i)
  PROVE  IInv'
<1>1. ReadOK(reader[r]) /\ reader[r].busy
  BY DEF IInv, ReadsOK, NextInstance, Busy
<1>2. ReadOK(Look(reader[r], {i}))
  <2>1. /\ reader[r] \in Reads /\ {i} \in SUBSET reader[r].todo
        /\ \A j \in Instances : reader[r].asked[j].server = "none" => reader[r].asked[j] = NoAsk
        /\ ~reader[r].raced => \A j \in Instances \ closing : ReadFresh(reader[r], j)
    BY <1>1 DEF ReadOK, NextInstance
  <2>2. QED
    BY <1>1, <2>1, LookOK
<1>3. reader' = [reader EXCEPT ![r] = Look(reader[r], {i})]
  BY DEF NextInstance, IInv, ReadsOK
<1>4. ReadsOK'
  BY <1>2, <1>3, OneRead DEF NextInstance
<1>5. QED
  BY <1>4, ReadingKeeps DEF NextInstance, IInv

\* The server answers with the version it has, which is no older than any told.
LEMMA InvArrive ==
  ASSUME IInv, NEW r \in Readers, NEW i \in Instances, Arrive(r, i)
  PROVE  IInv'
<1> DEFINE old == reader[r]
           ask == [old.asked[i] EXCEPT !.answered = TRUE, !.version = version[old.asked[i].server]]
           new == [old EXCEPT !.asked = [old.asked EXCEPT ![i] = ask]]
<1>1. ReadOK(old) /\ old \in Reads /\ old.asked[i] # NoAsk
  BY DEF IInv, ReadsOK, ReadOK, Arrive
<1>2. old.busy
  BY <1>1 DEF ReadOK, Idle
<1>3. old.asked[i] \in Asks /\ old.asked[i].server \in Servers
  BY <1>1 DEF Reads, ReadOK, Asks
<1>4. /\ ask \in Asks /\ ask.server = old.asked[i].server /\ ask.version = version[ask.server]
      /\ ask # NoAsk
  BY <1>3 DEF Asks, IInv, FleetTyped, NoAsk
<1>5. reader' = [reader EXCEPT ![r] = new]
  BY <1>1 DEF Arrive, IInv, ReadsOK, Reads
<1> HIDE DEF ask
<1>6. /\ new.busy = old.busy /\ new.todo = old.todo /\ new.got = old.got /\ new.raced = old.raced
      /\ new.asked[i] = ask /\ \A j \in Instances \ {i} : new.asked[j] = old.asked[j]
  BY <1>1 DEF Reads
<1>7. new \in Reads
  BY <1>1, <1>4 DEF Reads
<1> HIDE DEF new
<1>8. ASSUME ~new.raced, NEW j \in Instances \ closing PROVE ReadFresh(new, j)
  <2>1. ReadFresh(old, j)
    BY <1>1, <1>2, <1>6, <1>8 DEF ReadOK
  <2>2. CASE j # i
    BY <1>6, <2>1, <2>2 DEF ReadFresh
  <2>3. CASE j = i
    <3>1. i \in enabled /\ i \in Listed
      BY <1>1, <2>1, <2>3 DEF ReadFresh, IInv, FleetTyped
    <3>2. ask.server = server[i]
      BY <1>1, <1>4, <2>1, <2>3, <3>1 DEF ReadFresh, AskFresh
    <3>a. server[i] \in Servers
      BY <1>3, <1>4, <3>2
    <3>3. due[i][server[i]] <= version[server[i]] /\ due[i][server[i]] \in Nat /\ version[server[i]] \in Nat
      BY <3>a DEF IInv, FleetTyped, DueIsPast
    <3>4. AskFresh(i, ask)
      BY <1>4, <3>2, <3>3 DEF AskFresh
    <3>5. QED
      BY <1>1, <1>4, <1>6, <2>1, <2>3, <3>4 DEF ReadFresh
  <2>4. QED
    BY <2>2, <2>3
<1>9. ReadOK(new)
  BY <1>1, <1>2, <1>3, <1>4, <1>6, <1>7, <1>8 DEF ReadOK
<1>10. ReadsOK'
  BY <1>5, <1>9, OneRead DEF Arrive
<1>11. QED
  BY <1>10, ReadingKeeps DEF Arrive, IInv

\* An answer is kept as a snapshot, with the stain of the read that asked.
LEMMA InvStore ==
  ASSUME IInv, NEW r \in Readers, NEW i \in Instances, Store(r, i)
  PROVE  IInv'
<1> DEFINE old == reader[r]
           ask == old.asked[i]
           entry == Entry(ask.server, ask.version, ask.reachable)
           mine == IF i \in Listed THEN entry ELSE Unreachable
           new == [old EXCEPT !.asked = [old.asked EXCEPT ![i] = NoAsk], !.got = [old.got EXCEPT ![i] = mine]]
           kept == [entry |-> [entry EXCEPT !.reachable = TRUE], raced |-> old.raced]
<1>1. ReadOK(old) /\ old \in Reads /\ ask \in Asks /\ ask.answered
  BY DEF IInv, ReadsOK, ReadOK, Store, Reads
<1>2. ask # NoAsk /\ ask.server \in Servers
  BY <1>1 DEF NoAsk, ReadOK, Asks
<1>3. old.busy
  BY <1>1, <1>2 DEF ReadOK, Idle
<1>4. /\ entry \in Entries /\ entry.server = ask.server /\ entry.version = ask.version
      /\ entry # NoEntry /\ Unreachable \in Entries /\ Unreachable # NoEntry /\ NoAsk \in Asks
  BY <1>1, <1>2 DEF Entry, Entries, Asks, NoEntry, Unreachable, NoAsk
<1>5. /\ kept \in Snapshots /\ kept.entry.server = ask.server /\ kept.entry.version = ask.version
      /\ kept.raced = old.raced /\ kept # NoSnapshot
  BY <1>1, <1>2, <1>4 DEF Snapshots, Entries, Reads, NoSnapshot, NoEntry, Entry
<1>6. reader' = [reader EXCEPT ![r] = new]
  BY <1>1 DEF Store, IInv, ReadsOK, Reads
<1>7. snapshot' = IF i \in Listed THEN [snapshot EXCEPT ![i] = kept] ELSE snapshot
  BY DEF Store
<1>8. old.raced \/ i \in closing \/ (i \in Listed => ~Stale(i, entry) /\ ~Stale(i, kept.entry))
  <2> HIDE DEF entry, kept
  <2>1. ASSUME ~old.raced, i \notin closing, i \in Listed
        PROVE  ask.server = server[i] /\ ask.version >= due[i][server[i]]
    BY <1>1, <1>2, <1>3, <2>1 DEF ReadOK, ReadFresh, AskFresh
  <2>2. \A s \in Servers : due[i][s] \in Nat
    BY DEF IInv, FleetTyped
  <2>3. ask.version \in Nat
    BY <1>1 DEF Asks
  <2>4. QED
    BY <1>2, <1>4, <1>5, <2>1, <2>2, <2>3 DEF Stale
<1> HIDE DEF entry, kept, mine
<1>9. /\ new.busy = old.busy /\ new.todo = old.todo /\ new.raced = old.raced
      /\ new.asked[i] = NoAsk /\ new.got[i] = mine
      /\ \A j \in Instances \ {i} : new.asked[j] = old.asked[j] /\ new.got[j] = old.got[j]
  BY <1>1 DEF Reads
<1>10. mine \in Entries /\ mine # NoEntry
  BY <1>4 DEF mine
<1>11. new \in Reads
  BY <1>1, <1>4, <1>10 DEF Reads
<1> HIDE DEF new
<1>12. ASSUME ~new.raced, NEW j \in Instances \ closing PROVE ReadFresh(new, j)
  <2>1. ReadFresh(old, j)
    BY <1>1, <1>3, <1>9, <1>12 DEF ReadOK
  <2>2. CASE j # i
    BY <1>9, <2>1, <2>2 DEF ReadFresh
  <2>3. CASE j = i
    BY <1>2, <1>8, <1>9, <1>10, <1>12, <2>1, <2>3 DEF ReadFresh, AskFresh, mine
  <2>4. QED
    BY <2>2, <2>3
<1>13. ReadOK(new)
  BY <1>1, <1>3, <1>9, <1>11, <1>12 DEF ReadOK
<1>14. ReadsOK'
  BY <1>6, <1>13, OneRead DEF Store
<1>15. SnapshotsOK'
  <2>1. \A j \in Instances : SnapshotOK(j)
    BY DEF IInv, SnapshotsOK
  <2>2. \A j \in Instances : SnapshotOK(j)'
    BY <1>2, <1>5, <1>7, <2>1 DEF SnapshotOK, Store, Listed, IInv, SnapshotsOK
  <2>3. QED
    BY <1>7, <2>2 DEF SnapshotsOK, IInv
<1>16. SnapshotsAreFresh'
  BY <1>5, <1>7, <1>8 DEF SnapshotsAreFresh, Store, Listed, Stale, IInv, SnapshotsOK
<1>17. QED
  BY <1>14, <1>15, <1>16, ReadingKeeps DEF Store, IInv

\* A failed refresh of the fleet view falls back on what is known, stain and all.
LEMMA InvFailRead ==
  ASSUME IInv, NEW r \in Readers, NEW i \in Instances, FailRead(r, i)
  PROVE  IInv'
<1> DEFINE old == reader[r]
           ask == old.asked[i]
           again == r \in FleetReads /\ old.refresh /\ ask.reachable /\ i \in Listed
           next == IF again /\ snapshot[i] = NoSnapshot THEN Ask(server[i], FALSE) ELSE NoAsk
           mine == IF ~again THEN Unreachable
                   ELSE IF snapshot[i] = NoSnapshot THEN NoEntry
                   ELSE [snapshot[i].entry EXCEPT !.reachable = FALSE]
           stain == old.raced \/ (again /\ snapshot[i].raced)
           new == [old EXCEPT !.asked = [old.asked EXCEPT ![i] = next], !.got = [old.got EXCEPT ![i] = mine],
                              !.raced = stain]
<1>1. ReadOK(old) /\ old \in Reads /\ ask \in Asks /\ ask # NoAsk
  BY DEF IInv, ReadsOK, ReadOK, FailRead, Reads
<1>2. ask.server \in Servers
  BY <1>1 DEF ReadOK, Asks
<1>3. old.busy
  BY <1>1 DEF ReadOK, Idle
<1>4. SnapshotOK(i)
  BY DEF IInv, SnapshotsOK
<1>5. reader' = [reader EXCEPT ![r] = new]
  BY <1>1 DEF FailRead, IInv, ReadsOK, Reads
<1>6. /\ next \in Asks
      /\ next # NoAsk => again /\ snapshot[i] = NoSnapshot /\ next.server = server[i] /\ ~next.answered
      /\ next.server = "none" => next = NoAsk
      /\ again /\ snapshot[i] = NoSnapshot => next # NoAsk
  BY <1>4 DEF Asks, Ask, NoAsk, Listed
<1>7. /\ mine \in Entries
      /\ mine = NoEntry <=> again /\ snapshot[i] = NoSnapshot
      /\ ~Stale(i, mine) \/ (again /\ snapshot[i] # NoSnapshot /\ Stale(i, snapshot[i].entry))
  <2>1. Unreachable \in Entries /\ Unreachable # NoEntry /\ NoEntry \in Entries
        /\ ~Stale(i, Unreachable) /\ ~Stale(i, NoEntry)
    BY DEF Unreachable, NoEntry, Entry, Entries, Stale
  <2>2. ASSUME snapshot[i] # NoSnapshot
        PROVE  LET e == [snapshot[i].entry EXCEPT !.reachable = FALSE]
               IN  /\ e \in Entries /\ e.server = snapshot[i].entry.server
                   /\ e.version = snapshot[i].entry.version /\ e.server \in Servers
    BY <1>4, <2>2 DEF SnapshotOK, Snapshots, Entries
  <2>3. ASSUME snapshot[i] # NoSnapshot
        PROVE  [snapshot[i].entry EXCEPT !.reachable = FALSE] # NoEntry
    BY <2>2, <2>3 DEF NoEntry, Entry
  <2>4. QED
    BY <2>1, <2>2, <2>3 DEF Stale
<1> HIDE DEF next, mine
<1>8. stain \in BOOLEAN
  BY <1>1, <1>4 DEF Reads, SnapshotOK, Snapshots
<1>9. /\ new.busy = old.busy /\ new.todo = old.todo /\ new.raced = stain
      /\ new.asked[i] = next /\ new.got[i] = mine
      /\ \A j \in Instances \ {i} : new.asked[j] = old.asked[j] /\ new.got[j] = old.got[j]
  BY <1>1 DEF Reads
<1>10. new \in Reads
  BY <1>1, <1>6, <1>7, <1>8 DEF Reads
<1> HIDE DEF new
<1>11. ASSUME ~new.raced, NEW j \in Instances \ closing PROVE ReadFresh(new, j)
  <2>1. ReadFresh(old, j)
    BY <1>1, <1>3, <1>9, <1>11 DEF ReadOK
  <2>2. CASE j # i
    BY <1>9, <2>1, <2>2 DEF ReadFresh
  <2>3. CASE j = i
    <3>1. i \in enabled
      BY <1>1, <2>1, <2>3 DEF ReadFresh
    <3>2. i \in Listed => ~Stale(i, mine)
      BY <1>7, <1>9, <1>11, <2>3 DEF IInv, SnapshotsAreFresh
    <3>3. AskFresh(i, next)
      BY <1>6 DEF AskFresh
    <3>4. next # NoAsk \/ mine # NoEntry
      BY <1>6, <1>7
    <3>5. QED
      BY <1>9, <2>3, <3>1, <3>2, <3>3, <3>4 DEF ReadFresh
  <2>4. QED
    BY <2>2, <2>3
<1>12. ReadOK(new)
  BY <1>1, <1>3, <1>6, <1>9, <1>10, <1>11 DEF ReadOK
<1>13. ReadsOK'
  BY <1>5, <1>12, OneRead DEF FailRead
<1>14. QED
  BY <1>13, ReadingKeeps DEF FailRead, IInv

\* A view that has been read is remembered: it has all that is enabled.
LEMMA InvEndRead ==
  ASSUME IInv, NEW r \in Readers, EndRead(r)
  PROVE  IInv'
<1> DEFINE old == reader[r]
           new == [of |-> old.got, built |-> TRUE, raced |-> old.raced]
<1>1. ReadOK(old) /\ old \in Reads /\ old.busy /\ old.todo = {} /\ \A i \in Instances : old.asked[i] = NoAsk
  BY DEF IInv, ReadsOK, ReadOK, EndRead, Complete, Pending, Busy
<1>2. ReadOK(Idle)
  <2>1. Idle \in Reads
    BY DEF Idle, Reads, NoEntry, Entry, Entries, NoAsk, Asks
  <2>2. QED
    BY <2>1 DEF ReadOK, Idle
<1>3. ReadsOK'
  BY <1>2, OneRead DEF EndRead
<1>4. MemoOK(new)
  <2>1. new \in Memos
    BY <1>1 DEF Reads, Memos
  <2>2. ASSUME ~old.raced, NEW i \in Instances \ closing
        PROVE  (i \in enabled <=> old.got[i] # NoEntry) /\ (i \in enabled => ~Stale(i, old.got[i]))
    BY <1>1, <2>2 DEF ReadOK, ReadFresh, IInv, FleetTyped
  <2>3. QED
    BY <2>1, <2>2 DEF MemoOK
<1> HIDE DEF new
<1>5. memo' = [memo EXCEPT ![ViewOf(r)] = new]
  BY DEF EndRead, new
<1>6. MemosOK'
  <2>1. \A v \in Views : MemoOK(memo'[v])
    BY <1>4, <1>5 DEF IInv, MemosOK
  <2>2. \A v \in Views : MemoOK(memo[v])'
    <3>1. UNCHANGED <<server, enabled, closing, due>>
      BY DEF EndRead
    <3>2. QED
      BY <2>1, <3>1 DEF MemoOK, Stale
  <2>3. memo' = [v \in Views |-> memo'[v]]
    BY <1>5 DEF IInv, MemosOK
  <2>4. QED
    BY <2>2, <2>3 DEF MemosOK
<1>7. QED
  BY <1>3, <1>6, ReadingKeeps DEF EndRead, IInv

\* No memo is as good as a fresh one.
LEMMA NoMemoOK == MemoOK(NoMemo)
BY DEF MemoOK, NoMemo, Memos, NoEntry, Entry, Entries

\* A memo grows old and is gone.
LEMMA InvExpire ==
  ASSUME IInv, NEW view \in Views, Expire(view)
  PROVE  IInv'
<1>1. \A v \in Views : MemoOK(memo'[v])
  BY NoMemoOK DEF Expire, IInv, MemosOK
<1>2. \A v \in Views : MemoOK(memo[v])'
  BY <1>1 DEF MemoOK, Stale, Expire
<1>3. MemosOK'
  BY <1>2 DEF MemosOK, IInv, Expire
<1>4. ReadsOK'
  BY DEF IInv, Expire, ReadsOK, ReadOK, ReadFresh, AskFresh, Stale, Listed
<1>5. QED
  BY <1>3, <1>4, ReadingKeeps DEF Expire, IInv

-------------------------------------------------------------------------------
(* Invalidation, and edits of the instances.                                 *)

\* Memos that are dropped tell nothing wrong.
LEMMA Dropped == ASSUME DropMemos PROVE MemosOK'
<1>1. \A v \in Views : memo'[v] = NoMemo
  BY DEF DropMemos
<1>2. MemoOK(NoMemo)'
  BY DEF MemoOK, NoMemo, Memos, NoEntry, Entry, Entries
<1>3. QED
  BY <1>1, <1>2 DEF MemosOK, DropMemos, MemoOK

\* The snapshot of i goes; the others stay as they were.
LEMMA SnapshotGoes ==
  ASSUME IInv, NEW i \in Instances, DropSnapshot(i),
         \A j \in Instances \ {i} :
           /\ server'[j] = server[j] /\ due'[j] = due[j]
           /\ j \in closing' <=> j \in closing
  PROVE  SnapshotsOK' /\ SnapshotsAreFresh'
<1>1. snapshot' = [j \in Instances |-> snapshot'[j]]
  BY DEF IInv, SnapshotsOK, DropSnapshot
<1>2. snapshot'[i] = NoSnapshot /\ \A j \in Instances \ {i} : snapshot'[j] = snapshot[j]
  BY DEF IInv, SnapshotsOK, DropSnapshot
<1>3. SnapshotOK(i)'
  BY <1>2 DEF SnapshotOK, NoSnapshot, NoEntry, Entry, Snapshots, Entries
<1>4. \A j \in Instances \ {i} : SnapshotOK(j)'
  BY <1>2 DEF SnapshotOK, IInv, SnapshotsOK
<1>5. ASSUME NEW j \in Listed', j \notin closing', Stale(j, snapshot[j].entry)' PROVE snapshot'[j].raced
  <2>1. CASE j = i
    BY <1>2, <1>5, <2>1 DEF Stale, NoSnapshot, NoEntry, Entry
  <2>2. CASE j # i
    <3>1. j \in Listed \ closing /\ snapshot'[j] = snapshot[j]
      BY <1>2, <1>5, <2>2 DEF Listed
    <3>2. server'[j] = server[j] /\ due'[j] = due[j]
      BY <2>2, <3>1 DEF Listed
    <3>3. Stale(j, snapshot[j].entry)
      BY <1>5, <3>1, <3>2 DEF Stale
    <3>4. QED
      BY <3>1, <3>3 DEF IInv, SnapshotsAreFresh
  <2>3. QED
    BY <2>1, <2>2
<1>6. QED
  BY <1>1, <1>3, <1>4, <1>5 DEF SnapshotsOK, SnapshotsAreFresh

\* Fleetarr learns of the data of i: all that was remembered of it goes, and
\* whoever is reading is overtaken.
LEMMA Forgets ==
  ASSUME IInv, NEW i \in Instances, NEW s \in Servers,
         DropSnapshot(i), DropMemos, Overtake, Told(i, s),
         UNCHANGED <<server, enabled, closing, version>>, item' \in {item, NoItem}
  PROVE  IInv'
<1>1. /\ due' \in [Instances -> [Servers -> Nat]]
      /\ \A j \in Instances, q \in Servers : due'[j][q] \in {due[j][q], version[q]}
      /\ \A j \in Instances \ {i} : due'[j] = due[j]
  BY DEF IInv, FleetTyped, Told
<1>2. FleetTyped'
  BY <1>1 DEF IInv, FleetTyped, Listed
<1>3. DueIsPast'
  BY <1>1 DEF IInv, DueIsPast, FleetTyped
<1>4. SnapshotsOK' /\ SnapshotsAreFresh'
  BY <1>1, SnapshotGoes
<1>5. QED
  BY <1>2, <1>3, <1>4, Dropped, AllOvertaken DEF IInv

\* A user refreshes an instance.
LEMMA InvRefresh ==
  ASSUME IInv, NEW i \in Instances, Refresh(i)
  PROVE  IInv'
<1>1. server[i] \in Servers
  BY DEF Refresh, Listed
<1>2. QED
  BY <1>1, Forgets DEF Refresh

\* A run begins an item of a known instance.
LEMMA InvBeginItem ==
  ASSUME IInv, NEW i \in Instances, BeginItem(i)
  PROVE  IInv'
<1>1. FleetTyped'
  BY DEF BeginItem, IInv, FleetTyped, Listed
<1>2. DueIsPast' /\ SnapshotsOK' /\ SnapshotsAreFresh'
  BY DEF BeginItem, IInv, DueIsPast, SnapshotsOK, SnapshotOK, SnapshotsAreFresh, Stale, Listed
<1>3. ReadsOK'
  BY DEF BeginItem, IInv, ReadsOK, ReadOK, ReadFresh, AskFresh, Stale, Listed
<1>4. MemosOK'
  BY DEF BeginItem, IInv, MemosOK, MemoOK, Stale
<1>5. QED
  BY <1>1, <1>2, <1>3, <1>4 DEF IInv

\* The data of a server changes before anybody is told.
LEMMA InvApply ==
  ASSUME IInv, Apply
  PROVE  IInv'
<1>1. version' \in [Servers -> Nat] /\ \A s \in Servers : version'[s] >= version[s]
  BY DEF Apply, IInv, FleetTyped
<1>2. FleetTyped'
  BY <1>1 DEF Apply, IInv, FleetTyped, Listed
<1>3. DueIsPast'
  <2>1. SUFFICES ASSUME NEW i \in Instances, NEW s \in Servers PROVE due[i][s] <= version'[s]
    BY DEF DueIsPast, Apply
  <2>2. due[i][s] <= version[s] /\ due[i][s] \in Nat /\ version[s] \in Nat
    BY DEF IInv, FleetTyped, DueIsPast
  <2>3. version'[s] \in Nat /\ version'[s] >= version[s]
    BY <1>1
  <2>4. QED
    BY <2>2, <2>3
<1>4. SnapshotsOK' /\ SnapshotsAreFresh'
  BY DEF Apply, IInv, SnapshotsOK, SnapshotOK, SnapshotsAreFresh, Stale, Listed
<1>5. ReadsOK'
  BY DEF Apply, IInv, ReadsOK, ReadOK, ReadFresh, AskFresh, Stale, Listed
<1>6. MemosOK'
  BY DEF Apply, IInv, MemosOK, MemoOK, Stale
<1>7. QED
  BY <1>2, <1>3, <1>4, <1>5, <1>6 DEF IInv

\* A handler succeeds.
LEMMA InvItemSucceeds ==
  ASSUME IInv, ItemSucceeds
  PROVE  IInv'
<1>1. item.instance \in Instances /\ item.server \in Servers
  BY DEF ItemSucceeds, IInv, FleetTyped
<1>2. QED
  BY <1>1, Forgets DEF ItemSucceeds

\* A handler fails.
LEMMA InvItemFails ==
  ASSUME IInv, ItemFails
  PROVE  IInv'
<1>1. FleetTyped'
  BY DEF ItemFails, IInv, FleetTyped, Listed
<1>2. DueIsPast' /\ SnapshotsOK' /\ SnapshotsAreFresh'
  BY DEF ItemFails, IInv, DueIsPast, SnapshotsOK, SnapshotOK, SnapshotsAreFresh, Stale, Listed
<1>3. ReadsOK'
  BY DEF ItemFails, IInv, ReadsOK, ReadOK, ReadFresh, AskFresh, Stale, Listed
<1>4. MemosOK'
  BY DEF ItemFails, IInv, MemosOK, MemoOK, Stale
<1>5. QED
  BY <1>1, <1>2, <1>3, <1>4 DEF IInv

\* A new instance has no snapshot.
LEMMA InvCreate ==
  ASSUME IInv, NEW i \in Instances, NEW s \in Servers, Create(i, s)
  PROVE  IInv'
<1>1. server'[i] = s /\ \A j \in Instances \ {i} : server'[j] = server[j]
  BY DEF Create, IInv, FleetTyped
<1>2. FleetTyped'
  BY <1>1 DEF Create, IInv, FleetTyped, Listed
<1>3. DueIsPast'
  BY DEF Create, IInv, DueIsPast
<1>4. snapshot[i] = NoSnapshot /\ SnapshotOK(i)
  BY DEF Create, IInv, SnapshotsOK, SnapshotOK
<1>5. SnapshotsOK'
  <2>1. \A j \in Instances : SnapshotOK(j)'
    BY <1>1, <1>4 DEF Create, IInv, SnapshotsOK, SnapshotOK
  <2>2. QED
    BY <2>1 DEF Create, IInv, SnapshotsOK
<1>6. SnapshotsAreFresh'
  <2>1. ~Stale(i, snapshot[i].entry)'
    BY <1>4 DEF Create, Stale, NoSnapshot, NoEntry, Entry
  <2>2. QED
    BY <1>1, <2>1 DEF Create, IInv, SnapshotsAreFresh, Stale, Listed
<1>7. QED
  BY <1>2, <1>3, <1>5, <1>6, Dropped, AllOvertaken DEF Create, IInv

\* An instance is switched on or off.
LEMMA InvSwitch ==
  ASSUME IInv, NEW i \in Instances, Switch(i)
  PROVE  IInv'
<1>1. FleetTyped'
  BY DEF Switch, IInv, FleetTyped, Listed
<1>2. DueIsPast' /\ SnapshotsOK' /\ SnapshotsAreFresh'
  BY DEF Switch, IInv, DueIsPast, SnapshotsOK, SnapshotOK, SnapshotsAreFresh, Stale, Listed
<1>3. QED
  BY <1>1, <1>2, Dropped, AllOvertaken DEF Switch, IInv

\* While the edit of i is under way, what is remembered of i is excused.
LEMMA MemosExcused ==
  ASSUME IInv, NEW i \in Instances, UNCHANGED <<memo, due>>, closing' = closing \cup {i},
         \A j \in Instances \ {i} : server'[j] = server[j] /\ (j \in enabled' <=> j \in enabled)
  PROVE  MemosOK'
<1>1. SUFFICES ASSUME NEW v \in Views PROVE MemoOK(memo[v])'
  BY DEF IInv, MemosOK
<1>2. MemoOK(memo[v])
  BY DEF IInv, MemosOK
<1>3. QED
  BY <1>2 DEF MemoOK, Stale

\* A connection field is edited: the row is committed, the agent closes.
LEMMA InvConnect ==
  ASSUME IInv, NEW i \in Instances, NEW s \in Servers, Connect(i, s)
  PROVE  IInv'
<1>1. server'[i] = s /\ \A j \in Instances \ {i} : server'[j] = server[j]
  BY DEF Connect, IInv, FleetTyped
<1>2. FleetTyped'
  BY <1>1 DEF Connect, IInv, FleetTyped, Listed
<1>3. DueIsPast'
  BY DEF Connect, IInv, DueIsPast
<1>4. SnapshotsOK'
  <2>1. \A j \in Instances : SnapshotOK(j)'
    BY <1>1 DEF Connect, IInv, SnapshotsOK, SnapshotOK
  <2>2. QED
    BY <2>1 DEF Connect, IInv, SnapshotsOK
<1>5. SnapshotsAreFresh'
  BY <1>1 DEF Connect, IInv, SnapshotsAreFresh, Stale, Listed
<1>6. ReadsOK'
  BY <1>1, UnpoolKeeps DEF Connect
<1>7. MemosOK'
  BY <1>1, MemosExcused DEF Connect
<1>8. QED
  BY <1>2, <1>3, <1>4, <1>5, <1>6, <1>7 DEF IInv

\* An instance is removed, its snapshots with it.
LEMMA InvRemove ==
  ASSUME IInv, NEW i \in Instances, Remove(i)
  PROVE  IInv'
<1>1. server'[i] = "gone" /\ \A j \in Instances \ {i} : server'[j] = server[j]
  BY DEF Remove, IInv, FleetTyped
<1>2. FleetTyped'
  BY <1>1 DEF Remove, IInv, FleetTyped, Listed
<1>3. DueIsPast'
  BY DEF Remove, IInv, DueIsPast
<1>4. SnapshotsOK' /\ SnapshotsAreFresh'
  BY <1>1, SnapshotGoes DEF Remove
<1>5. ReadsOK'
  BY <1>1, UnpoolKeeps DEF Remove
<1>6. MemosOK'
  BY <1>1, MemosExcused DEF Remove
<1>7. QED
  BY <1>2, <1>3, <1>4, <1>5, <1>6 DEF IInv

\* The edit ends with all that was remembered of i dropped.
LEMMA InvEditDone ==
  ASSUME IInv, NEW i \in Instances, EditDone(i)
  PROVE  IInv'
<1>1. FleetTyped' /\ DueIsPast'
  BY DEF EditDone, IInv, FleetTyped, Listed, DueIsPast
<1>2. SnapshotsOK' /\ SnapshotsAreFresh'
  BY SnapshotGoes DEF EditDone
<1>3. QED
  BY <1>1, <1>2, Dropped, AllOvertaken DEF EditDone, IInv

-------------------------------------------------------------------------------
(* The theorems.                                                             *)

\* Every step keeps the invariant.
LEMMA InvNext == IInv /\ [Next]_vars => IInv'
<1> SUFFICES ASSUME IInv, [Next]_vars PROVE IInv'
  OBVIOUS
<1>1. CASE Reading
  BY <1>1, InvBeginRead, InvNextInstance, InvArrive, InvStore, InvFailRead, InvEndRead, InvExpire DEF Reading
<1>2. CASE Running
  BY <1>2, InvBeginItem, InvApply, InvItemSucceeds, InvItemFails DEF Running
<1>3. CASE Editing
  BY <1>3, InvRefresh, InvSwitch, InvRemove, InvEditDone, InvCreate, InvConnect DEF Editing
<1>4. CASE UNCHANGED vars
  <2>1. FleetTyped' /\ DueIsPast'
    BY <1>4 DEF vars, IInv, FleetTyped, Listed, DueIsPast
  <2>2. SnapshotsOK' /\ SnapshotsAreFresh'
    BY <1>4 DEF vars, IInv, SnapshotsOK, SnapshotOK, SnapshotsAreFresh, Stale, Listed
  <2>3. ReadsOK'
    BY <1>4 DEF vars, IInv, ReadsOK, ReadOK, ReadFresh, AskFresh, Stale, Listed
  <2>4. MemosOK'
    BY <1>4 DEF vars, IInv, MemosOK, MemoOK, Stale
  <2>5. QED
    BY <2>1, <2>2, <2>3, <2>4 DEF IInv
<1>5. QED
  BY <1>1, <1>2, <1>3, <1>4 DEF Next

\* The invariant holds of every reachable state.
THEOREM CacheInvariant == Spec => []IInv
  BY InvInit, InvNext, PTL DEF Spec

\* A snapshot is outdated only while an edit of its instance waits for the
\* agent, or if it was asked for before the invalidation that should have
\* dropped it: for any number of instances, reads and edits in any order.
THEOREM SnapshotsFresh == Spec => []SnapshotsAreFresh
<1> IInv => SnapshotsAreFresh
  BY DEF IInv
<1> QED
  BY CacheInvariant, PTL

\* A joined view that no invalidation overtook has the enabled instances and
\* nothing outdated of them, whenever no edit is under way.
THEOREM ViewsFresh == Spec => []ViewsAreFresh
<1>1. ASSUME IInv PROVE ViewsAreFresh
  <2>1. SUFFICES ASSUME closing = {}, NEW v \in Views, memo[v] # NoMemo, ~memo[v].raced
                 PROVE  Covered(memo[v]) = enabled /\ \A i \in enabled : ~Stale(i, memo[v].of[i])
    BY DEF ViewsAreFresh
  <2>2. MemoOK(memo[v]) /\ enabled \subseteq Instances
    BY <1>1 DEF IInv, MemosOK, FleetTyped, Listed
  <2>3. \A i \in Instances : /\ i \in enabled <=> memo[v].of[i] # NoEntry
                             /\ i \in enabled => ~Stale(i, memo[v].of[i])
    BY <2>1, <2>2 DEF MemoOK
  <2>4. QED
    BY <2>2, <2>3 DEF Covered
<1> QED
  BY <1>1, CacheInvariant, PTL

===============================================================================
