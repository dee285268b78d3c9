------------------------------ MODULE Migrations ------------------------------
(***************************************************************************)
(* The database and its schema (db/migrate.ts, migrations/*.sql): releases *)
(* that follow one another, each with the files up to its own, a process   *)
(* that may stop anywhere, and rows that are written in between.           *)
(*                                                                         *)
(* Of the ops and resources that appear together one stands for all.  A    *)
(* row of queue_items is its op, its instance and its producer; a row of   *)
(* queue_events is its item.  Runs are never deleted and are left out.     *)
(***************************************************************************)
EXTENDS Integers, FiniteSets

CONSTANTS
  ItemIds,         \* ids of queue_items; after a rebuild AUTOINCREMENT may give one again
  EventIds,        \* ids of queue_events
  InstanceIds,
  Null           \* no row

VARIABLES
  instances,     \* the rows of instances
  items,         \* of queue_items: the row of each id there is
  events,        \* of queue_events: the item of each id there is, or Null
  snapshots,     \* of resource_snapshots: pairs of an instance and a resource
  ops,           \* what the CHECK of queue_items allows
  resources,     \* what the CHECK of resource_snapshots allows
  recorded,      \* the rows of schema_migrations
  userVersion,   \* PRAGMA user_version
  release,       \* the newest file the program comes with
  pc,            \* "down" | "migrating" | "serving"
  foreignKeys    \* PRAGMA foreign_keys of the connection

rows == <<instances, items, events, snapshots>>
schema == <<ops, resources, recorded, userVersion>>
process == <<release, pc, foreignKeys>>
databaseVars == <<rows, schema, process>>

-----------------------------------------------------------------------------
(* The files.                                                              *)

Latest == 7

\* What the CHECK of queue_items allows once a file has made it.
Ops001 == {"tag.create"}
Ops002 == {"tag.create", "fs.mkdir"}
Ops003 == {"tag.create", "fs.mkdir", "importList.create"}
Ops005 == {"tag.create", "fs.mkdir", "importList.create", "media.delete"}
Ops006 == {"tag.create", "fs.mkdir", "importList.create", "media.delete", "collection.update"}
Ops007 == {"tag.create", "fs.mkdir", "media.delete", "collection.update"}
OpsOf == <<Ops001, Ops002, Ops003, Ops003, Ops005, Ops006, Ops007>>

\* The same of resource_snapshots.
Resources001 == {"tag"}
Resources004 == {"tag", "importListMovie"}
Resources006 == {"tag", "importListMovie", "collection"}
ResourcesOf ==
  <<Resources001, Resources001, Resources001, Resources004, Resources004, Resources006, Resources006>>

\* The ops and resources the code knows.
QueueOps == {"tag.create", "fs.mkdir", "media.delete", "collection.update"}
SnapshotResources == {"tag", "importListMovie", "collection"}

\* Work on the disk, and only that, belongs to no instance.
Passes(row, allowed) == row.op \in allowed /\ (row.instance = Null <=> row.op = "fs.mkdir")

\* The rows a file copies.  The last one deletes an op, and clears what refers to it.
Doomed == {i \in DOMAIN items : items[i].op = "importList.create"}
Cleared(item, f) == IF f = 7 /\ item \in Doomed THEN Null ELSE item
Copied(f) ==
  [i \in IF f = 7 THEN DOMAIN items \ Doomed ELSE DOMAIN items |->
     [items[i] EXCEPT !.dependsOn = Cleared(@, f)]]

\* Mutant: 007 leaves the events of what it deletes.
LinksKept(f) == events
Links(f) == [e \in DOMAIN events |-> Cleared(events[e], f)]

\* CREATE, INSERT ... SELECT, DROP, ALTER TABLE ... RENAME.  The drop deletes the rows,
\* and what refers to them with ON DELETE CASCADE, if foreign keys are enforced.
Rebuild(f) ==
  /\ \A i \in DOMAIN Copied(f) : Passes(Copied(f)[i], OpsOf[f])
  /\ \A s \in snapshots : s[2] \in ResourcesOf[f]
  /\ items' = Copied(f)
  /\ events' = IF foreignKeys /\ f \notin {1, 4}
               THEN [e \in {d \in DOMAIN events : Links(f)[d] = Null} |-> Null]
               ELSE Links(f)
  /\ ops' = OpsOf[f] /\ resources' = ResourcesOf[f]
  /\ UNCHANGED <<instances, snapshots>>

-----------------------------------------------------------------------------
(* The start of the process.                                               *)

DatabaseInit ==
  /\ instances = {} /\ items = [i \in {} |-> Null] /\ events = [e \in {} |-> Null] /\ snapshots = {}
  /\ ops = {} /\ resources = {} /\ recorded = {} /\ userVersion = 0
  /\ release = 1 /\ pc = "down" /\ foreignKeys = FALSE

PendingFiles(r) == (1 .. r) \ recorded

\* Mutant: the pragma stays as the connection has it.
BootEnforcing(r) ==
  /\ pc = "down"
  /\ release' = r /\ foreignKeys' = TRUE
  /\ pc' = IF PendingFiles(r) = {} THEN "serving" ELSE "migrating"
  /\ UNCHANGED <<rows, schema>>

\* The process starts, with the release it had or a later one.  Foreign keys are off
\* while there are files to apply.
Boot(r) ==
  /\ pc = "down"
  /\ release' = r /\ foreignKeys' = (PendingFiles(r) = {})
  /\ pc' = IF PendingFiles(r) = {} THEN "serving" ELSE "migrating"
  /\ UNCHANGED <<rows, schema>>

\* One file and its record, in one transaction.
ApplyFile(f) ==
  /\ pc = "migrating" /\ f \in PendingFiles(release) /\ \A g \in PendingFiles(release) : f <= g
  /\ Rebuild(f)
  /\ recorded' = recorded \cup {f} /\ userVersion' = f
  /\ UNCHANGED process

\* PRAGMA foreign_key_check
Linked ==
  /\ \A i \in DOMAIN items : /\ items[i].instance \in instances \cup {Null}
                             /\ items[i].dependsOn \in DOMAIN items \cup {Null}
  /\ \A e \in DOMAIN events : events[e] \in DOMAIN items \cup {Null}
  /\ \A s \in snapshots : s[1] \in instances

Recheck ==
  /\ pc = "migrating" /\ PendingFiles(release) = {}
  /\ foreignKeys' = TRUE
  /\ pc' = IF Linked THEN "serving" ELSE "down"
  /\ UNCHANGED <<rows, schema, release>>

\* The process dies, or a file throws: its transaction is rolled back.
Stop ==
  /\ pc # "down" /\ pc' = "down"
  /\ UNCHANGED <<rows, schema, release, foreignKeys>>

-----------------------------------------------------------------------------
(* What a release that serves writes: anything its schema takes.           *)

Stage(i, row) ==
  /\ pc = "serving" /\ i \notin DOMAIN items
  /\ Passes(row, ops)
  /\ foreignKeys => row.instance \in instances \cup {Null} /\ row.dependsOn \in DOMAIN items \cup {Null}
  /\ items' = [j \in DOMAIN items \cup {i} |-> IF j = i THEN row ELSE items[j]]
  /\ UNCHANGED <<instances, events, snapshots, schema, process>>

Log(e, i) ==
  /\ pc = "serving" /\ e \notin DOMAIN events /\ i \in DOMAIN items
  /\ events' = [d \in DOMAIN events \cup {e} |-> IF d = e THEN i ELSE events[d]]
  /\ UNCHANGED <<instances, items, snapshots, schema, process>>

\* The least set of rows that holds S and the dependents of its members.
Cascade(S) ==
  {i \in DOMAIN items : \A T \in SUBSET DOMAIN items :
     (S \subseteq T /\ \A j \in DOMAIN items : items[j].dependsOn \in T => j \in T) => i \in T}
Gone(S) == IF foreignKeys THEN Cascade(S) ELSE S
Without(gone) ==
  /\ items' = [i \in DOMAIN items \ gone |-> items[i]]
  /\ events' = [e \in {d \in DOMAIN events : foreignKeys => events[d] \notin gone} |-> events[e]]

DeleteItems(S) ==
  /\ pc = "serving" /\ Without(Gone(S))
  /\ UNCHANGED <<instances, snapshots, schema, process>>

CreateInstance(a) ==
  /\ pc = "serving" /\ instances' = instances \cup {a}
  /\ UNCHANGED <<items, events, snapshots, schema, process>>

RemoveInstance(a) ==
  /\ pc = "serving" /\ a \in instances
  /\ instances' = instances \ {a}
  /\ Without(IF foreignKeys THEN Gone({i \in DOMAIN items : items[i].instance = a}) ELSE {})
  /\ snapshots' = {s \in snapshots : foreignKeys => s[1] # a}
  /\ UNCHANGED <<schema, process>>

PutSnapshot(a, r) ==
  /\ pc = "serving" /\ r \in resources /\ (foreignKeys => a \in instances)
  /\ snapshots' = snapshots \cup {<<a, r>>}
  /\ UNCHANGED <<instances, items, events, schema, process>>

Invalidate(a) ==
  /\ pc = "serving" /\ snapshots' = {s \in snapshots : s[1] # a}
  /\ UNCHANGED <<instances, items, events, schema, process>>

Row ==
  [op : UNION {OpsOf[f] : f \in 1 .. Latest}, instance : InstanceIds \cup {Null}, dependsOn : ItemIds \cup {Null}]

DatabaseNext ==
  \/ \E r \in release .. Latest : Boot(r)
  \/ \E f \in 1 .. Latest : ApplyFile(f)
  \/ Recheck \/ Stop
  \/ \E i \in ItemIds, row \in Row : Stage(i, row)
  \/ \E e \in EventIds, i \in ItemIds : Log(e, i)
  \/ \E S \in SUBSET DOMAIN items : DeleteItems(S)
  \/ \E a \in InstanceIds :
       CreateInstance(a) \/ RemoveInstance(a) \/ Invalidate(a) \/ \E r \in resources : PutSnapshot(a, r)

DatabaseSpec == DatabaseInit /\ [][DatabaseNext]_databaseVars

-----------------------------------------------------------------------------
(* Properties.                                                             *)

\* A release that serves has foreign keys enforced, nothing that refers to a row that is
\* gone, and the schema of its own files - of which the database says "where you are"
\* (migrate.ts:20-21).  The code of the last one stores every op and resource it has and
\* reads every row: one op it does not know would make the queue "fail for good"
\* (007:6-8).  The check after the last file is not made again by a start that follows a
\* crash or a failed check; it never had to be.
ServedDatabaseIsWhole ==
  pc = "serving" =>
    /\ foreignKeys /\ Linked
    /\ recorded = 1 .. release /\ userVersion = release
    /\ \A i \in DOMAIN items : Passes(items[i], ops)
    /\ \A s \in snapshots : s[2] \in resources
    /\ release = Latest => ops = QueueOps /\ resources = SnapshotResources

\* Whatever release is next and wherever it stops, no file is refused by the rows it
\* copies: the process would never start again.
FilesApply ==
  pc = "migrating" =>
    \A f \in PendingFiles(release) :
      (\A g \in PendingFiles(release) : f <= g) =>
        /\ \A i \in DOMAIN Copied(f) : Passes(Copied(f)[i], OpsOf[f])
        /\ \A s \in snapshots : s[2] \in ResourcesOf[f]

UpgradesAreWhole == ServedDatabaseIsWhole /\ FilesApply

\* No upgrade takes a row: not the audit trail, which hangs on queue_items by a cascade
\* (002:4-6), no snapshot, and no staged work but what the last file takes out by name,
\* whose events lose their link and whose dependents their producer (007:17-26).
KeepsRows ==
  LET gone == IF 7 \in recorded' \ recorded THEN Doomed ELSE {} IN
  pc # "serving" =>
    /\ instances' = instances /\ snapshots' = snapshots
    /\ DOMAIN items' = DOMAIN items \ gone
    /\ \A i \in DOMAIN items' :
         items'[i] = [items[i] EXCEPT !.dependsOn = IF @ \in gone THEN Null ELSE @]
    /\ DOMAIN events' = DOMAIN events
    /\ \A e \in DOMAIN events : events'[e] = IF events[e] \in gone THEN Null ELSE events[e]
UpgradesKeepRows == [][KeepsRows]_databaseVars

=============================================================================
