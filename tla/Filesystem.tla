------------------------------ MODULE Filesystem ------------------------------
(***************************************************************************)
(* The storage engine (apps/server/src/fs/filesystem.service.ts) on a disk *)
(* other programs write to: one staged disk operation, whose preflight     *)
(* looks at the disk a check at a time before the mutation, and the        *)
(* measurements a request takes and the service remembers meanwhile.       *)
(*                                                                         *)
(* A dry run (POST /storage/preflight) is the same checks without the      *)
(* mutation.  Free space and the *Arr side of a relocation only warn; the  *)
(* *Arr side of a delete (DeleteGuard) is an input here.  Others create    *)
(* and remove files and empty folders; they make no links.                 *)
(***************************************************************************)
EXTENDS Disk, FiniteSets

CONSTANTS
  Names,         \* the names of files and folders
  Disks,         \* the disks a run may start from
  Configured,    \* FS_ROOTS
  Targets,       \* the paths the items and the requests name
  Measured,      \* the folders requests measure
  Mutable,       \* what others write: a set of <<path, node>>
  StopAt,        \* the folders a walk does not look into
  Cap,           \* bound of the code: maxEntries of a measurement and of a walk
  MaxItems,      \* bound: disk items
  MaxWrites      \* bound: writes of others

FilesystemBounds == Cap \in Nat /\ MaxItems \in Nat /\ MaxWrites \in Nat

Paths == Seq(Names)
Nodes == [kind : {"dir", "file", "link"}, dev : STRING, writable : BOOLEAN, to : Paths]

\* What a disk is: finitely many nodes, each but "/" an entry of a folder.
IsTree(d) ==
  /\ IsFiniteSet(DOMAIN d)
  /\ \A p \in DOMAIN d : p \in Paths /\ d[p] \in Nodes /\ d[p].dev # "none"
  /\ IsDir(d, <<>>)
  /\ \A p \in DOMAIN d : IsDir(d, ParentOf(p))

\* Others make no links, and do not take away the roots, which are mounted volumes.
FilesystemAssumption ==
  /\ \A d \in Disks : IsTree(d)
  /\ \A p \in Configured \cup Targets \cup Measured : p \in Paths
  /\ \A entry \in Mutable : /\ entry[1] \in Paths \ {<<>>}
                            /\ entry[2] \in Nodes /\ entry[2].kind # "link" /\ entry[2].dev # "none"
                            /\ \A d \in Disks : entry[1] \notin UsableRoots(d, Configured)

VARIABLES
  disk,
  roots,     \* PathGuard.roots, those that are usable
  task,      \* the disk item a run executes
  measurements,  \* FilesystemService.measurements of the shared service
  walk,      \* a measurement in progress
  items,     \* disk items so far
  writes     \* writes of others so far

diskVars == <<disk, roots, task, measurements, walk, items, writes>>

Relocations == {"fs.rename", "fs.move"}

\* Mutant: nobody compares the file systems.
ChecksWithoutDevice(op) ==
  CASE op = "fs.mkdir"  -> <<"free", "parent">>
    [] op \in Relocations -> <<"source", "mount", "free", "parent", "leave">>
    [] op = "fs.delete" -> <<"source", "mount", "leave", "empty", "references">>

\* The checks of each preflight, one per read of the disk, in the order of the code.
Checks(op) ==
  CASE op = "fs.mkdir"  -> <<"free", "parent">>
    [] op \in Relocations -> <<"source", "mount", "free", "parent", "device", "leave">>
    [] op = "fs.delete" -> <<"source", "mount", "leave", "empty", "references">>

(***************************************************************************)
(* from: what is relocated or deleted; to: what is created.  left: the     *)
(* checks still to make.  seen: the file system of the source and of the   *)
(* parent of the destination when they were looked at, "none" for missing; *)
(* wasDir: the source was a folder then.  raced (history): somebody wrote  *)
(* since the preflight began.                                              *)
(***************************************************************************)
NoTask == [op |-> "none"]
TaskOf(op, from, to, recursive, claimed) ==
  [op |-> op, from |-> from, to |-> to, recursive |-> recursive, claimed |-> claimed,
   left |-> Checks(op), seen |-> [from |-> "none", to |-> "none"], wasDir |-> FALSE,
   blocked |-> FALSE, phase |-> "preflight", raced |-> FALSE]

Running == task.op # "none"
DeviceAt(p) == IF Exists(disk, p) THEN disk[p].dev ELSE "none"

\* What a check looks at, and when it is a blocker.
SourceChecks(p) == ~IsDir(disk, p)
Blocks(check) ==
  \/ check = "source" /\ SourceChecks(task.from)
  \/ check = "mount" /\ IsMountPoint(disk, task.from)
  \/ check = "free" /\ Exists(disk, task.to)
  \/ check = "parent" /\ IF Exists(disk, ParentOf(task.to)) THEN ~Writable(disk, ParentOf(task.to))
                         ELSE task.op # "fs.mkdir" \/ ~task.recursive
  \/ check = "parent" /\ task.op = "fs.rename" /\ ParentOf(task.to) # ParentOf(task.from)
  \/ check = "device" /\ "none" \notin {task.seen.from, task.seen.to} /\ task.seen.from # task.seen.to
  \/ check = "leave" /\ ~Writable(disk, ParentOf(task.from))
  \/ check = "empty" /\ task.wasDir /\ ~task.recursive /\ Children(disk, task.from) # {}
  \/ check = "references" /\ task.claimed

See(check) ==
  CASE check = "source" -> [task.seen EXCEPT !.from = DeviceAt(task.from)]
    [] check = "parent" -> [task.seen EXCEPT !.to = DeviceAt(ParentOf(task.to))]
    [] OTHER -> task.seen

\* readdir follows a link.  What a folder holds: a measurement of it that nothing disturbs.
Opened(p) == IF HasKind(disk, p, "link") THEN disk[p].to ELSE p
Measurement(p) == Cardinality(Files(disk, Opened(p)))

NoWalk == [path |-> <<>>, pending |-> <<>>, files |-> 0, visited |-> 0, truncated |-> FALSE,
           active |-> FALSE, overtaken |-> FALSE]

DiskInit ==
  /\ disk \in Disks
  /\ roots = UsableRoots(disk, Configured)
  /\ task = NoTask
  /\ measurements = <<>>
  /\ walk = NoWalk
  /\ items = 0 /\ writes = 0

\* History: a change of the disk overtakes the walk and, when nobody tells the
\* service of it, excuses what it remembers.
Overtaken == walk' = [walk EXCEPT !.overtaken = @ \/ (walk.active /\ disk' # disk)]
Excused == measurements' = [p \in DOMAIN measurements |->
                              [measurements[p] EXCEPT !.excused = @ \/ disk' # disk]]

-----------------------------------------------------------------------------
(* Other programs.                                                         *)

OtherWrites ==
  /\ writes < MaxWrites
  /\ \E entry \in Mutable :
       LET p == entry[1]
       IN  \/ /\ ~Exists(disk, p) /\ IsDir(disk, ParentOf(p))
              /\ disk' = Plus(disk, [q \in {p} |-> entry[2]])
           \/ /\ Exists(disk, p) /\ Children(disk, p) = {}
              /\ disk' = Without(disk, {p})
  /\ writes' = writes + 1
  /\ task' = IF Running THEN [task EXCEPT !.raced = TRUE] ELSE task
  /\ Overtaken /\ Excused
  /\ UNCHANGED <<roots, items>>

-----------------------------------------------------------------------------
(* One disk item.                                                          *)

\* Mutant: a root may go like any folder.
AssertNothing(p) == TRUE

AssertMutable(p) == ~IsRoot(roots, p)

\* guard.resolve of every path of the payload, and assertMutable of the one
\* that goes away; a refusal leaves the item failed and everything as it was.
BeginItem(op, from, to, recursive, claimed) ==
  /\ ~Running /\ items < MaxItems
  /\ \E f \in Resolve(disk, roots, from), t \in Resolve(disk, roots, to) :
       /\ op # "fs.mkdir" => AssertMutable(f)
       /\ task' = TaskOf(op, f, t, recursive, claimed)
  /\ items' = items + 1
  /\ UNCHANGED <<disk, roots, measurements, walk, writes>>

BeginMkdir == \E p \in Targets, recursive \in BOOLEAN : BeginItem("fs.mkdir", p, p, recursive, FALSE)
BeginRelocation == \E op \in Relocations, from \in Targets, to \in Targets : BeginItem(op, from, to, FALSE, FALSE)
BeginDelete == \E p \in Targets, recursive \in BOOLEAN, claimed \in BOOLEAN : BeginItem("fs.delete", p, p, recursive, claimed)

Check ==
  /\ Running /\ task.phase = "preflight" /\ task.left # <<>>
  /\ LET check == Head(task.left)
     IN  task' = [task EXCEPT !.left = Tail(@), !.blocked = @ \/ Blocks(check), !.seen = See(check),
                              !.wasDir = IF check = "source" THEN IsDir(disk, task.from) ELSE @]
  /\ UNCHANGED <<disk, roots, measurements, walk, items, writes>>

\* assertPreflightPassed.
Refuse ==
  /\ Running /\ task.phase = "preflight" /\ task.left = <<>> /\ task.blocked
  /\ task' = NoTask
  /\ UNCHANGED <<disk, roots, measurements, walk, items, writes>>

\* rmdir, not rm, unless the payload says recursive.
RemovePath(p, recursive) == IF recursive THEN RemoveTree(disk, p) ELSE RemoveDir(disk, p)

Mutations ==
  CASE task.op = "fs.mkdir" -> MakeDir(disk, task.to, task.recursive)
    [] task.op \in Relocations -> RenamePath(disk, task.from, task.to)
    [] task.op = "fs.delete" -> RemovePath(task.from, task.recursive)

\* The mutation.  A failure ends the item and tells nobody.
Mutate ==
  /\ Running /\ task.phase = "preflight" /\ task.left = <<>> /\ ~task.blocked
  /\ \E outcome \in Mutations :
       /\ disk' = outcome.disk
       /\ task' = IF outcome.done THEN [task EXCEPT !.phase = "done"] ELSE NoTask
       /\ IF outcome.done THEN UNCHANGED measurements ELSE Excused
  /\ Overtaken
  /\ UNCHANGED <<roots, items, writes>>

\* Mutant: only the handler's own cache is emptied.
InvalidateOwn ==
  /\ Running /\ task.phase = "done"
  /\ task' = NoTask
  /\ UNCHANGED <<disk, roots, measurements, walk, items, writes>>

\* The executor, once the handler has returned: the service it works with has a
\* measurement cache of its own, so it is here that the shared one is emptied.
Invalidate ==
  /\ Running /\ task.phase = "done"
  /\ task' = NoTask
  /\ measurements' = <<>>
  /\ UNCHANGED <<disk, roots, walk, items, writes>>

-----------------------------------------------------------------------------
(* measure: depth first, one readdir after the other.                      *)

Entries(p) == {[path |-> q, kind |-> disk[q].kind] : q \in Children(disk, p)}
Listings(p) == SetToSeqs(Entries(p))

MeasureBegin ==
  /\ ~walk.active
  /\ \E p \in UNION {Resolve(disk, roots, input) : input \in Measured} :
       /\ p \notin DOMAIN measurements
       /\ \E listing \in Listings(Opened(p)) :
            walk' = [NoWalk EXCEPT !.path = p, !.pending = listing, !.active = TRUE]
  /\ UNCHANGED <<disk, roots, task, measurements, items, writes>>

MeasureEntry ==
  /\ walk.active /\ walk.pending # <<>>
  /\ LET entry == Head(walk.pending)
         deeper == IF entry.kind = "dir" THEN Listings(entry.path) ELSE {<<>>}
     IN  IF walk.visited >= Cap THEN walk' = [walk EXCEPT !.pending = <<>>, !.truncated = TRUE]
         ELSE \E listing \in deeper :
                walk' = [walk EXCEPT !.visited = @ + 1, !.pending = listing \o Tail(@),
                                     !.files = IF entry.kind = "file" THEN @ + 1 ELSE @]
  /\ UNCHANGED <<disk, roots, task, measurements, items, writes>>

MeasureEnd ==
  /\ walk.active /\ walk.pending = <<>>
  /\ measurements' = Plus(measurements, [p \in {walk.path} |-> [files |-> walk.files, truncated |-> walk.truncated,
                                                              excused |-> walk.overtaken]])
  /\ walk' = NoWalk
  /\ UNCHANGED <<disk, roots, task, items, writes>>

\* The minute a measurement is good for.
Expire ==
  /\ \E p \in DOMAIN measurements : measurements' = [q \in DOMAIN measurements \ {p} |-> measurements[q]]
  /\ UNCHANGED <<disk, roots, task, walk, items, writes>>

-----------------------------------------------------------------------------

DiskNext ==
  \/ OtherWrites
  \/ BeginMkdir \/ BeginRelocation \/ BeginDelete \/ Check \/ Refuse \/ Mutate \/ Invalidate
  \/ MeasureBegin \/ MeasureEntry \/ MeasureEnd \/ Expire

DiskSpec == DiskInit /\ [][DiskNext]_diskVars

-----------------------------------------------------------------------------
(* walkDirectories, on a disk that stands still: level by level, the reads *)
(* of a level in the order of its folders.                                 *)

Subfolders(p) == IF p \in StopAt THEN <<>> ELSE SetToSeq({q \in Children(disk, p) : IsDir(disk, q)})

\* Mutant: a list that is exactly full counts as cut.
LevelFull(state) ==
  LET found == FlattenSeq([i \in DOMAIN state.frontier |-> Subfolders(state.frontier[i])])
      room == Cap - Len(state.directories)
      cut == Len(found) >= room
      taken == SubSeq(found, 1, IF cut THEN room ELSE Len(found))
  IN  [directories |-> state.directories \o taken, truncated |-> cut, frontier |-> IF cut THEN <<>> ELSE taken]

Level(state) ==
  LET found == FlattenSeq([i \in DOMAIN state.frontier |-> Subfolders(state.frontier[i])])
      room == Cap - Len(state.directories)
      cut == Len(found) > room
      taken == SubSeq(found, 1, IF cut THEN room ELSE Len(found))
  IN  [directories |-> state.directories \o taken,
       truncated |-> cut,
       frontier |-> IF cut THEN <<>> ELSE taken]

WalkDirectories(p) ==
  FoldLeft(LAMBDA state, depth : IF state.frontier = <<>> THEN state ELSE Level(state),
           [directories |-> <<>>, truncated |-> FALSE, frontier |-> <<p>>],
           [depth \in 1..(Cardinality(DOMAIN disk) + 1) |-> depth])

-----------------------------------------------------------------------------
(* Properties.                                                             *)

OwnStep == Mutate
Changed(p) == Exists(disk, p) # Exists(disk, p)' \/ (Exists(disk, p) /\ disk[p] # disk'[p])

\* Whatever links are on the way, an item changes nothing but what lies strictly
\* below a root: paths.ts, "the security boundary for every filesystem operation".
StaysInside ==
  [][OwnStep => \A p \in DOMAIN disk \cup DOMAIN disk' :
                  Changed(p) => \E r \in roots : IsStrictPrefix(r, p)]_diskVars

\* The preflight foretells: what passes it with nobody else at the disk is done,
\* rm -r apart (it stops at an error), but for the things no check looks at: a
\* destination inside the source, a parent that is not a folder, and, when the
\* parent is to be made too, the folder that is there.
Unforetold ==
  \/ task.op = "fs.delete" /\ task.recursive
  \/ task.op \in Relocations /\ IsStrictPrefix(task.from, task.to)
  \/ task.op # "fs.delete" /\ HasKind(disk, ParentOf(task.to), "file")
  \/ /\ task.op = "fs.mkdir" /\ ~Exists(disk, ParentOf(task.to))
     /\ LET base == Deepest(disk, task.to) IN ~IsDir(disk, base) \/ ~Writable(disk, base)
PassedMeansDone == [][(OwnStep /\ ~task.raced /\ ~Unforetold) => task' # NoTask]_diskVars

\* A measurement the service still hands out is what the folder holds, or at
\* least so much when it says that it was cut: unless others wrote since, or a
\* mutation overtook the walk that took it or stopped at an error.
HandedOutIsFresh ==
  (~Running \/ task.phase # "done") =>
    \A p \in DOMAIN measurements :
      LET m == measurements[p]
      IN  m.excused \/ (IF m.truncated THEN m.files <= Measurement(p) ELSE m.files = Measurement(p))

\* walkDirectories lists each folder below the target that is not below one it
\* stops at, links left alone, and says so when the cap cut the list.
Walkable(p) ==
  {q \in Below(disk, p) : /\ IsDir(disk, q)
                          /\ \A r \in StopAt : ~(Under(p, r) /\ IsStrictPrefix(r, q))}
WalkIsHonest ==
  \A p \in DOMAIN disk :
    IsDir(disk, p) =>
      LET w == WalkDirectories(p)
      IN  /\ ToSet(w.directories) \subseteq Walkable(p)
          /\ Len(w.directories) = IF w.truncated THEN Cap ELSE Cardinality(Walkable(p))
          /\ Cardinality(ToSet(w.directories)) = Len(w.directories)
          /\ w.truncated <=> Cardinality(Walkable(p)) > Cap

=============================================================================
