----------------------------- MODULE StagedChains -----------------------------
(***************************************************************************)
(* The chains of the web store (stores/queue.ts remapRootFolder,           *)
(* stageReconcile, stageFolderDeletions), from the dialogs that plan them  *)
(* through the requests that stage them to their execution against the     *)
(* disk and the *Arr servers, each call of which may fail or lose its      *)
(* answer.                                                                 *)
(*                                                                         *)
(* The queue is reduced to what a chain meets of it (QueueExecutor has the *)
(* rest): an item whose producer has not succeeded is skipped, items are   *)
(* retried and removed.  One dialog, opened on the folder From.            *)
(***************************************************************************)
EXTENDS DeleteGuard, Naturals, SequencesExt

CONSTANTS
  Instances, Media, Lists, Collections,   \* subsets of Ids
  Owner,          \* the instance of each of Media, Lists and Collections
  From, To,       \* the folder the dialog is about, and its new place or name
  Worlds,         \* what the fleet and the disk may hold at first
  Late,           \* media an instance may add below From later
  Kinds,          \* the dialogs: subset of {"remap", "reconcile", "delete"}
  MaxMeddling     \* bound: items retried, removed or run before their turn

\* A path is the names on the way to it.
Path == Seq(STRING)
Under(p, q) == IsPrefix(p, q)

(***************************************************************************)
(* A world: root folders registered; the path of each medium in its        *)
(* instance and where its files are, <<>> for nowhere; lists and           *)
(* collections with the folder they fill; the folders on disk.             *)
(***************************************************************************)
World ==
  [roots : [Instances -> SUBSET Path], path : [Media -> Path], files : [Media -> Path],
   list : [Lists -> [at : Path, flags : List]], coll : [Collections -> [at : Path, flags : Collection]],
   dirs : SUBSET Path]

ASSUME ChainBounds ==
  /\ MaxMeddling \in Nat /\ Kinds \subseteq {"remap", "reconcile", "delete"}
  /\ Ids \subseteq STRING /\ Media \cup Lists \cup Collections \cup Instances \subseteq Ids
  /\ Late \subseteq Media
  /\ \A x \in Media \cup Lists \cup Collections : Owner[x] \in Instances
  /\ IsFiniteSet(Instances) /\ IsFiniteSet(Lists) /\ IsFiniteSet(Collections)

\* Neither dialog goes to where it comes from (RemapDialog canConfirm); a rename stays
\* in its parent folder (filesystem.service.ts same_parent).
ASSUME Destination ==
  /\ From \in Path /\ To \in Path /\ From # To
  /\ "reconcile" \in Kinds => ~Under(From, To) /\ ~Under(To, From)

\* Media are where their files are: directly in a root folder of their instance, in a
\* folder below one, or outside all of them.
ASSUME FirstWorlds ==
  \A w \in Worlds :
    w \in World /\ w.files = w.path /\ \A i \in Instances : IsFiniteSet(w.roots[i]) /\ <<>> \notin w.roots[i]

VARIABLES
  world,      \* the fleet and the disk
  dialog,     \* what the dialog knows and has chosen
  idCache,    \* matrix.ts mediaIdCache for From, as earlier dialogs left it
  todo,       \* the requests that still have to be sent, each a batch of items
  queue,      \* the items of the chain, in queue order
  meddling,
  known,      \* history, of the confirmation: the media each instance had below From
              \* ("below"), and those directly in a root folder ("direct")
  straight,   \* history: each item was staged, ran once and in queue order
  alone       \* history: only the chain has changed the fleet

vars == <<world, dialog, idCache, todo, queue, meddling, known, straight, alone>>

RewritePathPrefix(p, from, to) == IF Under(from, p) THEN to \o SubSeq(p, Len(from) + 1, Len(p)) ELSE p
MediaOf(i) == {m \in Media : Owner[m] = i}

\* The media directly in a root folder of their instance, and no root folder themselves.
Direct == {m \in Media : world.path[m] # <<>> /\ Front(world.path[m]) \in world.roots[Owner[m]]
                         /\ world.path[m] \notin world.roots[Owner[m]]}

\* pageMedia: what a folder's query answers, nested registrations included.
IdsIn(i, p) == {m \in MediaOf(i) : world.path[m] # <<>> /\ Under(p, world.path[m])}

ClaimsAt(p) ==
  [rootFolders |-> {i \in Instances : \E r \in world.roots[i] : Under(p, r)},
   media |-> {m \in Media : world.path[m] # <<>> /\ Under(p, world.path[m])},
   lists |-> {world.list[l].flags : l \in {l \in Lists : Under(p, world.list[l].at)}},
   collections |-> {world.coll[c].flags : c \in {c \in Collections : Under(p, world.coll[c].at)}},
   complete |-> TRUE]

-----------------------------------------------------------------------------
(* The items.                                                              *)

NoArgs == [ids |-> {}, at |-> <<>>, to |-> <<>>, flag |-> FALSE]
Item(op, i, args, dep) == [op |-> op, instance |-> i, args |-> args, dep |-> dep, status |-> "pending"]

Mkdir(p) == Item("fs.mkdir", "disk", [NoArgs EXCEPT !.at = p], 0)
RenameItem(from, to) == Item("fs.rename", "disk", [NoArgs EXCEPT !.at = from, !.to = to], 0)
DeleteItem(p, force, dep) == Item("fs.delete", "disk", [NoArgs EXCEPT !.at = p, !.flag = force], dep)
CreateRoot(i, p, dep) == Item("rootFolder.create", i, [NoArgs EXCEPT !.at = p], dep)
DropRoot(i, p, dep) == Item("rootFolder.delete", i, [NoArgs EXCEPT !.at = p], dep)
\* Mutant: the instance is only told of the path, its files stay.
MoveMediaOnPaper(i, ids, p, moveFiles, dep) ==
  Item("media.moveRootFolder", i, [NoArgs EXCEPT !.ids = ids, !.to = p], dep)
MoveMedia(i, ids, p, moveFiles, dep) ==
  Item("media.moveRootFolder", i, [NoArgs EXCEPT !.ids = ids, !.to = p, !.flag = moveFiles], dep)
AimList(l, p, dep) == Item("importList.update", Owner[l], [NoArgs EXCEPT !.ids = {l}, !.to = p], dep)
DisableList(l, dep) == Item("importList.setEnabled", Owner[l], [NoArgs EXCEPT !.ids = {l}], dep)
AimCollections(i, ids, p, dep) == Item("collection.update", i, [NoArgs EXCEPT !.ids = ids, !.to = p], dep)
UnmonitorAll(i, ids, dep) == Item("collection.update", i, [NoArgs EXCEPT !.ids = ids, !.flag = TRUE], dep)

\* What the disk or an instance refuses.  Radarr validates the folder of a
\* collection against the registered roots.
Accepts(item) ==
  LET args == item.args
      i == item.instance
  IN  CASE item.op = "fs.mkdir" -> args.at \notin world.dirs
        [] item.op = "fs.rename" -> args.at \in world.dirs /\ args.to \notin world.dirs
        [] item.op = "fs.delete" -> args.at \in world.dirs /\ Passes(ClaimsAt(args.at), args.flag, {})
        [] item.op = "rootFolder.create" -> args.at \in world.dirs /\ args.at \notin world.roots[i]
        [] item.op = "rootFolder.delete" -> args.at \in world.roots[i]
        [] item.op = "collection.update" -> args.flag \/ \E r \in world.roots[i] : Under(r, args.to)
        [] OTHER -> TRUE

\* An instance puts what it is told to move directly into the new root folder.
Rehome(p, root) == Append(root, Last(p))

After(item) ==
  LET args == item.args
      i == item.instance
  IN  CASE item.op = "fs.mkdir" -> [world EXCEPT !.dirs = @ \cup {args.at}]
        [] item.op = "fs.rename" ->
             [world EXCEPT !.dirs = {RewritePathPrefix(d, args.at, args.to) : d \in @},
                           !.files = [m \in Media |-> RewritePathPrefix(@[m], args.at, args.to)]]
        [] item.op = "fs.delete" ->
             [world EXCEPT !.dirs = {d \in @ : ~Under(args.at, d)},
                           !.files = [m \in Media |-> IF Under(args.at, @[m]) THEN <<>> ELSE @[m]]]
        [] item.op = "rootFolder.create" -> [world EXCEPT !.roots[i] = @ \cup {args.at}]
        [] item.op = "rootFolder.delete" -> [world EXCEPT !.roots[i] = @ \ {args.at}]
        [] item.op = "media.moveRootFolder" ->
             [world EXCEPT !.path = [m \in Media |-> IF m \in args.ids THEN Rehome(@[m], args.to) ELSE @[m]],
                           !.files = [m \in Media |->
                              IF m \in args.ids /\ args.flag /\ @[m] = world.path[m] THEN Rehome(@[m], args.to) ELSE @[m]]]
        [] item.op = "importList.update" ->
             [world EXCEPT !.list = [l \in Lists |->
                IF l \in args.ids THEN [world.list[l] EXCEPT !.at = args.to] ELSE world.list[l]]]
        [] item.op = "importList.setEnabled" ->
             [world EXCEPT !.list = [l \in Lists |->
                IF l \in args.ids THEN [world.list[l] EXCEPT !.flags = SetEnabled(world.list[l].flags)] ELSE world.list[l]]]
        [] item.op = "collection.update" ->
             [world EXCEPT !.coll = [c \in Collections |->
                IF c \notin args.ids THEN world.coll[c]
                ELSE IF args.flag THEN [world.coll[c] EXCEPT !.flags = Unmonitor(world.coll[c].flags)]
                ELSE [world.coll[c] EXCEPT !.at = args.to]]]

-----------------------------------------------------------------------------
(* The plans.  An item names its producer by its place in the queue.       *)

PlaceOf(s, e) == CHOOSE k \in DOMAIN s : s[k] = e
\* The request for a batch; an empty one is not sent.
Batch(items) == IF items = <<>> THEN <<>> ELSE <<items>>

\* The root folders at or below From, as (instance, folder).
RootsBelow == UNION {{<<i, r>> : r \in {r \in world.roots[i] : Under(From, r)}} : i \in Instances}

\* RemapDialog: the lists and collections still aimed at or below From, and those
\* of them that are staged.
StrandedLists(chosen) == {l \in Lists : Owner[l] \in chosen /\ Under(From, world.list[l].at)}
StrandedCollections(chosen) == {c \in Collections : Owner[c] \in chosen /\ Under(From, world.coll[c].at)}
ListTargets(chosen, relist) == IF relist THEN SetToSeq(StrandedLists(chosen)) ELSE <<>>
CollectionTargets(chosen, recollect) == IF recollect THEN SetToSeq(StrandedCollections(chosen)) ELSE <<>>

\* stores/queue.ts remapRootFolder.
RemapPlan(chosen, ids, mkdir, removeOld, relist, recollect) ==
  LET heads == IF mkdir THEN <<Mkdir(To)>> ELSE <<>>
      creators == SetToSeq({i \in chosen : To \notin world.roots[i]})
      movers == SetToSeq({i \in chosen : ids[i] # {}})
      created(i) == IF i \in ToSet(creators) THEN Len(heads) + PlaceOf(creators, i) ELSE 0
      moved(i) == IF i \in ToSet(movers) THEN Len(heads) + Len(creators) + PlaceOf(movers, i) ELSE 0
      \* What the next step of an instance waits on.
      gate(i) == IF moved(i) # 0 THEN moved(i) ELSE IF created(i) # 0 THEN created(i) ELSE Len(heads)
      lists == ListTargets(chosen, relist)
      colls == CollectionTargets(chosen, recollect)
      leavers == SetToSeq({i \in chosen : removeOld})
  IN  Batch(heads)
      \o Batch([k \in DOMAIN creators |-> CreateRoot(creators[k], To, Len(heads))])
      \o Batch([k \in DOMAIN movers |-> MoveMedia(movers[k], ids[movers[k]], To, TRUE, created(movers[k]))])
      \o Batch([k \in DOMAIN lists |->
           AimList(lists[k], RewritePathPrefix(world.list[lists[k]].at, From, To), gate(Owner[lists[k]]))])
      \o Batch([k \in DOMAIN colls |->
           AimCollections(Owner[colls[k]], {colls[k]}, RewritePathPrefix(world.coll[colls[k]].at, From, To), gate(Owner[colls[k]]))])
      \o Batch([k \in DOMAIN leavers |-> DropRoot(leavers[k], From, gate(leavers[k]))])

\* alignTargetsFor: one instance after the other, its roots at or below From
\* outermost first.
AlignTargets(chosen) ==
  {targets \in SetToSeqs({p \in RootsBelow : p[1] \in chosen}) :
     \A j, k \in DOMAIN targets : j < k /\ targets[j][1] = targets[k][1] =>
       /\ Len(targets[j][2]) <= Len(targets[k][2])
       /\ \A n \in j..k : targets[n][1] = targets[j][1]}
\* The root of the instance a collection is nearest to.
Nearest(i, p) == LongestCommonPrefix({p} \cup {CHOOSE r \in world.roots[i] :
                   Under(r, p) /\ \A s \in world.roots[i] : Under(s, p) => Len(s) <= Len(r)})

\* Mutant: the old root goes once the new one is there.
AlignBatchUngated(i, r, ids, removeOld, n) ==
  <<CreateRoot(i, RewritePathPrefix(r, From, To), 1)>>
  \o (IF ids = {} THEN <<>> ELSE <<MoveMedia(i, ids, RewritePathPrefix(r, From, To), FALSE, n + 1)>>)
  \o (IF removeOld THEN <<DropRoot(i, r, n + 1)>> ELSE <<>>)
\* One (instance, root folder) pair of stageReconcile, staged behind place n.
AlignBatch(i, r, ids, removeOld, n) ==
  LET create == n + 1
      align == IF ids = {} THEN create ELSE n + 2
      colls == SetToSeq({c \in Collections : Owner[c] = i /\ Under(From, world.coll[c].at)
                        /\ (\E p \in RootsBelow : p[1] = i /\ Under(p[2], world.coll[c].at)) /\ Nearest(i, world.coll[c].at) = r})
  IN  <<CreateRoot(i, RewritePathPrefix(r, From, To), 1)>>
      \o (IF ids = {} THEN <<>> ELSE <<MoveMedia(i, ids, RewritePathPrefix(r, From, To), FALSE, create)>>)
      \o [k \in DOMAIN colls |->
            AimCollections(i, {colls[k]}, RewritePathPrefix(world.coll[colls[k]].at, From, To), align)]
      \o (IF removeOld THEN <<DropRoot(i, r, align)>> ELSE <<>>)

\* stores/queue.ts stageReconcile: the rename first, one request per item.
ReconcilePlan(targets, counts, removeOld) ==
  LET upTo[n \in 0..Len(targets)] ==
        IF n = 0 THEN <<RenameItem(From, To)>>
        ELSE upTo[n - 1] \o AlignBatch(targets[n][1], targets[n][2], counts[targets[n]].ids, removeOld, Len(upTo[n - 1]))
      items == upTo[Len(targets)]
  IN  [k \in DOMAIN items |-> <<items[k]>>]

\* Mutant: registrations below the folder are forgotten.
DeletePlanShallow(ticked, force) ==
  LET owners == SetToSeq({i \in Instances : "rootFolders" \in ticked /\ From \in world.roots[i]})
      all == [k \in DOMAIN owners |-> DropRoot(owners[k], From, 0)] \o <<DeleteItem(From, force, 0)>>
  IN  [k \in DOMAIN all |-> <<[all[k] EXCEPT !.dep = k - 1]>>]

\* stores/queue.ts stageFolderDeletions: serial, each item behind the last.
DeletePlan(ticked, force) ==
  LET rs == SetToSeq({p \in RootsBelow : "rootFolders" \in ticked})
      ls == SetToSeq({l \in Lists : "importLists" \in ticked /\ Under(From, world.list[l].at) /\ Enabled(world.list[l].flags)})
      aimed(i) == {c \in Collections : Owner[c] = i /\ Under(From, world.coll[c].at)
                     /\ (world.coll[c].flags.monitored \/ world.coll[c].flags.searchOnAdd)}
      cs == SetToSeq({i \in Instances : "collections" \in ticked /\ aimed(i) # {}})
      all == [k \in DOMAIN rs |-> DropRoot(rs[k][1], rs[k][2], 0)]
               \o [k \in DOMAIN ls |-> DisableList(ls[k], 0)]
               \o [k \in DOMAIN cs |-> UnmonitorAll(cs[k], aimed(cs[k]), 0)] \o <<DeleteItem(From, force, 0)>>
  IN  [k \in DOMAIN all |-> <<[all[k] EXCEPT !.dep = k - 1]>>]

-----------------------------------------------------------------------------
(* The dialogs.                                                            *)

\* A count: of the media of an instance at or below one of its roots.
Uncounted == [state |-> "loading", ids |-> {}]
Failed == [state |-> "error", ids |-> {}]
Counted(ids) == [state |-> "ok", ids |-> ids]

\* RemapDialog candidates; alignTargetsFor.
Countable(kind) ==
  CASE kind = "remap" -> {<<i, From>> : i \in {i \in Instances : From \in world.roots[i]}}
    [] kind = "reconcile" -> RootsBelow
    [] kind = "delete" -> {}

NoDialog == [kind |-> "none"]

Init ==
  /\ world \in Worlds
  /\ dialog = NoDialog
  /\ idCache \in {[i \in Instances |-> Uncounted], [i \in Instances |-> Counted(IdsIn(i, From))]}
  /\ todo = <<>> /\ queue = <<>>
  /\ meddling = 0
  /\ known = [below |-> [i \in Instances |-> {}], direct |-> {}]
  /\ straight = TRUE /\ alone = TRUE

History == <<known, straight, alone>>

Open ==
  /\ dialog = NoDialog
  /\ \E kind \in Kinds : dialog' = [kind |-> kind, counts |-> [p \in Countable(kind) |-> Uncounted]]
  /\ UNCHANGED <<world, idCache, todo, queue, meddling, History>>

\* mediaIdsInRootFolder: the answer once given stays the answer.
CachedIds(i) == IF idCache[i] # Uncounted THEN idCache[i].ids ELSE IdsIn(i, From)

\* loadCounts, loadMediaIds: one folder after the other.
CountAnswered ==
  /\ dialog.kind \in {"remap", "reconcile"}
  /\ \E p \in DOMAIN dialog.counts :
       /\ dialog.counts[p] = Uncounted
       /\ LET ids == IF dialog.kind = "remap" THEN CachedIds(p[1]) ELSE IdsIn(p[1], p[2])
          IN  /\ dialog' = [dialog EXCEPT !.counts[p] = Counted(ids)]
              /\ idCache' = IF dialog.kind = "remap" THEN [idCache EXCEPT ![p[1]] = Counted(ids)] ELSE idCache
  /\ UNCHANGED <<world, todo, queue, meddling, History>>

CountFailed ==
  /\ dialog.kind \in {"remap", "reconcile"}
  /\ \E p \in DOMAIN dialog.counts :
       /\ dialog.counts[p] = Uncounted
       /\ dialog.kind = "remap" => idCache[p[1]] = Uncounted
       /\ dialog' = [dialog EXCEPT !.counts[p] = Failed]
  /\ UNCHANGED <<world, idCache, todo, queue, meddling, History>>

Counting == \E p \in DOMAIN dialog.counts : dialog.counts[p] = Uncounted
Candidates == {p[1] : p \in DOMAIN dialog.counts}
Staged(plan, shown) ==
  /\ todo' = plan
  /\ dialog' = [kind |-> "staged", of |-> dialog.kind, shown |-> shown,
                failed |-> \E p \in DOMAIN dialog.counts : dialog.counts[p] = Failed]
  /\ known' = [below |-> [i \in Instances |-> IdsIn(i, From)], direct |-> Direct]
  /\ alone' = TRUE

\* A line of the list a dialog shows of what it will stage.
Step(item) ==
  [op |-> item.op, instance |-> item.instance, at |-> item.args.at, to |-> item.args.to,
   count |-> Cardinality(item.args.ids), lists |-> item.args.ids \cap Lists]
Steps(items) == {Step(item) : item \in items}

\* Mutant: a move is shown for every instance.
MovesAlways(i) == TRUE
\* Only a counted zero cancels the move.
MovesMedia(i) == dialog.counts[<<i, From>>] # Counted({})
ShownRemap(chosen, mkdir, removeOld, relist) ==
  Steps({Mkdir(To) : x \in {y \in {To} : mkdir}}
    \cup {CreateRoot(i, To, 0) : i \in {i \in chosen : To \notin world.roots[i]}}
    \cup {MoveMedia(i, dialog.counts[<<i, From>>].ids, To, TRUE, 0) : i \in {i \in chosen : MovesMedia(i)}}
    \cup {AimList(l, RewritePathPrefix(world.list[l].at, From, To), 0) : l \in ToSet(ListTargets(chosen, relist))}
    \cup {DropRoot(i, From, 0) : i \in {i \in chosen : removeOld}})
ShownReconcile(chosen, removeOld) ==
  LET pairs == {p \in DOMAIN dialog.counts : p[1] \in chosen}
      new(r) == RewritePathPrefix(r, From, To)
  IN  Steps({RenameItem(From, To)}
        \cup {CreateRoot(p[1], new(p[2]), 0) : p \in pairs}
        \cup {MoveMedia(p[1], dialog.counts[p].ids, new(p[2]), FALSE, 0) : p \in {p \in pairs : dialog.counts[p].ids # {}}}
        \cup {DropRoot(p[1], p[2], 0) : p \in {p \in pairs : removeOld}})

\* RemapDialog confirm: the ids are asked for again, through the cache, and no
\* answer is no chain.  mkdirPath: the preflight's word on the destination.
ConfirmRemap ==
  /\ dialog.kind = "remap" /\ ~Counting
  /\ \E chosen \in (SUBSET Candidates) \ {{}}, removeOld, relist, recollect \in BOOLEAN :
       LET ids == [i \in chosen |-> CachedIds(i)]
       IN  /\ idCache' = [i \in Instances |-> IF i \in chosen THEN Counted(ids[i]) ELSE idCache[i]]
           /\ Staged(RemapPlan(chosen, ids, To \notin world.dirs, removeOld, relist, recollect),
                     ShownRemap(chosen, To \notin world.dirs, removeOld, relist))
  /\ UNCHANGED <<world, queue, meddling, straight>>

\* DiskOperationModal stage, canStage, idsFor: no ids when the count failed.
ConfirmReconcile ==
  /\ dialog.kind = "reconcile" /\ ~Counting /\ From \in world.dirs /\ To \notin world.dirs
  /\ \E chosen \in (SUBSET Candidates) \ {{}}, removeOld \in BOOLEAN : \E targets \in AlignTargets(chosen) :
       Staged(ReconcilePlan(targets, dialog.counts, removeOld), ShownReconcile(chosen, removeOld))
  /\ UNCHANGED <<world, idCache, queue, meddling, straight>>

\* The verdict on the boxes ticked must be a pass; force is offered for what no
\* bridge clears.
ConfirmDelete ==
  /\ dialog.kind = "delete" /\ From \in world.dirs
  /\ \E ticked \in SUBSET Bridges, force \in BOOLEAN :
       /\ force => NeedsForce(ClaimsAt(From), force)
       /\ Passes(ClaimsAt(From), force, ticked)
       /\ Staged(DeletePlan(ticked, force), {})
  /\ UNCHANGED <<world, idCache, queue, meddling, straight>>

\* One request: it is answered, or it fails, or only its answer is lost.  The
\* store sends the next one when it has the ids of this one.  One that names a
\* removed producer is refused.
Removed == {k \in DOMAIN queue : queue[k].status = "removed"}
Accepted == \A k \in DOMAIN Head(todo) : Head(todo)[k].dep \notin Removed

\* The list goes with the dialog.
Gone == dialog' = [dialog EXCEPT !.shown = {}]
PostAnswered ==
  /\ todo # <<>> /\ Accepted
  /\ queue' = queue \o Head(todo) /\ todo' = Tail(todo)
  /\ Gone /\ UNCHANGED <<world, idCache, meddling, History>>

PostFailed ==
  /\ todo # <<>>
  /\ todo' = <<>> /\ queue' \in {queue} \cup (IF Accepted THEN {queue \o Head(todo)} ELSE {})
  /\ straight' = FALSE
  /\ Gone /\ UNCHANGED <<world, idCache, meddling, known, alone>>

-----------------------------------------------------------------------------
(* Execution.                                                              *)

Pending == {k \in DOMAIN queue : queue[k].status = "pending"}
ProducerSucceeded(k) == queue[k].dep \in {0} \cup {j \in DOMAIN queue : queue[j].status = "succeeded"}
Settle(k, status) == queue' = [queue EXCEPT ![k].status = status]
OutOfTurn(k) == \E j \in Pending : j < k

Skip(k) ==
  /\ k \in Pending /\ ~ProducerSucceeded(k)
  /\ Settle(k, "skipped")
  /\ straight' = FALSE
  /\ UNCHANGED world

Succeed(k) ==
  /\ k \in Pending /\ ProducerSucceeded(k) /\ Accepts(queue[k])
  /\ Settle(k, "succeeded")
  /\ world' = After(queue[k])
  /\ straight' = (straight /\ ~OutOfTurn(k))

\* Refused, or not answered; a lost answer of an instance may hide a success.
Fail(k) ==
  /\ k \in Pending /\ ProducerSucceeded(k)
  /\ Settle(k, "failed")
  /\ world' \in {world} \cup (IF queue[k].instance # "disk" /\ Accepts(queue[k]) THEN {After(queue[k])} ELSE {})
  /\ straight' = FALSE

Execute ==
  /\ \E k \in DOMAIN queue :
       /\ meddling' = meddling + (IF OutOfTurn(k) THEN 1 ELSE 0) /\ meddling' <= MaxMeddling
       /\ Skip(k) \/ Succeed(k) \/ Fail(k)
  /\ UNCHANGED <<dialog, idCache, todo, known, alone>>

Retry ==
  /\ meddling < MaxMeddling
  /\ \E k \in DOMAIN queue : queue[k].status \notin {"pending", "removed"} /\ Settle(k, "pending")
  /\ meddling' = meddling + 1 /\ straight' = FALSE
  /\ UNCHANGED <<world, dialog, idCache, todo, known, alone>>

\* A removal takes the dependents along.
Dependents(k) == FoldLeftDomain(LAMBDA acc, j : IF queue[j].dep \in acc THEN acc \cup {j} ELSE acc, {k}, queue)
RemoveItem ==
  /\ meddling < MaxMeddling
  /\ \E k \in DOMAIN queue :
       /\ queue[k].status # "removed"
       /\ queue' = [j \in DOMAIN queue |-> IF j \in Dependents(k) THEN [queue[j] EXCEPT !.status = "removed"] ELSE queue[j]]
  /\ meddling' = meddling + 1 /\ straight' = FALSE
  /\ UNCHANGED <<world, dialog, idCache, todo, known, alone>>

\* An instance adds a medium below From.
ArrAdds ==
  /\ \E m \in Late :
       /\ world.path[m] = <<>> /\ From \in world.roots[Owner[m]] /\ From \in world.dirs
       /\ world' = [world EXCEPT !.path[m] = Append(From, m), !.files[m] = Append(From, m)]
  /\ alone' = FALSE
  /\ UNCHANGED <<dialog, idCache, todo, queue, meddling, known, straight>>

Next ==
  \/ Open \/ CountAnswered \/ CountFailed
  \/ ConfirmRemap \/ ConfirmReconcile \/ ConfirmDelete
  \/ PostAnswered \/ PostFailed
  \/ Execute \/ Retry \/ RemoveItem
  \/ ArrAdds

Spec == Init /\ [][Next]_vars

-----------------------------------------------------------------------------
(* Properties.                                                             *)

\* "Every queue item this dialog will stage" (RemapDialog.vue:339), "a line can never
\* stand for three operations" (DiskOperationModal.vue:283): the lines a dialog shows
\* are, one for one, what the store makes of what the dialog hands it - after ids that
\* were asked for again, and over roots, lists and media the two walk differently.
\* (Re-aimed collections are not shown; a count that failed is excepted.)
StagedAsShown ==
  dialog.kind = "staged" /\ dialog.of # "delete" /\ ~dialog.failed /\ queue = <<>> /\ todo # <<>> =>
    LET places == UNION {{<<t, b>> : b \in {b \in DOMAIN todo[t] : todo[t][b].op # "collection.update"}} : t \in DOMAIN todo}
        line(p) == Step(todo[p[1]][p[2]])
    IN  /\ {line(p) : p \in places} = dialog.shown
        /\ \A p, q \in places : line(p) = line(q) => p = q

\* The media a drop's chain was staged to move out of the folder.
MovedAway(k) ==
  UNION {queue[j].args.ids : j \in {j \in DOMAIN queue :
    /\ queue[j].op = "media.moveRootFolder" /\ queue[j].instance = queue[k].instance
    /\ queue[j].args.to = RewritePathPrefix(queue[k].args.at, From, To)}}

\* "A failed move can never be followed by the removal of the folder the media is
\* still in" (stores/queue.ts:618, :993): when an instance's root is dropped, every
\* medium its chain was staged to move out of it is in the new place, however deep in
\* the root it was.  The order of three requests and a gate carried from one to the
\* next stand for it, against items that fail, lose their answers, are retried,
\* removed or run out of order.
DropsFollowMoves ==
  [][\A i \in Instances : \A r \in world.roots[i] \ world'.roots[i] :
       \A k \in DOMAIN queue : queue[k].op = "rootFolder.delete" /\ queue[k].instance = i /\ queue[k].args.at = r /\ queue'[k] # queue[k]
         => \A m \in MovedAway(k) : Under(To, world.path[m])]_vars

\* "By the time the delete re-runs its preflight the registration is genuinely gone
\* and it passes with no force at all" (stores/queue.ts:803): when all that was
\* staged in front of a delete has succeeded and nobody else changed the fleet, the
\* delete is not blocked.
BridgeSatisfiesTheGuard ==
  \A k \in DOMAIN queue :
    /\ queue[k].op = "fs.delete" /\ queue[k].status = "pending"
    /\ \A j \in 1..k - 1 : queue[j].status = "succeeded"
    /\ alone
    => Passes(ClaimsAt(From), queue[k].args.flag, {})

\* A chain does what it is for: once each of its items ran, in order and
\* successfully, every medium whose files it moves, wherever it was, and every
\* medium directly in a root folder that it realigns is at the path its files are
\* at, and in a root folder its instance has.  (What a realignment makes of a medium
\* deeper in a root folder is for the instance to say, and no promise of the chain;
\* a count that failed is excepted.)
AlignedWhenDone ==
  /\ straight /\ alone /\ todo = <<>> /\ queue # <<>> /\ Pending = {}
  /\ ~dialog.failed
  => \A k \in DOMAIN queue : queue[k].op = "media.moveRootFolder" =>
       \A m \in queue[k].args.ids : queue[k].args.flag \/ m \in known.direct =>
         world.path[m] = world.files[m] /\ Front(world.path[m]) \in world.roots[Owner[m]]

\* "Neither conclusion may be drawn from a question nobody answered"
\* (RemapDialog.vue:266, of a count that runs or failed) and "realign the items it
\* had got to and silently leave the rest pointing at a path that no longer exists"
\* (DiskOperationModal.vue:266): no medium its instance had in a folder when the
\* chain was confirmed is in it when the chain drops it.  (Violated: the disk dialog
\* waits for a count that runs, and stages one that failed as no media.)
NoneLeftBehind ==
  [][\A i \in Instances : \A r \in world.roots[i] \ world'.roots[i] :
       dialog.of # "delete" /\ queue # <<>> =>
         \A m \in known.below[i] : Under(r, world.path[m]) => Under(To, world.path[m])]_vars

=============================================================================
