----------------------------- MODULE StagingDrawer -----------------------------
(***************************************************************************)
(* The staged operations as one tab shows them, and what its drawer does   *)
(* with them: the list and the queue requests of apps/web/src/stores/      *)
(* queue.ts, the marks of lib/staging.ts, StagingDrawer.vue - over the     *)
(* queue of the server (QueueStore), which other tabs and a run change     *)
(* meanwhile.  The run and its stream are in QueueExecutor and RunStore.   *)
(***************************************************************************)
EXTENDS QueueStore

CONSTANTS
  Menus,      \* sequences of operations; those of one of them are staged, in its order
  Cells,      \* what the views show: records [kind, inst, name]
  Lossy,      \* whether requests and answers may be lost
  MaxOthers, MaxRequests, MaxClicks     \* bounds

DrawerAssumption ==
  /\ \A m \in Menus : Len(m) >= MaxItems /\ \A n \in DOMAIN m : m[n].inst \in Instances \cup {Disk}
  /\ Lossy \in BOOLEAN /\ MaxOthers \in Nat /\ MaxRequests \in Nat /\ MaxClicks \in Nat

VARIABLES
  menu,       \* the operations of this behaviour, one for each row
  what,       \* of every row: its operation, and what its payload names
  shown,      \* items: the rows as the tab knows them
  wanted,     \* its requests of the list that the server has still to serve
  answers,    \* the lists that are on their way to it
  discard,    \* discardAll: the ids it set out with, those it has still to remove, the click
  others, clicks,
  missed      \* history: something happened that the tab has not asked about since

queue == <<storeVars, what>>
vars == <<menu, queue, shown, wanted, answers, discard, others, clicks, missed>>

-----------------------------------------------------------------------------
(* Operations.  A payload names media, labels, tag ids, paths, lists or      *)
(* collections; a tag id never reads like a label.                           *)

NoNames == [media |-> {}, label |-> {}, tag |-> {}, path |-> {}, list |-> {}, collection |-> {}]
Unstaged == [op |-> "none", inst |-> Disk, names |-> NoNames]

MediaTagOps == {"mediaTags.add", "mediaTags.remove", "mediaTags.set"}
CollectionTagOps == {"collectionTags.add", "collectionTags.remove", "collectionTags.set"}
MediaOps ==
  MediaTagOps \cup {"media.moveRootFolder", "media.refresh", "media.setMonitored", "media.setQualityProfile", "media.delete"}
LabelOps == {"tag.create", "tag.rename", "tag.delete", "tag.merge"}
ListOps == {"importList.update", "importList.delete", "importList.setEnabled"}
RootOps == {"rootFolder.create", "rootFolder.delete", "media.moveRootFolder"}
DiskOps == {"fs.mkdir", "fs.delete", "fs.rename", "fs.move"}

Tone(op) ==
  CASE op \in {"tag.delete", "tag.merge", "rootFolder.delete", "importList.delete", "media.delete", "fs.delete"} -> "destroy"
    [] op \in {"media.moveRootFolder", "fs.rename", "fs.move"} -> "move"
    [] op \in {"tag.create", "rootFolder.create", "fs.mkdir"} -> "create"
    [] OTHER -> "update"
Severity(tone) == CASE tone = "destroy" -> 3 [] tone = "move" -> 2 [] tone = "create" -> 1 [] tone = "update" -> 0

\* Mutant: an operation on media that the switch does not list.
MediaIdsOfMost(x) == IF x.op \in MediaOps \ {"media.refresh"} THEN x.names.media ELSE {}
MediaIdsOf(x) == IF x.op \in MediaOps THEN x.names.media ELSE {}

Keys(inst, kind, names) == {[kind |-> kind, inst |-> inst, name |-> n] : n \in names}
StageKeysFor(x) ==
  CASE x.op \in LabelOps -> Keys(x.inst, "tag", x.names.label)
    [] x.op \in MediaTagOps -> Keys(x.inst, "tag", x.names.tag)
    [] x.op \in CollectionTagOps -> Keys(x.inst, "collection", x.names.collection) \cup Keys(x.inst, "tag", x.names.tag)
    [] x.op = "collection.update" -> Keys(x.inst, "collection", x.names.collection)
    [] x.op \in RootOps -> Keys(x.inst, "rootFolder", x.names.path) \cup Keys(Disk, "path", x.names.path)
    [] x.op \in ListOps -> Keys(x.inst, "importList", x.names.list)
    [] x.op \in DiskOps -> Keys(Disk, "path", x.names.path)
    [] OTHER -> {}

\* stagedIndex and stagedMediaIntent; the badge of a cell is the worst of what is on it.
Staged(list) == {i \in DOMAIN list : list[i].status \in {"pending", "running", "failed"}}
StagedFor(list, cell) ==
  {i \in Staged(list) :
     IF cell.kind = "media" THEN list[i].what.inst = cell.inst /\ cell.name \in MediaIdsOf(list[i].what)
     ELSE cell \in StageKeysFor(list[i].what)}
Worst(tones) == CHOOSE t \in tones : \A u \in tones : Severity(u) <= Severity(t)
Intent(list, S) == IF S = {} THEN "none" ELSE Worst({Tone(list[i].what.op) : i \in S})

-----------------------------------------------------------------------------
(* The list, and what the tab asks for of its own accord.                    *)

List == [i \in Rows |-> [status |-> status[i], order |-> sortOrder[i], what |-> what[i]]]

ShownPending == {i \in DOMAIN shown : shown[i].status = "pending"}
PendingOrder ==
  CHOOSE ids \in [1 .. Cardinality(ShownPending) -> ShownPending] :
    \A k \in DOMAIN ids, n \in DOMAIN ids : k < n =>
      \/ shown[ids[k]].order < shown[ids[n]].order
      \/ shown[ids[k]].order = shown[ids[n]].order /\ ids[k] < ids[n]

Idle == [ids |-> {}, left |-> <<>>, since |-> 0]

Init ==
  /\ menu \in Menus
  /\ StoreInit /\ what = [i \in Items |-> Unstaged]
  /\ shown = <<>> /\ wanted = 1 /\ answers = <<>> /\ discard = Idle
  /\ others = 0 /\ clicks = 0 /\ missed = FALSE

\* load: the request is served; its answer arrives at some time, in any order.
ServeList ==
  /\ wanted > 0 /\ wanted' = wanted - 1 /\ missed' = FALSE
  /\ answers' = Append(answers, [list |-> List, overtaken |-> FALSE])
  /\ UNCHANGED <<menu, queue, shown, discard, others, clicks>>
FailList ==
  /\ Lossy /\ wanted > 0 /\ wanted' = wanted - 1 /\ missed' = TRUE
  /\ UNCHANGED <<menu, queue, shown, answers, discard, others, clicks>>
ReceiveList(k) ==
  /\ shown' = answers[k].list
  /\ missed' = (missed \/ answers[k].overtaken)
  /\ answers' = [n \in 1 .. Len(answers) - 1 |->
                   IF n < k THEN [answers[n] EXCEPT !.overtaken = TRUE] ELSE answers[n + 1]]
  /\ UNCHANGED <<menu, queue, wanted, discard, others, clicks>>

-----------------------------------------------------------------------------
(* The buttons.  A request is done and the list is asked for again, or its   *)
(* answer is lost, or it is refused: then the list stays as it is.           *)

Click ==
  /\ clicks < MaxClicks /\ clicks' = clicks + 1 /\ wanted + Len(answers) < MaxRequests
  /\ UNCHANGED <<menu, shown, answers, others>>
Reload == wanted' = wanted + 1 /\ UNCHANGED missed
Done == Reload \/ (Lossy /\ UNCHANGED wanted /\ missed' = TRUE)
Refused == UNCHANGED <<queue, wanted, missed>>

\* push, of one operation; a chain goes on with the id of the one before.
PushNext(dep) ==
  /\ lastItem < MaxItems
  /\ Push(<<[instance |-> menu[lastItem + 1].inst, dependsOn |-> dep]>>)
  /\ what' = [what EXCEPT ![lastItem + 1] = menu[lastItem + 1]]
Stage(dep) == Click /\ PushNext(dep) /\ Done /\ UNCHANGED discard

RemoveItem(i) ==
  /\ i \in Staged(shown) /\ shown[i].status # "running"
  /\ Click /\ UNCHANGED discard
  /\ \/ Remove(i) /\ UNCHANGED what /\ Done
     \/ status[i] \in {"absent", "running"} /\ Refused

RetryItem(i) ==
  /\ i \in Staged(shown) /\ shown[i].status = "failed"
  /\ Click /\ UNCHANGED discard
  /\ \/ Retry(i) /\ UNCHANGED what /\ Done
     \/ status[i] \in {"absent", "running"} /\ Refused

\* move: the pending ones in their order, this one a place earlier or later.
MoveItem(k, n) ==
  LET ids == [PendingOrder EXCEPT ![k] = PendingOrder[n], ![n] = PendingOrder[k]] IN
  /\ Click /\ UNCHANGED discard
  /\ \/ Reorder(ids) /\ UNCHANGED what /\ Done
     \/ /\ \/ ShownPending # Pending
           \/ \E p, q \in DOMAIN ids : p < q /\ dependsOn[ids[p]] = ids[q]
        /\ Refused

ClearFinished ==
  /\ \E i \in DOMAIN shown : shown[i].status \in {"succeeded", "skipped", "cancelled"}
  /\ Click /\ UNCHANGED discard
  /\ \/ Clear(Finished) /\ UNCHANGED what
     \/ Rows \cap {i \in Items : status[i] \in Finished} = {} /\ UNCHANGED queue
  /\ Done

\* discardAll: one request for each of the pending ones, and the list at the end;
\* the first that is refused ends it.
DiscardAll ==
  /\ Staged(shown) # {} /\ discard = Idle
  /\ Click /\ discard' = [ids |-> ShownPending, left |-> PendingOrder, since |-> clicks']
  /\ UNCHANGED <<queue, wanted, missed>>
DiscardNext ==
  /\ discard.left # <<>>
  /\ UNCHANGED <<menu, what, shown, wanted, answers, others, clicks>>
  /\ \/ /\ Remove(Head(discard.left)) /\ missed' = TRUE
        /\ discard' \in {[discard EXCEPT !.left = Tail(@)]} \cup (IF Lossy THEN {Idle} ELSE {})
     \/ /\ status[Head(discard.left)] \in {"absent", "running"} /\ UNCHANGED storeVars
        /\ discard' = Idle /\ missed' = TRUE
DiscardEnds ==
  /\ discard # Idle /\ discard.left = <<>> /\ discard' = Idle /\ Reload
  /\ UNCHANGED <<menu, queue, shown, answers, others, clicks>>

Buttons ==
  \/ \E dep \in {NoItem, lastItem} : Stage(dep)
  \/ \E i \in DOMAIN shown : RemoveItem(i) \/ RetryItem(i)
  \/ \E k, n \in DOMAIN PendingOrder : n \in {k - 1, k + 1} /\ MoveItem(k, n)
  \/ ClearFinished \/ DiscardAll \/ DiscardNext \/ DiscardEnds

-----------------------------------------------------------------------------
(* A run, and other tabs.                                                    *)

RunStep ==
  /\ \E i \in Rows, next \in ItemStatus :
       /\ <<status[i], next>> \in {<<"pending", "running">>, <<"pending", "skipped">>, <<"running", "succeeded">>, <<"running", "failed">>}
       /\ status' = [status EXCEPT ![i] = next]
  /\ UNCHANGED <<runId, dependsOn, sortOrder, instance, lastItem, instances, what>>

OtherTab == PushNext(NoItem) \/ ((\E i \in Rows : Remove(i)) /\ UNCHANGED what)

Elsewhere ==
  /\ others < MaxOthers /\ others' = others + 1 /\ missed' = TRUE
  /\ RunStep \/ OtherTab
  /\ UNCHANGED <<menu, shown, wanted, answers, discard, clicks>>

Next ==
  \/ ServeList \/ FailList \/ (\E k \in DOMAIN answers : ReceiveList(k))
  \/ Buttons \/ Elsewhere

Spec == Init /\ [][Next]_vars

-----------------------------------------------------------------------------
(* Properties.                                                             *)

\* A view looks at a staged operation where its payload points: "forgetting it means
\* the row shows no staged cue" (stores/queue.ts:186).  When the tab has asked about
\* all that happened and nothing is on its way, the badge of a cell is the worst of
\* the operations of the server's queue that are not done and name it, and a cell
\* nobody names has none - after removals that took dependents along, reorders,
\* retries and discards, refused or half done.
Names(x, cell) ==
  /\ cell.kind = "path" \/ x.inst = cell.inst
  /\ cell.name \in CASE cell.kind = "media" -> x.names.media
                     [] cell.kind = "tag" -> x.names.label
                     [] cell.kind = "importList" -> x.names.list
                     [] cell.kind \in {"path", "rootFolder"} -> x.names.path
MarksTellWhatIsStaged ==
  wanted = 0 /\ answers = <<>> /\ discard = Idle /\ ~missed =>
    \A cell \in Cells :
      Intent(shown, StagedFor(shown, cell))
        = Intent(List, {i \in Rows : status[i] \in {"pending", "running", "failed"} /\ Names(what[i], cell)})
===============================================================================
