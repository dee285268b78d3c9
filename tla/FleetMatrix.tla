------------------------------ MODULE FleetMatrix ------------------------------
(***************************************************************************)
(* The tag matrix of one tab: the instances store and the matrix store     *)
(* (apps/web/src/stores), the rows of lib/matrix.ts, the page of tags with *)
(* its dialogs, and what its buttons stage.  Answers come in any order, or *)
(* not at all; others change the tags of the instances meanwhile.          *)
(*                                                                         *)
(* A tag stands for its label; requests by id are in TagHandlers.  The     *)
(* words of the search box are left out: they filter rows as `filter` does.*)
(***************************************************************************)
EXTENDS Naturals, FiniteSets

CONSTANTS
  Instances, Enabled,   \* those there may be; those that are enabled
  Mute,                 \* the Radarrs too old to report their collections
  Labels, Uses,         \* the tags; what one may be attached to
  Worlds,               \* the tags of every instance, at first
  Replaced(_),          \* what find and replace makes of a label
  Drifting,             \* the tags that others give and take: pairs of instance and label
  MaxLoads, MaxRequests, MaxDrift, MaxClicks     \* bounds

ASSUME MatrixAssumption ==
  /\ Enabled \subseteq Instances /\ Drifting \subseteq Instances \X Labels /\ Mute \subseteq Instances /\ "collections" \in Uses
  /\ \A w \in Worlds : w \in [Instances -> UNION {[S -> SUBSET Uses] : S \in SUBSET Labels}]
  /\ MaxLoads \in Nat /\ MaxRequests \in Nat /\ MaxDrift \in Nat /\ MaxClicks \in Nat

VARIABLES
  world,        \* of every instance: its tags, and what each is attached to
  registered,   \* the instances the server knows
  items, loadedOnce,                    \* the instances store
  snapshots, loading, lastLoaded, selected, requests,   \* the matrix store, its requests
  page, filter, ticked, dialog,         \* the page
  batch,        \* what a button has staged, and what its items have made of the instances: no store changes
  drift, clicks

stores == <<registered, items, loadedOnce, snapshots, loading, lastLoaded, requests>>
screen == <<page, filter, ticked, dialog>>
vars == <<world, stores, selected, screen, batch, drift, clicks>>

-----------------------------------------------------------------------------
(* Snapshots and rows.                                                     *)

Placeholder(status) == [status |-> status, tags |-> <<>>, reported |-> FALSE]

\* What an instance answers: a mute one says nothing of its collections.
Answer(i) ==
  [status |-> "ok", reported |-> i \notin Mute,
   tags |-> [l \in DOMAIN world[i] |-> IF i \in Mute THEN world[i][l] \ {"collections"} ELSE world[i][l]]]

Columns == items \cap Enabled
Column(i) == IF i \in DOMAIN snapshots THEN snapshots[i] ELSE Placeholder("loading")
Comparable == {i \in Columns : Column(i).status = "ok"}

Rows == UNION {DOMAIN Column(i).tags : i \in Comparable}
PresentOn(l) == {i \in Comparable : l \in DOMAIN Column(i).tags}
\* Mutant: who did not answer counts as lacking the tag.
MissingOnSilent(l) == {i \in Columns : l \notin DOMAIN Column(i).tags}
MissingOn(l) == {i \in Comparable : l \notin DOMAIN Column(i).tags}
Parity(l) ==
  IF PresentOn(l) = Comparable THEN "full" ELSE IF Cardinality(PresentOn(l)) <= 1 THEN "unique" ELSE "partial"

UnusedEverywhere(l) == \A i \in PresentOn(l) : Column(i).tags[l] = {} /\ Column(i).reported

Kept(l, f) == CASE f = "all" -> TRUE [] f = "drift" -> Parity(l) # "full" [] f = "unused" -> UnusedEverywhere(l)
Visible == {l \in Rows : Kept(l, filter)}
SelectedRows == Visible \cap ticked

Targets == IF selected # {} THEN selected ELSE Comparable
Propagatable == {p \in Targets \X SelectedRows : p[1] \in MissingOn(p[2])}
Holders(rows) == {p \in Targets \X rows : p[1] \in PresentOn(p[2])}

\* Find and replace: the labels it would change, and the tag each would run into.
Previews(only) ==
  {p \in Comparable \X Labels :
     p[2] \in DOMAIN Column(p[1]).tags /\ Replaced(p[2]) # p[2] /\ (only => p[1] \in Targets)}
Collides(i, to) == i \in Columns /\ to \in DOMAIN Column(i).tags

-----------------------------------------------------------------------------
(* Requests.                                                               *)

List(then, id) == [kind |-> "list", then |-> then, id |-> id, seen |-> registered]
Snapshot(i, load) == [kind |-> "snapshot", load |-> load, id |-> i, seen |-> Answer(i)]
LoadsOf(rs) == {r.load : r \in {r \in rs : r.kind = "snapshot"}}
Fresh(rs) == CHOOSE n \in 1 .. MaxLoads : n \notin LoadsOf(rs)
CanLoad(rs) == Cardinality(LoadsOf(rs) \ {0}) < MaxLoads

Waiting(S) == [i \in DOMAIN snapshots \cup S |-> IF i \in S THEN Placeholder("loading") ELSE snapshots[i]]
Settle(i, snapshot) == [j \in DOMAIN snapshots \cup {i} |-> IF i = j THEN snapshot ELSE snapshots[j]]

\* load, once the instances are there: a snapshot of each enabled one.
Fetch(rs, its) ==
  /\ CanLoad(rs)
  /\ snapshots' = Waiting(its \cap Enabled)
  /\ requests' = rs \cup {Snapshot(i, Fresh(rs)) : i \in its \cap Enabled}
  /\ loading' = (its \cap Enabled # {}) /\ lastLoaded' = (lastLoaded \/ its \cap Enabled = {})

\* load: the instances first, unless they are there.
Load(rs, its, once) ==
  \/ once /\ Fetch(rs, its)
  \/ ~once /\ requests' = rs \cup {List("fetch", 0)} /\ loading' = TRUE /\ UNCHANGED <<snapshots, lastLoaded>>

\* loadInstance, for one of them.
Reload(rs, i, its) ==
  /\ UNCHANGED <<loading, lastLoaded>>
  /\ \/ i \in its /\ snapshots' = Waiting({i}) /\ requests' = rs \cup {Snapshot(i, 0)}
     \/ i \notin its /\ requests' = rs /\ UNCHANGED snapshots

\* The list has arrived, or has not: whoever awaited it goes on.
Listed(r, its, once) ==
  /\ items' = its /\ loadedOnce' = once
  /\ \/ r.then = "load" /\ Load(requests \ {r}, its, once)
     \/ r.then = "fetch" /\ Fetch(requests \ {r}, its)
     \/ r.then = "reload" /\ Reload(requests \ {r}, r.id, its)
     \/ r.then = "show" /\ requests' = requests \ {r} /\ UNCHANGED <<snapshots, loading, lastLoaded>>
  /\ UNCHANGED registered

ListAnswered(r) == r.kind = "list" /\ (Listed(r, r.seen, TRUE) \/ Listed(r, items, loadedOnce))

\* One snapshot is there, or an error in its place; the last of a load ends it.
SnapshotAnswered(r) ==
  /\ r.kind = "snapshot"
  /\ snapshots' \in {Settle(r.id, r.seen), Settle(r.id, Placeholder("error"))}
  /\ requests' = requests \ {r}
  /\ LET ends == r.load # 0 /\ r.load \notin LoadsOf(requests \ {r})
     IN  loading' = (loading /\ ~ends) /\ lastLoaded' = (lastLoaded \/ ends)
  /\ UNCHANGED <<registered, items, loadedOnce>>

Nothing == [kind |-> "none"]
NoBatch == [button |-> "none"]

Answered ==
  /\ batch = NoBatch /\ \E r \in requests : ListAnswered(r) \/ SnapshotAnswered(r)
  /\ UNCHANGED <<world, selected, screen, batch, drift, clicks>>

-----------------------------------------------------------------------------
(* The page of instances, and what every page has.                         *)

Init ==
  /\ world \in Worlds
  /\ registered = Instances /\ items = {} /\ loadedOnce = FALSE
  /\ snapshots = <<>> /\ loading = TRUE /\ lastLoaded = FALSE /\ selected = {}
  \* App.vue and the view ask for the same, side by side.
  /\ requests = {List("load", 0), List("fetch", 0)}
  /\ page = "tags" /\ filter = "all" /\ ticked = {} /\ dialog = Nothing
  /\ batch = NoBatch /\ drift = 0 /\ clicks = 0

Room == Cardinality(requests) < MaxRequests
Click == batch = NoBatch /\ clicks < MaxClicks /\ clicks' = clicks + 1
Undisturbed == dialog = Nothing /\ batch' = batch /\ Click
Stay == UNCHANGED <<screen, world, drift>>

Refresh ==
  /\ Undisturbed /\ page = "tags" /\ ~loading /\ Room
  /\ Load(requests, items, loadedOnce) /\ UNCHANGED <<registered, items, loadedOnce, selected>> /\ Stay

\* The route is left, and what the page kept with it.
Visit ==
  /\ Undisturbed /\ page' \in {"tags", "instances"} \ {page}
  /\ filter' = "all" /\ ticked' = {} /\ dialog' = Nothing
  /\ IF page' = "tags" /\ (Columns = {} \/ ~lastLoaded) THEN Room /\ Load(requests, items, loadedOnce)
     ELSE UNCHANGED <<snapshots, loading, lastLoaded, requests>>
  /\ UNCHANGED <<world, registered, items, loadedOnce, selected, drift>>

\* The test of an instance: probed, listed again, and when it answered read anew.
Probe(i) ==
  /\ Undisturbed /\ page = "instances" /\ i \in items \cap registered /\ Room
  /\ \E then \in {"reload", "show"} : requests' = requests \cup {List(then, i)}
  /\ UNCHANGED <<registered, items, loadedOnce, snapshots, loading, lastLoaded, selected>> /\ Stay

Remove(i) ==
  /\ Undisturbed /\ page = "instances" /\ i \in items
  /\ registered' = registered \ {i} /\ items' = items \ {i}
  /\ snapshots' = [j \in DOMAIN snapshots \cap items' |-> snapshots[j]] /\ selected' = selected \cap items'
  /\ UNCHANGED <<loadedOnce, loading, lastLoaded, requests>> /\ Stay

\* A new instance is saved: it joins the list, and the fleet is read anew.
Create(i) ==
  /\ Undisturbed /\ page = "instances" /\ i \notin items \cup registered /\ Room
  /\ registered' = registered \cup {i} /\ items' = items \cup {i}
  /\ Load(requests, items', loadedOnce)
  /\ UNCHANGED <<loadedOnce, selected>> /\ Stay

\* Somebody else gives an instance a tag, or takes one.
OthersEdit ==
  /\ batch = NoBatch /\ drift < MaxDrift /\ drift' = drift + 1
  /\ \E i \in Instances, l \in Labels : <<i, l>> \in Drifting /\
       \/ /\ l \notin DOMAIN world[i]
          /\ world' = [world EXCEPT ![i] = [k \in DOMAIN @ \cup {l} |-> IF k = l THEN {} ELSE @[k]]]
       \/ /\ l \in DOMAIN world[i]
          /\ world' = [world EXCEPT ![i] = [k \in DOMAIN @ \ {l} |-> @[k]]]
  /\ UNCHANGED <<stores, selected, screen, batch, clicks>>

-----------------------------------------------------------------------------
(* The page of tags.                                                       *)

Toggle(S, x) == IF x \in S THEN S \ {x} ELSE S \cup {x}
OnTags == page = "tags" /\ Undisturbed
Quiet == UNCHANGED <<world, stores, drift>>

ToggleInstance(i) ==
  OnTags /\ i \in Columns /\ selected' = Toggle(selected, i) /\ UNCHANGED screen /\ Quiet
ClearSelection ==
  OnTags /\ selected # {} /\ selected' = {} /\ UNCHANGED screen /\ Quiet
SetFilter(f) ==
  OnTags /\ f # filter /\ filter' = f /\ UNCHANGED <<page, ticked, dialog, selected>> /\ Quiet
ToggleRow(l) ==
  OnTags /\ l \in Visible /\ ticked' = Toggle(ticked, l) /\ UNCHANGED <<page, filter, dialog, selected>> /\ Quiet
ToggleAllVisible ==
  /\ OnTags /\ Visible # {} /\ ticked' = (IF SelectedRows = Visible THEN {} ELSE Visible)
  /\ UNCHANGED <<page, filter, dialog, selected>> /\ Quiet

\* What the user sees when a button is pressed, or when its dialog opens.
Current == \A i \in Columns : Column(i).status = "ok" => Column(i) = Answer(i)
Seen(rows) ==
  [rows |-> rows, current |-> Current, at |-> drift,
   range |-> {i \in Columns : Column(i).status = "ok" /\ (selected = {} \/ i \in selected)}]

Op(op, pair, to) == [op |-> op, inst |-> pair[1], label |-> pair[2], to |-> to]

\* The tags of an instance while a batch runs: an item names one by the label it had.
ById(tags) == [t \in DOMAIN tags |-> [label |-> t, on |-> tags[t]]]

\* push: nothing is staged of nothing.
Stage(button, work, seen) ==
  batch' = IF work = {} THEN NoBatch
           ELSE [button |-> button, items |-> work, seen |-> seen, left |-> work, tags |-> [i \in Instances |-> ById(world[i])]]

PropagateSelected ==
  /\ Click /\ page = "tags" /\ dialog = Nothing /\ Propagatable # {}
  /\ Stage("propagate", {Op("create", p, p[2]) : p \in Propagatable}, Seen(Visible \cap ticked))
  /\ ticked' = {} /\ UNCHANGED <<page, filter, dialog, selected>> /\ Quiet

StageCellCreate(l, i) ==
  /\ Click /\ page = "tags" /\ dialog = Nothing /\ l \in Visible /\ i \in MissingOn(l)
  /\ Stage("propagate", {Op("create", <<i, l>>, l)}, [Seen({l}) EXCEPT !.range = {i}])
  /\ UNCHANGED <<screen, selected>> /\ Quiet

Open(d) == OnTags /\ dialog' = d /\ UNCHANGED <<page, filter, ticked, selected>> /\ Quiet
OpenAdd(l) == Open([kind |-> "add", label |-> l, chosen |-> {}])
OpenReplace == Open([kind |-> "replace"])
RenameRow(l) ==
  SelectedRows = {l} /\ Open([kind |-> "rename", label |-> l, targets |-> Holders({l}), seen |-> Seen({l})])
DeleteSelected ==
  /\ Holders(SelectedRows) # {}
  /\ Open([kind |-> "delete", targets |-> Holders(SelectedRows), seen |-> Seen(Visible \cap ticked)])
StageCellDelete(l, i) ==
  /\ l \in Visible /\ i \in PresentOn(l)
  /\ Open([kind |-> "delete", targets |-> {<<i, l>>}, seen |-> [Seen({l}) EXCEPT !.range = {i}]])

InDialog(kind) == Click /\ dialog.kind = kind /\ UNCHANGED <<page, filter, ticked, selected>> /\ Quiet
Confirm(kind) == InDialog(kind) /\ dialog' = Nothing
Close == dialog # Nothing /\ Confirm(dialog.kind) /\ batch' = batch

\* AddTagDialog: a box for each instance that has answered and lacks the tag.
Choose(i) ==
  /\ InDialog("add") /\ i \in MissingOn(dialog.label)
  /\ dialog' = [dialog EXCEPT !.chosen = Toggle(@, i)] /\ batch' = batch
AlreadyHas(i, l) == i \in PresentOn(l)
ConfirmAdd ==
  /\ Confirm("add") /\ dialog.chosen # {}
  /\ LET targets == {i \in dialog.chosen : ~AlreadyHas(i, dialog.label)}
     IN  Stage("add", {Op("create", <<i, dialog.label>>, dialog.label) : i \in targets},
               [Seen({dialog.label}) EXCEPT !.range = dialog.chosen])

\* A rename stays one where the label is taken; the dialog only says so.
ConfirmRename(to) ==
  /\ Confirm("rename") /\ to # dialog.label
  /\ Stage("rename", {Op("rename", p, to) : p \in dialog.targets}, dialog.seen)

ConfirmDelete ==
  /\ Confirm("delete") /\ Stage("delete", {Op("delete", p, p[2]) : p \in dialog.targets}, dialog.seen)

\* applyFindReplace: a merge where the new label is taken.
Replacement(p) == Op(IF Collides(p[1], Replaced(p[2])) THEN "merge" ELSE "rename", p, Replaced(p[2]))
ConfirmReplace(only) ==
  /\ Confirm("replace")
  /\ Stage("replace", {Replacement(p) : p \in Previews(only)},
           IF only THEN Seen({}) ELSE [Seen({}) EXCEPT !.range = {i \in Columns : Column(i).status = "ok"}])

-----------------------------------------------------------------------------
(* The run of a batch: its items one by one, in any order.                 *)

\* A label that is taken is refused to a new tag and to a renamed one; no request is
\* served for a tag that is gone.
Refused(tags, x) ==
  \/ x.op \in {"create", "rename"} /\ \E t \in DOMAIN tags : tags[t].label = x.to
  \/ x.op # "create" /\ x.label \notin DOMAIN tags

Executed(tags, x) ==
  CASE x.op = "create" -> [t \in DOMAIN tags \cup {x.to} |-> IF t = x.to THEN [label |-> t, on |-> {}] ELSE tags[t]]
    [] x.op = "rename" -> [tags EXCEPT ![x.label].label = x.to]
    [] x.op = "delete" -> [t \in DOMAIN tags \ {x.label} |-> tags[t]]
    [] x.op = "merge" -> [t \in DOMAIN tags \ {x.label} |->
         IF t = x.to THEN [tags[t] EXCEPT !.on = @ \cup tags[x.label].on] ELSE tags[t]]

\* An item that fails halts its run; the rest goes on once it is taken out.
RunOne ==
  /\ batch # NoBatch
  /\ \E x \in batch.left :
       LET tags == batch.tags[x.inst]
       IN  batch' = [batch EXCEPT !.left = @ \ {x}, !.tags[x.inst] = IF Refused(tags, x) THEN tags ELSE Executed(tags, x)]
  /\ UNCHANGED <<world, stores, selected, screen, drift, clicks>>

Next ==
  \/ RunOne \/ Answered \/ OthersEdit \/ Refresh \/ Visit
  \/ \E i \in Instances : Probe(i) \/ Remove(i) \/ Create(i) \/ ToggleInstance(i) \/ Choose(i)
  \/ ClearSelection \/ (\E f \in {"all", "drift", "unused"} : SetFilter(f)) \/ ToggleAllVisible
  \/ \E l \in Labels : ToggleRow(l) \/ OpenAdd(l) \/ RenameRow(l) \/ ConfirmRename(l)
  \/ \E l \in Labels, i \in Instances : StageCellCreate(l, i) \/ StageCellDelete(l, i)
  \/ PropagateSelected \/ DeleteSelected \/ OpenReplace \/ Close \/ ConfirmAdd \/ ConfirmDelete
  \/ \E only \in BOOLEAN : ConfirmReplace(only)

Spec == Init /\ [][Next]_vars

-----------------------------------------------------------------------------
(* Properties.                                                             *)

\* The tags of an instance, by the labels they have now.
ByLabel(tags) ==
  [l \in {tags[t].label : t \in DOMAIN tags} |-> UNION {tags[t].on : t \in {t \in DOMAIN tags : tags[t].label = l}}]

\* What the button says: of an instance in its range, as it is now.
GivenTo(tags, rows) == [l \in DOMAIN tags \cup rows |-> IF l \in DOMAIN tags THEN tags[l] ELSE {}]
TakenFrom(tags, rows) == [l \in DOMAIN tags \ rows |-> tags[l]]
RenamedIn(tags, rows, to) ==
  LET name(k) == IF k \in rows THEN to ELSE k
  IN  IF to \in DOMAIN tags THEN tags
      ELSE [l \in {name(k) : k \in DOMAIN tags} |-> UNION {tags[k] : k \in {k \in DOMAIN tags : l = name(k)}}]
ReplacedIn(tags) ==
  [l \in {Replaced(k) : k \in DOMAIN tags} |-> UNION {tags[k] : k \in {k \in DOMAIN tags : l = Replaced(k)}}]

Meant(i) ==
  LET rows == batch.seen.rows
      now == world[i]
  IN  IF i \notin batch.seen.range THEN now
      ELSE CASE batch.button \in {"propagate", "add"} -> GivenTo(now, rows)
             [] batch.button = "delete" -> TakenFrom(now, rows)
             [] batch.button = "rename" -> RenamedIn(now, rows, (CHOOSE x \in batch.items : TRUE).to)
             [] batch.button = "replace" -> ReplacedIn(now)

\* Two items of an instance that get in each other's way: one is to make, or to merge
\* into, the label of a tag that the other takes away; or both are to make the same.
Tangled(work, i) ==
  \E x, y \in work : x # y /\ x.inst = i /\ y.inst = i /\ (x.to = y.label \/ (x.to = y.to /\ x.op = "rename"))

\* A batch that has run has done on the instances what its button says, no less and no
\* more (a rename to a taken label, which its dialog warns of, does nothing): on those
\* it targets that have answered ("batch actions skip" the others, FleetBar.vue:27),
\* for the rows that are ticked and shown - if the columns were true when it was put
\* together, and nobody else has changed a tag since.  Not the find and replace whose
\* items on an instance are tangled: findCollisions (matrix.ts:324) looks for a tag with
\* the new label, not for another item that makes it or takes it away.
BatchesDoWhatTheirButtonsSay ==
  batch # NoBatch /\ batch.left = {} /\ batch.seen.current /\ batch.seen.at = drift =>
    \A i \in Instances :
      (batch.button = "replace" => ~Tangled(batch.items, i)) => ByLabel(batch.tags[i]) = Meant(i)

=============================================================================
