------------------------------ MODULE TagHandlers ------------------------------
(***************************************************************************)
(* The tag operations (apps/server/src/queue/handlers.ts), a request to    *)
(* the *Arr server at a time: each may be refused, or be done and its      *)
(* answer lost, and the item then fails where it stands.  Retrying it      *)
(* starts it anew.  Meanwhile another user of the instance changes tags.   *)
(*                                                                         *)
(* In front of them, the plans of the web store that stage several items:  *)
(* applyMediaTags and applyFindReplace (stores/queue.ts).  The instance is *)
(* a Radarr; for a Sonarr, Collections is empty.                           *)
(***************************************************************************)
EXTENDS Naturals, FiniteSets, SequencesExt

CONSTANTS
  Media, Collections,   \* what carries tags
  Tags,                 \* the ids a tag may have
  Starts,               \* the instance at first: records [label, on]
  Plans,                \* what is staged on it, each by a button of a dialog
  MaxFailures, MaxRetries, MaxEdits   \* bounds

TagBounds == MaxFailures \in Nat /\ MaxRetries \in Nat /\ MaxEdits \in Nat

Carriers == Media \cup Collections

\* What the dialogs stage: sequences of tags and labels.  Of a find and replace no label
\* another is replaced by is itself replaced: such a chain moves an association on.
TagAssumption ==
  /\ Media \cap Collections = {} /\ IsFiniteSet(Collections)
  /\ \A s \in Starts :
       /\ s \in [label : {s.label}, on : [Carriers -> SUBSET Tags]]
       /\ DOMAIN s.label \subseteq Tags
  /\ \A p \in Plans :
       \/ p.button = "merge" /\ p.sources \in Seq(Tags) /\ p.target \in Tags
       \/ p.button = "apply" /\ p.missing \in Seq(ToSet(p.missing))
       \/ p.button \in {"delete", "collections"}
       \/ /\ p.button = "replace" /\ p.previews \in Seq(Tags \X {q[2] : q \in ToSet(p.previews)})
          /\ \A j, k \in DOMAIN p.previews :
               /\ j # k => p.previews[j][1] # p.previews[k][1]
               /\ \A s \in Starts : \A t \in DOMAIN s.label : s.label[t] = p.previews[j][2] => t # p.previews[k][1]

VARIABLES
  remote,     \* label: of each tag there is; on: the tags each carrier has
  queue,      \* the items of one plan
  job,        \* the item that executes: the requests it still makes, what it holds
  start,      \* history: the instance as it was at first
  touched,    \* history: the carriers another user changed
  straight,   \* history: no item failed or was retried
  failures, retries, edits

vars == <<remote, queue, job, start, touched, straight, failures, retries, edits>>

-----------------------------------------------------------------------------
(* Items, and the plans of the store.                                      *)

Item(op, args, dep) == [op |-> op, args |-> args, dep |-> dep, status |-> "pending", tagId |-> 0]
CreateTag(label) == Item("tag.create", [label |-> label], 0)
RenameTag(t, to) == Item("tag.rename", [tag |-> t, to |-> to], 0)
DeleteTag(t, detach) == Item("tag.delete", [tag |-> t, detach |-> detach], 0)
MergeTags(sources, target, deleteSources) ==
  Item("tag.merge", [sources |-> sources, target |-> target, deleteSources |-> deleteSources], 0)
EditMedia(mode, ids, tags, dep) == Item("mediaTags", [mode |-> mode, ids |-> ids, tags |-> tags], dep)
EditCollections(mode, ids, tags) == Item("collectionTags", [mode |-> mode, ids |-> ids, tags |-> tags], 0)

\* Mutant: the tags to come are staged with the operation of the dialog.
ApplyMediaTagsOneOp(mode, ids, tags, missing) ==
  LET creates == IF mode = "remove" THEN <<>> ELSE [k \in DOMAIN missing |-> CreateTag(missing[k])]
      edit == IF tags # {} \/ mode = "replace" THEN <<EditMedia(mode, ids, tags, 0)>> ELSE <<>>
  IN  creates \o edit \o [k \in DOMAIN creates |-> EditMedia(mode, ids, {}, k)]

\* applyMediaTags: the labels the instance lacks first, then one edit of the tags
\* there are, then one add for each tag to come.
ApplyMediaTags(mode, ids, tags, missing) ==
  LET creates == IF mode = "remove" THEN <<>> ELSE [k \in DOMAIN missing |-> CreateTag(missing[k])]
      edit == IF tags # {} \/ mode = "replace" THEN <<EditMedia(mode, ids, tags, 0)>> ELSE <<>>
  IN  creates \o edit \o [k \in DOMAIN creates |-> EditMedia("add", ids, {}, k)]

\* findCollisions, applyFindReplace: of the labels as they are, one rename for each
\* preview, or a merge when its label is taken.
Collision(labels, to) == {t \in DOMAIN labels : labels[t] = to}
ApplyFindReplace(labels, previews) ==
  [k \in DOMAIN previews |->
     LET t == previews[k][1]
         to == previews[k][2]
     IN  IF Collision(labels, to) = {} THEN RenameTag(t, to)
         ELSE MergeTags(<<t>>, CHOOSE u \in Collision(labels, to) : TRUE, TRUE)]

\* What a dialog stages.
Staged(p, labels) ==
  CASE p.button = "apply" -> ApplyMediaTags(p.mode, p.ids, p.tags, p.missing)
    [] p.button = "replace" -> ApplyFindReplace(labels, p.previews)
    [] p.button = "merge" -> <<MergeTags(p.sources, p.target, p.deleteSources)>>
    [] p.button = "delete" -> <<DeleteTag(p.tag, p.detach)>>
    [] p.button = "collections" -> <<EditCollections(p.mode, p.ids, p.tags)>>

-----------------------------------------------------------------------------
(* Requests: what one answers, and what it does.                           *)

With(tags, mode, edit) ==
  CASE mode = "add" -> tags \cup edit
    [] mode = "remove" -> tags \ edit
    [] mode = "replace" -> edit

Call(call, carriers, tag, tags, mode) ==
  [call |-> call, carriers |-> carriers, tag |-> tag, tags |-> tags, mode |-> mode]
Detail(t) == Call("detail", {}, t, {}, "")
ListCollections == Call("collections", {}, 0, {}, "")
GetCollection(c, tags, mode) == Call("get", {c}, 0, tags, mode)
PutCollection(c, tags) == Call("put", {c}, 0, tags, "replace")
Bulk(ids, tags, mode) == Call("bulk", ids, 0, tags, mode)
Delete(t) == Call("delete", {}, t, {}, "")
Rename(t, to) == Call("rename", {}, t, to, "")
Create(label) == Call("create", {}, 0, label, "")

Known(t) == t \in DOMAIN remote.label
Free(label) == \A t \in DOMAIN remote.label : remote.label[t] # label
Unused == Tags \ DOMAIN remote.label

Served(call) ==
  CASE call.call \in {"detail", "delete"} -> Known(call.tag)
    [] call.call = "rename" -> Known(call.tag) /\ Free(call.tags)
    [] call.call = "create" -> Free(call.tags) /\ Unused # {}
    [] OTHER -> TRUE

NewId == CHOOSE t \in Unused : \A u \in Unused : t <= u

After(call) ==
  CASE call.call \in {"bulk", "put"} ->
         [remote EXCEPT !.on = [c \in Carriers |->
            IF c \in call.carriers THEN With(@[c], call.mode, call.tags) ELSE @[c]]]
    [] call.call = "delete" ->
         [label |-> [t \in DOMAIN remote.label \ {call.tag} |-> remote.label[t]],
          on |-> [c \in Carriers |-> remote.on[c] \ {call.tag}]]
    [] call.call = "rename" -> [remote EXCEPT !.label[call.tag] = call.tags]
    [] call.call = "create" -> [remote EXCEPT !.label = (NewId :> call.tags) @@ @]
    [] OTHER -> remote

-----------------------------------------------------------------------------
(* The handlers: the requests each starts with, and those that follow from *)
(* an answer.  held: the collections as tag.merge and tag.delete know them.*)

Idle == [item |-> 0, todo |-> <<>>, held |-> <<>>, made |-> 0]
Executing == job.item # 0

\* resolveTagIds: the id a producer made joins those of the payload.
Produced(k) == IF queue[k].dep = 0 THEN {} ELSE {queue[queue[k].dep].tagId}
ResolveTagIds(k) == queue[k].args.tags \cup Produced(k)

\* The sources of a merge, in their order; its target is passed over.
Others(args) ==
  LET kept == {n \in DOMAIN args.sources : args.sources[n] # args.target}
      place(n) == CHOOSE m \in kept : Cardinality({j \in kept : j <= m}) = n
  IN  [n \in 1 .. Cardinality(kept) |-> args.sources[place(n)]]

Requests(k) ==
  LET args == queue[k].args
  IN  CASE queue[k].op = "tag.create" -> <<Create(args.label)>>
        [] queue[k].op = "tag.rename" -> <<Rename(args.tag, args.to)>>
        [] queue[k].op = "tag.delete" ->
             (IF args.detach THEN <<Detail(args.tag), ListCollections>> ELSE <<>>) \o <<Delete(args.tag)>>
        [] queue[k].op = "tag.merge" ->
             <<ListCollections>> \o [n \in DOMAIN Others(args) |-> Detail(Others(args)[n])]
        [] queue[k].op = "mediaTags" -> <<Bulk(args.ids, ResolveTagIds(k), args.mode)>>
        [] queue[k].op = "collectionTags" ->
             [n \in DOMAIN SetToSeq(args.ids) |-> GetCollection(SetToSeq(args.ids)[n], ResolveTagIds(k), args.mode)]

AllCollections == [c \in Collections |-> remote.on[c]]
CarriedBy(t) == {m \in Media : t \in remote.on[m]}
HeldWith(t) == SetToSeq({c \in DOMAIN job.held : t \in job.held[c]})

\* tag.merge, for one source: the media, then the collections, then the source.
Merged(tags, source, args) == (tags \cup {args.target}) \ (IF args.deleteSources THEN {source} ELSE {})
\* Mutant: the source goes before the collections have the target.
MergeOneDeleteFirst(source, args) ==
  LET media == CarriedBy(source)
      colls == HeldWith(source)
  IN  (IF media # {} THEN <<Bulk(media, {args.target}, "add")>> ELSE <<>>)
      \o (IF args.deleteSources THEN <<Delete(source)>> ELSE <<>>)
      \o [n \in DOMAIN colls |-> PutCollection(colls[n], Merged(job.held[colls[n]], source, args))]
MergeOne(source, args) ==
  LET media == CarriedBy(source)
      colls == HeldWith(source)
  IN  (IF media # {} THEN <<Bulk(media, {args.target}, "add")>> ELSE <<>>)
      \o [n \in DOMAIN colls |-> PutCollection(colls[n], Merged(job.held[colls[n]], source, args))]
      \o (IF args.deleteSources THEN <<Delete(source)>>
          ELSE IF media # {} THEN <<Bulk(media, {source}, "remove")>> ELSE <<>>)

\* tag.delete reads the collections it detaches the tag from.
Detach(t) ==
  LET colls == SetToSeq({c \in Collections : t \in remote.on[c]})
  IN  [n \in DOMAIN colls |-> PutCollection(colls[n], remote.on[colls[n]] \ {t})]

\* applyCollectionTags: no PUT for a collection that has it all.
PutIfChanged(call) ==
  LET c == CHOOSE c \in call.carriers : TRUE
      next == With(remote.on[c], call.mode, call.tags)
  IN  IF next = remote.on[c] THEN <<>> ELSE <<PutCollection(c, next)>>

Following(call) ==
  LET item == queue[job.item]
  IN  CASE call.call = "detail" /\ item.op = "tag.merge" -> MergeOne(call.tag, item.args)
        [] call.call = "detail" /\ item.op = "tag.delete" ->
             IF CarriedBy(call.tag) # {} THEN <<Bulk(CarriedBy(call.tag), {call.tag}, "remove")>> ELSE <<>>
        [] call.call = "collections" /\ item.op = "tag.delete" -> Detach(item.args.tag)
        [] call.call = "get" -> PutIfChanged(call)
        [] OTHER -> <<>>

\* What the handler remembers of an answer.  A merge goes on with what it put.
Hold(call) ==
  CASE call.call = "collections" -> AllCollections
    [] call.call = "put" /\ job.held # <<>> ->
         [c \in DOMAIN job.held |-> IF c \in call.carriers THEN call.tags ELSE job.held[c]]
    [] OTHER -> job.held

-----------------------------------------------------------------------------
Init ==
  /\ remote \in Starts
  /\ queue \in {Staged(p, remote.label) : p \in Plans}
  /\ job = Idle
  /\ start = remote
  /\ touched = {} /\ straight = TRUE
  /\ failures = 0 /\ retries = 0 /\ edits = 0

Pending == {k \in DOMAIN queue : queue[k].status = "pending"}

First(k) == k \in Pending /\ \A j \in Pending : k <= j
Ready(k) == queue[k].dep \in {0} \cup {j \in DOMAIN queue : queue[j].status = "succeeded"}
Settled(k, status, tagId) == queue' = [queue EXCEPT ![k].status = status, ![k].tagId = tagId]

Begin ==
  /\ ~Executing
  /\ \E k \in DOMAIN queue : First(k) /\ Ready(k) /\ job' = [Idle EXCEPT !.item = k, !.todo = Requests(k)]
  /\ UNCHANGED <<remote, queue, start, touched, straight, failures, retries, edits>>

Skip ==
  /\ ~Executing
  /\ \E k \in DOMAIN queue : First(k) /\ ~Ready(k) /\ Settled(k, "skipped", 0)
  /\ straight' = FALSE
  /\ UNCHANGED <<remote, job, start, touched, failures, retries, edits>>

Answered ==
  /\ Executing /\ job.todo # <<>>
  /\ LET call == Head(job.todo)
     IN  /\ Served(call)
         /\ remote' = After(call)
         /\ job' = [job EXCEPT !.todo = Following(call) \o Tail(@), !.held = Hold(call),
                               !.made = IF call.call = "create" THEN NewId ELSE @]
  /\ UNCHANGED <<queue, start, touched, straight, failures, retries, edits>>

Fails(after) ==
  /\ remote' = after
  /\ Settled(job.item, "failed", 0)
  /\ job' = Idle /\ straight' = FALSE
  /\ UNCHANGED <<start, touched, retries, edits>>

Refused ==
  /\ Executing /\ job.todo # <<>> /\ ~Served(Head(job.todo))
  /\ Fails(remote) /\ UNCHANGED failures

\* No connection, or no answer in time: what was asked may be done or not.
Unanswered ==
  /\ Executing /\ job.todo # <<>> /\ Served(Head(job.todo)) /\ failures < MaxFailures
  /\ failures' = failures + 1
  /\ Fails(remote) \/ Fails(After(Head(job.todo)))

Return ==
  /\ Executing /\ job.todo = <<>>
  /\ Settled(job.item, "succeeded", job.made)
  /\ job' = Idle
  /\ UNCHANGED <<remote, start, touched, straight, failures, retries, edits>>

Retry ==
  /\ ~Executing /\ retries < MaxRetries
  /\ \E k \in DOMAIN queue : queue[k].status \in {"failed", "skipped"} /\ Settled(k, "pending", 0)
  /\ retries' = retries + 1
  /\ UNCHANGED <<remote, job, start, touched, straight, failures, edits>>

\* Another user of the instance gives or takes a tag.
OtherEdits ==
  /\ edits < MaxEdits
  /\ \E c \in Carriers, t \in DOMAIN remote.label :
       /\ remote' = [remote EXCEPT !.on[c] = IF t \in @ THEN @ \ {t} ELSE @ \cup {t}]
       /\ touched' = touched \cup {c}
  /\ edits' = edits + 1
  /\ UNCHANGED <<queue, job, start, straight, failures, retries>>

Next == Begin \/ Skip \/ Answered \/ Refused \/ Unanswered \/ Return \/ Retry \/ OtherEdits

Spec == Init /\ [][Next]_vars

-----------------------------------------------------------------------------
(* Properties.                                                             *)

Untouched == Carriers \ touched
Merges == {k \in DOMAIN queue : queue[k].op = "tag.merge"}
Group(k) == ToSet(queue[k].args.sources) \cup {queue[k].args.target}

\* Wherever a merge stops, what carried one of the tags still carries one of them:
\* no failed or unanswered request, no retry and no edit of something else takes the
\* association off a film or a collection.
MergeLosesNoCarrier ==
  \A k \in Merges : \A c \in Untouched :
    start.on[c] \cap Group(k) # {} => remote.on[c] \cap Group(k) # {}

\* What applyMediaTags is staged for: when its items ran, each once, the media have
\* the tags the dialog named, those made on the way among them: no more of them in
\* mode "replace", besides what they had in mode "add".
Edits == {k \in DOMAIN queue : queue[k].op = "mediaTags"}
Made == {queue[k].tagId : k \in DOMAIN queue} \ {0}
TagsAreAsStaged ==
  straight /\ Edits # {} /\ ~Executing /\ Pending = {} =>
    LET first == CHOOSE k \in Edits : \A j \in Edits : k <= j
        args == queue[first].args
    IN  \A m \in args.ids \cap Untouched :
          remote.on[m] = With(start.on[m], args.mode, args.tags \cup Made)

\* Find and replace does what its preview shows ("which is what the user actually
\* means", stores/queue.ts:546), by a rename or a merge: when its items ran, what
\* carried a label carries the new one in its place, and no other label is gone.
Replacement(k) == queue[k].op = "tag.rename" \/ (queue[k].op = "tag.merge" /\ queue[k].args.deleteSources)
Renamed(t) ==
  {queue[k].args.to : k \in {k \in DOMAIN queue : queue[k].op = "tag.rename" /\ queue[k].args.tag = t}}
  \cup {start.label[queue[k].args.target] : k \in {k \in Merges : t \in ToSet(queue[k].args.sources)}}
NewLabels(t) == IF Renamed(t) = {} THEN {start.label[t]} ELSE Renamed(t)
ReplacedAsPreviewed ==
  straight /\ ~Executing /\ Pending = {} /\ (\A k \in DOMAIN queue : Replacement(k)) =>
    \A c \in Untouched :
      {remote.label[t] : t \in remote.on[c]} = UNION {NewLabels(t) : t \in start.on[c]}

=============================================================================
