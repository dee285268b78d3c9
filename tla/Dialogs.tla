-------------------------------- MODULE Dialogs --------------------------------
(***************************************************************************)
(* The path view's selection (views/PathMatrixView.vue) and the dialogs it *)
(* opens that ask the server before they stage: DiskOperationModal.vue,    *)
(* BulkDeleteDialog.vue, NewFoldersDialog.vue and the destination of       *)
(* RemapDialog.vue.                                                        *)
(*                                                                         *)
(* A dialog sends the questions its form asks whenever the form changes;   *)
(* the server answers each from the disk and the fleet as they are on the  *)
(* way; answers come in any order, or not at all.  A path is the sequence  *)
(* of its names, trimmed.  What is typed to confirm is typed rightly; the  *)
(* steps of a chain are StagedChains.  One dialog, closed by staging.      *)
(***************************************************************************)
EXTENDS DeleteGuard, Naturals, SequencesExt

CONSTANTS
  Situations,       \* what the server answers from: [dirs, files, claims]
  FolderRows,       \* the folders the view reads below its mount
  Offered,          \* the rows that actionsFor gives rename, move and prune
  Switchable,       \* the rows it gives remap
  TypedPaths,       \* the names and destinations a user types
  Drafts,           \* what planNewFolders makes of a parent and a draft: sequences of paths
  PreflightLimit,   \* of the code
  KindsOpened,      \* the dialogs a user may open
  MaxClicks,        \* bound: what the user does at the table
  MaxEdits,         \* bound: what the user does in the dialog
  MaxChecks         \* bound: checks in flight

\* What the constants are.
ASSUME DialogAssumption ==
  /\ MaxClicks \in Nat /\ MaxEdits \in Nat /\ MaxChecks \in Nat \ {0} /\ PreflightLimit \in Nat \ {0}
  /\ Offered \cup Switchable \subseteq FolderRows
  /\ \A w \in Situations : \A p \in DOMAIN w.claims : w.claims[p] \in Claims

VARIABLES
  situation,
  fetched, rowsOpen, selected,   \* the table: levels read, rows open, rows ticked
  form,        \* the dialog and what is chosen in it
  verdicts,    \* that it shows
  asking,      \* its checks in flight
  checking,
  staged,      \* what it hands over to the queue store
  clicks, edits,
  inTurn,      \* history: no check was sent before the last one was answered
  still        \* history: disk and fleet are what they were at first

view == <<fetched, rowsOpen, selected, clicks>>
dialogVars == <<situation, view, form, verdicts, asking, checking, staged, edits, inTurn, still>>

Checks == 1 .. MaxChecks
NoCheck == [phase |-> "none"]
NoForm == [kind |-> "none"]
Nowhere == <<>>
Nothing == [items |-> {}]
Idle(s) == asking[s] = NoCheck
InFlight == {s \in Checks : ~Idle(s)}
ParentOf(p) == Front(p)

-------------------------------------------------------------------------------
(* What is asked, and what is answered (fs/filesystem.service.ts).         *)

MakeFolder(p, recursive) == [op |-> "fs.mkdir", from |-> Nowhere, to |-> p, recursive |-> recursive, force |-> FALSE, assume |-> {}]
Relocate(op, from, to) == [op |-> op, from |-> from, to |-> to, recursive |-> FALSE, force |-> FALSE, assume |-> {}]
Delete(p, f) == [op |-> "fs.delete", from |-> p, to |-> Nowhere, recursive |-> f.recursive, force |-> f.force, assume |-> f.ticked]

IsThere(w, p) == p \in w.dirs \cup w.files
Inside(w, p) == {q \in w.dirs \cup w.files : IsStrictPrefix(p, q)}
NoClaims == [rootFolders |-> {}, media |-> {}, lists |-> {}, collections |-> {}, complete |-> TRUE]
ClaimsOn(w, p) == IF p \in DOMAIN w.claims THEN w.claims[p] ELSE NoClaims

Blockers(w, q) ==
  {id \in {"destination_free", "destination_parent", "same_parent", "source", "recursive_required", "references"} :
     \/ id = "destination_free" /\ q.op # "fs.delete" /\ IsThere(w, q.to)
     \/ id = "destination_parent" /\ q.op # "fs.delete" /\ ~IsThere(w, ParentOf(q.to)) /\ ~(q.op = "fs.mkdir" /\ q.recursive)
     \/ id = "same_parent" /\ q.op = "fs.rename" /\ ParentOf(q.to) # ParentOf(q.from)
     \/ id = "source" /\ q.op # "fs.mkdir" /\ q.from \notin w.dirs
     \/ id = "recursive_required" /\ q.op = "fs.delete" /\ ~q.recursive /\ Inside(w, q.from) # {}
     \/ id = "references" /\ q.op = "fs.delete" /\ ~Passes(ClaimsOn(w, q.from), q.force, q.assume)}

\* The checks of a delete that are anything but ok, by the option that answers to
\* them (needsRecursive, lib/delete-bridge.ts).
Raised(w, q) ==
  LET claims == ClaimsOn(w, q.from)
  IN  {option \in {"recursive", "force"} \cup Bridges :
         /\ q.op = "fs.delete"
         /\ \/ option = "recursive" /\ Inside(w, q.from) # {}
            \/ option = "force" /\ NeedsForce(claims, q.force)
            \/ option = "rootFolders" /\ RootFolderCheck(claims, q.force, q.assume) # "ok"
            \/ option = "importLists" /\ ImportListCheck(claims, q.force, q.assume) # "ok"
            \/ option = "collections" /\ CollectionCheck(claims, q.force, q.assume) # "ok"}

Verdict(w, q) == [blockers |-> Blockers(w, q), raised |-> Raised(w, q)]
\* What a dialog makes of no answer.
Unanswered == [blockers |-> {"request_failed"}, raised |-> {}]

\* Each question is answered from the situation it was asked in, from that there
\* is now, or not.
Answer(r, q, from) ==
  CASE from = "asked" -> Verdict(r.since, q) [] from = "now" -> Verdict(situation, q) [] from = "none" -> Unanswered
Replies(r) == {{[of |-> q, says |-> Answer(r, q, from[q])] : q \in r.of} : from \in [r.of -> {"asked", "now", "none"}]}

Raises(answers, option) == \E e \in answers : option \in e.says.raised
BlockersAt(p) == UNION {e.says.blockers : e \in {a \in verdicts : p \in {a.of.from, a.of.to}}}

-------------------------------------------------------------------------------
(* The table and its selection.                                            *)

ChildRows(p) == {c \in FolderRows : Len(c) = Len(p) + 1 /\ IsPrefix(p, c)}
VisibleIn(read, open) == {p \in FolderRows : \A q \in FolderRows : IsStrictPrefix(q, p) => q \in read \cap open}
\* isLeafFolder: as far as the levels read tell.
LeavesIn(read) == {p \in FolderRows : p \notin read \/ ChildRows(p) = {}}
Selectable == VisibleIn(fetched, rowsOpen) \cap LeavesIn(fetched)

AtTheTable == UNCHANGED <<situation, form, verdicts, asking, checking, staged, edits, inTurn, still>>
Click == form = NoForm /\ staged = Nothing /\ clicks < MaxClicks /\ clicks' = clicks + 1
ToggleSelected ==
  /\ Click
  /\ \E p \in Selectable : selected' = (selected \ {p}) \cup ({p} \ selected)
  /\ UNCHANGED <<fetched, rowsOpen>> /\ AtTheTable

ToggleAll ==
  /\ Click /\ Selectable # {}
  /\ selected' = IF Selectable \subseteq selected THEN selected \ Selectable ELSE selected \cup Selectable
  /\ UNCHANGED <<fetched, rowsOpen>> /\ AtTheTable

\* The watch on the rows: what is a parent now has no checkbox.
DropParents(rows) == selected' = selected \ (rows \ LeavesIn(fetched'))

ExpandRow ==
  /\ Click
  /\ \E p \in VisibleIn(fetched, rowsOpen) :
       /\ fetched' = fetched \cup {p} /\ rowsOpen' = rowsOpen \cup {p}
       /\ DropParents(VisibleIn(fetched', rowsOpen'))
  /\ AtTheTable

CollapseRow ==
  /\ Click
  /\ \E p \in rowsOpen : rowsOpen' = {q \in rowsOpen : ~IsPrefix(p, q)}
  /\ UNCHANGED <<fetched, selected>> /\ AtTheTable

\* paths.load: the tree is the spine again, the selection stays.
ReloadTree ==
  /\ Click /\ fetched # {}
  /\ fetched' = {} /\ rowsOpen' = {}
  /\ UNCHANGED selected /\ AtTheTable

\* prunableFolders: of the selected those that a delete is offered for, and of
\* these the outermost.
PrunableFolders(nodes) ==
  LET eligible == nodes \cap Offered
  IN  {p \in eligible : ~\E q \in eligible : IsStrictPrefix(q, p)}

-------------------------------------------------------------------------------
(* The forms.                                                              *)

DiskForm(op, target) ==
  [kind |-> "disk", op |-> op, target |-> target, to |-> IF op = "fs.move" THEN target ELSE Nowhere,
   recursive |-> FALSE, force |-> FALSE, ticked |-> {"rootFolders"}]
BulkForm(targets) == [kind |-> "bulk", targets |-> targets, recursive |-> FALSE, force |-> FALSE, ticked |-> {"rootFolders"}]
CreateForm(draft) == [kind |-> "create", plan |-> draft, recursive |-> TRUE, skip |-> TRUE, due |-> FALSE,
                      checkedFor |-> IF draft = <<>> THEN <<TRUE, draft>> ELSE Nowhere]
\* known: the levels read, as what they say of their emptiness; counted: the ids
\* of the media are at hand; touched (history): changed since the click.
SwitchForm(from) ==
  [kind |-> "switch", from |-> from, to |-> Nowhere, ack |-> FALSE, known |-> <<>>,
   counted |-> TRUE, confirming |-> FALSE, touched |-> FALSE]

\* The questions a form asks.  A name left alone and no destination ask nothing.
Checkable(f) == {f.plan[k] : k \in 1 .. (IF Len(f.plan) < PreflightLimit THEN Len(f.plan) ELSE PreflightLimit)}
Questions(f) ==
  CASE f.kind = "disk" -> IF f.op = "fs.delete" THEN {Delete(f.target, f)}
                          ELSE IF f.to = Nowhere THEN {} ELSE {Relocate(f.op, f.target, f.to)}
    [] f.kind = "bulk" -> {Delete(p, f) : p \in f.targets}
    [] f.kind = "create" -> {MakeFolder(p, f.recursive) : p \in Checkable(f)}
    [] f.kind = "switch" -> IF f.to = Nowhere THEN {} ELSE {MakeFolder(f.to, TRUE)}

PlanKey(f) == <<f.recursive, f.plan>>
Request(f) ==
  [phase |-> "verdict", of |-> Questions(f), since |-> situation, latest |-> TRUE,
   key |-> IF f.kind = "create" THEN PlanKey(f) ELSE Nowhere]

\* check: none of the dialogs but NewFolders takes note of the checks before.
Ask(s, f) ==
  /\ asking' = [asking EXCEPT ![s] = Request(f)]
  /\ checking' = TRUE
  /\ inTurn' = (inTurn /\ InFlight \subseteq {s})

\* The table is out of play from here on.
OpenWith(f) ==
  /\ form = NoForm /\ staged = Nothing
  /\ form' = f
  /\ IF Questions(f) = {} THEN UNCHANGED <<asking, checking, inTurn>> ELSE Ask(1, f)
  /\ fetched' = {} /\ rowsOpen' = {} /\ selected' = {} /\ clicks' = 0
  /\ UNCHANGED <<situation, verdicts, staged, edits, still>>

OpenDisk ==
  /\ "disk" \in KindsOpened
  /\ \E op \in {"fs.rename", "fs.move", "fs.delete"}, p \in VisibleIn(fetched, rowsOpen) \cap Offered : OpenWith(DiskForm(op, p))
OpenBulk == "bulk" \in KindsOpened /\ PrunableFolders(selected) # {} /\ OpenWith(BulkForm(PrunableFolders(selected)))
OpenSwitch == "switch" \in KindsOpened /\ \E p \in VisibleIn(fetched, rowsOpen) \cap Switchable : OpenWith(SwitchForm(p))

FormEdit == edits < MaxEdits /\ edits' = edits + 1

-------------------------------------------------------------------------------
(* Deletes and relocations.                                                *)

Opted == form.kind = "bulk" \/ (form.kind = "disk" /\ form.op = "fs.delete")
\* One option taken or taken back.
Toggled(option) ==
  [form EXCEPT !.recursive = IF option = "recursive" THEN ~@ ELSE @, !.force = IF option = "force" THEN ~@ ELSE @,
               !.ticked = IF option \in Bridges THEN (@ \ {option}) \cup ({option} \ @) ELSE @]

\* Mutant: ticking a bridge does not ask again.
RecheckOptions(s, f) ==
  IF f.ticked # form.ticked THEN UNCHANGED <<asking, checking, inTurn>> ELSE Ask(s, f)

\* The watch on the form.
Recheck(s, f) == Ask(s, f)

\* A checkbox is there when a verdict raises its question.
Choose ==
  /\ Opted /\ FormEdit
  /\ \E s \in Checks, option \in {"recursive", "force"} \cup Bridges :
       LET f == Toggled(option)
       IN  /\ Raises(verdicts, option)
           /\ Idle(s) /\ form' = f
           /\ Recheck(s, f)
  /\ UNCHANGED <<situation, view, verdicts, staged, still>>

\* A new name or destination; none of it asks nothing and shows nothing.
Rename ==
  /\ form.kind = "disk" /\ form.op # "fs.delete" /\ FormEdit
  /\ \E s \in Checks, to \in TypedPaths \cup {Nowhere} :
       LET f == [form EXCEPT !.to = to]
       IN  /\ Idle(s) /\ to # form.to /\ form' = f
           /\ IF Questions(f) = {} THEN verdicts' = {} /\ UNCHANGED <<asking, checking, inTurn>>
              ELSE Ask(s, f) /\ UNCHANGED verdicts
  /\ UNCHANGED <<situation, view, staged, still>>

\* The watch on needsRecursive and needsForce: an option no verdict explains any
\* more is taken back, which asks again.
Explained(f, answers) ==
  [f EXCEPT !.recursive = @ /\ Raises(answers, "recursive"), !.force = @ /\ Raises(answers, "force")]

OptionsAnswered ==
  /\ form.kind \in {"disk", "bulk"}
  /\ \E s \in InFlight : \E answers \in Replies(asking[s]) :
       LET kept == Explained(form, answers)
       IN  /\ verdicts' = answers /\ form' = kept
           /\ IF kept # form THEN Ask(s, kept)
              ELSE asking' = [asking EXCEPT ![s] = NoCheck] /\ checking' = FALSE /\ UNCHANGED inTurn
  /\ UNCHANGED <<situation, view, staged, edits, still>>

\* What is handed over, and whether it is what the last verdicts asked for are about.
Hand(items, calm) ==
  /\ staged' = [items |-> items, form |-> form, calm |-> calm]
  /\ form' = NoForm /\ verdicts' = {} /\ asking' = [s \in Checks |-> NoCheck] /\ checking' = FALSE
  /\ UNCHANGED <<situation, view, edits, inTurn, still>>

\* canStage, stage: it does not wait for the check in flight.
StageDisk ==
  /\ form.kind = "disk" /\ Questions(form) # {}
  /\ \E e \in verdicts : e.says.blockers = {}
  /\ Hand(Questions(form), inTurn /\ InFlight = {})

\* valid, confirm: every row without a blocker.
StageBulk ==
  /\ form.kind = "bulk" /\ ~checking
  /\ LET stageable == {p \in form.targets : BlockersAt(p) = {}}
     IN  /\ stageable # {}
         /\ Hand({Delete(p, form) : p \in stageable}, inTurn)

-------------------------------------------------------------------------------
(* New folders.                                                            *)

OpenCreate == "create" \in KindsOpened /\ \E draft \in Drafts : OpenWith(CreateForm(draft))

\* planKey changes: the settling time starts over.  skipExisting is not part of it.
EditPlan ==
  /\ form.kind = "create" /\ FormEdit
  /\ \/ \E draft \in Drafts, recursive \in BOOLEAN :
          LET f == [form EXCEPT !.plan = draft, !.recursive = recursive, !.due = TRUE]
          IN  PlanKey(f) # PlanKey(form) /\ form' = f
     \/ form' = [form EXCEPT !.skip = ~@]
  /\ UNCHANGED <<situation, view, verdicts, asking, checking, staged, inTurn, still>>

Superseded == [s \in Checks |-> IF Idle(s) THEN NoCheck ELSE [asking[s] EXCEPT !.latest = FALSE]]

PlanSettles ==
  /\ form.kind = "create" /\ form.due
  /\ IF Questions(form) = {}
     THEN /\ asking' = Superseded /\ verdicts' = {} /\ checking' = FALSE
          /\ form' = [form EXCEPT !.due = FALSE, !.checkedFor = PlanKey(form)]
     ELSE \E s \in Checks :
          /\ Idle(s)
          /\ asking' = [Superseded EXCEPT ![s] = Request(form)]
          /\ checking' = TRUE /\ form' = [form EXCEPT !.due = FALSE]
          /\ UNCHANGED verdicts
  /\ UNCHANGED <<situation, view, staged, edits, inTurn, still>>

\* mine = sequence
IsMine(r) == r.latest

CreateAnswered ==
  /\ form.kind = "create"
  /\ \E s \in InFlight : \E answers \in Replies(asking[s]) :
       /\ asking' = [asking EXCEPT ![s] = NoCheck]
       /\ IF IsMine(asking[s])
          THEN verdicts' = answers /\ checking' = FALSE /\ form' = [form EXCEPT !.checkedFor = asking[s].key]
          ELSE UNCHANGED <<verdicts, checking, form>>
  /\ UNCHANGED <<situation, view, staged, edits, inTurn, still>>

UpToDate == form.checkedFor = PlanKey(form)
Existing == {p \in Checkable(form) : "destination_free" \in BlockersAt(p)}
ToCreate == {form.plan[k] : k \in DOMAIN form.plan} \ (IF form.skip THEN Existing ELSE {})

StageCreate ==
  /\ form.kind = "create" /\ UpToDate /\ ~checking
  /\ ToCreate # {} /\ \A p \in ToCreate : BlockersAt(p) = {}
  /\ Hand({MakeFolder(p, form.recursive) : p \in ToCreate}, TRUE)

-------------------------------------------------------------------------------
(* The destination of a switch.                                            *)

\* mkdirPath: the verdict there is, read with the destination there is.
MkdirPath == IF \E e \in verdicts : "destination_free" \notin e.says.blockers THEN form.to ELSE Nowhere

Emptiness ==
  IF MkdirPath # Nowhere THEN "empty"
  ELSE IF form.to \in DOMAIN form.known THEN form.known[form.to] ELSE "unknown"

\* judgeDestination on every change; the acknowledgement and the verdict stay.
EditDestination ==
  /\ form.kind = "switch" /\ FormEdit
  /\ \E s \in Checks, to \in TypedPaths :
       LET f == [form EXCEPT !.to = to, !.touched = @ \/ form.confirming]
       IN  /\ Idle(s) /\ to # form.to /\ form' = f
           /\ Ask(s, f)
  /\ UNCHANGED <<situation, view, verdicts, staged, still>>

Acknowledge ==
  /\ form.kind = "switch" /\ Emptiness = "occupied" /\ FormEdit
  /\ form' = [form EXCEPT !.ack = ~@, !.touched = @ \/ form.confirming]
  /\ UNCHANGED <<situation, view, verdicts, asking, checking, staged, inTurn, still>>

\* loadCounts: one that fails leaves the ids to be asked for at the click.
CountFails ==
  /\ form.kind = "switch" /\ form.counted /\ FormEdit
  /\ form' = [form EXCEPT !.counted = FALSE]
  /\ UNCHANGED <<situation, view, verdicts, asking, checking, staged, inTurn, still>>

\* The level of the destination is read when no mkdir is in question: of the
\* destination there is by now.
ThenLook(s) ==
  IF MkdirPath' # Nowhere THEN asking' = [asking EXCEPT ![s] = NoCheck] /\ checking' = FALSE
  ELSE asking' = [asking EXCEPT ![s].phase = "level", ![s].key = form.to] /\ UNCHANGED checking

DestinationJudged ==
  /\ form.kind = "switch"
  /\ \E s \in InFlight :
       /\ asking[s].phase = "verdict"
       /\ \/ \E q \in asking[s].of, w \in {asking[s].since, situation} :
               /\ verdicts' = {[of |-> q, says |-> Verdict(w, q)]}
               /\ UNCHANGED form
               /\ ThenLook(s)
          \/ /\ verdicts' = {} /\ UNCHANGED form
             /\ asking' = [asking EXCEPT ![s] = NoCheck] /\ checking' = FALSE
  /\ UNCHANGED <<situation, view, staged, edits, inTurn, still>>

\* fetchLevels swallows its error.
DestinationRead ==
  /\ form.kind = "switch"
  /\ \E s \in InFlight :
       /\ asking[s].phase = "level"
       /\ LET p == asking[s].key
          IN  form' \in {form} \cup
                {[form EXCEPT !.known = (p :> (IF Inside(w, p) = {} THEN "empty" ELSE "occupied")) @@ @] : w \in {asking[s].since, situation}}
       /\ asking' = [asking EXCEPT ![s] = NoCheck] /\ checking' = FALSE
  /\ UNCHANGED <<situation, view, verdicts, staged, edits, inTurn, still>>

\* mkdirBlockers
OtherBlockers == (UNION {e.says.blockers : e \in verdicts}) \ {"destination_free"}

\* valid
Valid ==
  /\ form.to # form.from /\ OtherBlockers = {} /\ ~checking
  /\ Emptiness = "occupied" => form.ack

\* The head of the chain, from the form as it is once the ids are there.
HandSwitch == Hand(IF MkdirPath = Nowhere THEN {} ELSE {MakeFolder(MkdirPath, TRUE)}, inTurn /\ ~form.touched /\ verdicts # {})

Confirm ==
  /\ form.kind = "switch" /\ form.to # Nowhere /\ Valid
  /\ IF form.counted THEN HandSwitch
     ELSE /\ ~form.confirming
          /\ form' = [form EXCEPT !.confirming = TRUE]
          /\ UNCHANGED <<situation, view, verdicts, asking, checking, staged, edits, inTurn, still>>

IdsAnswered == form.kind = "switch" /\ form.confirming /\ HandSwitch
IdsFailed ==
  /\ form.kind = "switch" /\ form.confirming
  /\ form' = [form EXCEPT !.confirming = FALSE, !.touched = FALSE]
  /\ UNCHANGED <<situation, view, verdicts, asking, checking, staged, edits, inTurn, still>>

-------------------------------------------------------------------------------

\* A run, or another program, changes what the server answers from.
SituationChanges ==
  /\ form # NoForm /\ still
  /\ situation' \in Situations \ {situation} /\ still' = FALSE
  /\ UNCHANGED <<view, form, verdicts, asking, checking, staged, edits, inTurn>>

DialogInit ==
  /\ situation \in Situations
  /\ fetched = {} /\ rowsOpen = {} /\ selected = {}
  /\ form = NoForm /\ verdicts = {} /\ asking = [s \in Checks |-> NoCheck] /\ checking = FALSE
  /\ staged = Nothing /\ clicks = 0 /\ edits = 0
  /\ inTurn = TRUE /\ still = TRUE

DialogNext ==
  \/ ToggleSelected \/ ToggleAll \/ ExpandRow \/ CollapseRow \/ ReloadTree
  \/ OpenDisk \/ OpenBulk \/ OpenCreate \/ OpenSwitch
  \/ Choose \/ Rename \/ OptionsAnswered \/ StageDisk \/ StageBulk
  \/ EditPlan \/ PlanSettles \/ CreateAnswered \/ StageCreate
  \/ EditDestination \/ Acknowledge \/ CountFails \/ DestinationJudged \/ DestinationRead
  \/ Confirm \/ IdsAnswered \/ IdsFailed
  \/ SituationChanges

DialogSpec == DialogInit /\ [][DialogNext]_dialogVars

-------------------------------------------------------------------------------
(* Properties.                                                             *)

\* What a new folder brings with it: the folders above it, when they are to be made.
Makes(o) == IF o.op # "fs.mkdir" THEN {} ELSE IF o.recursive THEN {SubSeq(o.to, 1, n) : n \in 1 .. Len(o.to)} ELSE {o.to}

\* The items of a batch that may go before one: new folders go in the order of
\* their plan.
AheadOf(f, items, item) ==
  {o \in items \ {item} :
     f.kind = "create" => \E j, k \in DOMAIN f.plan : j < k /\ o.to = f.plan[j] /\ item.to = f.plan[k]}

\* The situation an item of a batch meets: its own bridges are through, and so are
\* those that went first, folders that were made and folders that were deleted.
Meets(item, first) ==
  LET gone == {o.from : o \in {q \in first : q.op = "fs.delete"}}
      left(paths) == {p \in paths : ~\E q \in gone : IsPrefix(q, p)}
  IN  [dirs |-> left(situation.dirs) \cup UNION {Makes(o) : o \in first}, files |-> left(situation.files),
       claims |-> [p \in DOMAIN situation.claims |->
                     IF p = item.from THEN Bridged(situation.claims[p], item.assume) ELSE situation.claims[p]]]

\* "Each preflight runs again immediately before its own step executes"
\* (BulkDeleteDialog.vue:412), and a blocker pauses the run: what a dialog staged
\* on verdicts that did not overlap passes it when the disk and the fleet stood
\* still - with the bridges it staged in front, and whatever else of its batch
\* went first.  New folders: as many as are asked about, and of a plan that has a
\* folder behind another that lies in it not that folder, which is judged free
\* although the one ahead makes it (new-folders.ts:67-84).
StagedPasses ==
  staged # Nothing /\ staged.calm /\ still =>
    \A item \in staged.items \cap Questions(staged.form) : \A first \in SUBSET AheadOf(staged.form, staged.items, item) :
      item.to \notin UNION {Makes(o) : o \in first} =>
        Blockers(Meets(item, first), [item EXCEPT !.assume = {}]) = {}

\* "Created as the head of the chain" when it is not there, and what is there "must
\* not get an fs.mkdir at all" (RemapDialog.vue:28-33); a folder that is known to be
\* occupied is merged into after a click: on verdicts that did not overlap.
SwitchAsJudged ==
  staged # Nothing /\ staged.calm /\ still /\ staged.form.kind = "switch" =>
    LET to == staged.form.to
    IN  /\ staged.items = {} <=> IsThere(situation, to)
        /\ to \in DOMAIN staged.form.known /\ staged.form.known[to] = "occupied" /\ IsThere(situation, to) => staged.form.ack

\* What a dialog staged on its verdicts is what its items meet, and the head of a
\* switch's chain is what its destination asks for.
StagedAsJudged == StagedPasses /\ SwitchAsJudged

=============================================================================
