# Fleetarr in TLA+

Fleetarr stages edits to a fleet of Radarr and Sonarr instances (and to the disk
they share) in a queue and applies them in *runs*, one item at a time. This
directory models that program, model-checks it with TLC and proves theorems
about it with TLAPS. Paths below are relative to the repository's `src/`.

## 1. The system

| Part | State it keeps | Operations | What makes it correct |
|---|---|---|---|
| Staging queue (`apps/server/src/repositories/queue.repo.ts`, staging half of `routes/queue.routes.ts`) | table `queue_items`: status, run, producer, order, instance | push, reorder, remove, clear, retry; cascade when an instance is removed | order keeps producers first; no row is lost while it runs; an id is used once |
| Run executor (`queue/executor.ts`, `repositories/runs.repo.ts`) | table `queue_runs`, `active`, the abort signal | start, resume, cancel, the loop, outcomes of handlers | the safety halt; one open run; counters that match the rows; closed runs leave nothing behind |
| Process (`app.ts`, `index.ts`, `context.ts`) | whether it is up, closing, down | boot and recovery, listen, SIGTERM, crash | rows say "running" only while somebody is at it; the server comes back |
| Event bus and SSE (`queue/events.ts`, `/queue/runs/:id/stream`) | replay buffers, sequence, subscribers | publish, replay, subscribe | a client that reconnects misses nothing that is still buffered |
| Operation handlers (`queue/handlers.ts`, `arr/client.ts`) | the remote instance | 20-odd ops, several of them many calls | what a partial failure leaves; ids from producers |
| Snapshot cache, path index, media fleet (`services/*.ts`) | snapshots, two 30 s memos | cached read, refresh, invalidate, join | no answer from before a change is kept after it; no copy of a title is lost; the delete guard never takes "unknown" for "unused" |
| Instances, dispatcher pool (`services/instances.service.ts`, `arr/http.ts`) | instance rows, one agent per instance | create, edit, remove, probe | no request with the settings of before an edit |
| Filesystem service and guard (`fs/*.ts`) | the disk, a measurement cache | measure, preflight, mkdir, rename, move, delete | nothing outside the roots; what was checked is what is changed |
| Path matrix (`services/path-matrix.service.ts`) | none | a level, the spine, the filter | no root folder is hidden; what the disk and the fleet say of a folder are told apart |
| Migrations (`db/migrate.ts`, `migrations/*.sql`) | the schema, what is recorded of it | apply the pending files, check the references | no row is lost when a table is rebuilt; what serves has its own schema, whole |
| Shared schemas and filters (`packages/shared`) | none | three-valued media filter, path filter, identities | the parser reads the grammar; a verdict stands |
| Web stores (`apps/web/src/stores`) | copies of the queue, the run, the fleets, the tree, the table | load, stream, stage, select | at rest what is shown is what is true |
| Web dialogs and libraries (`apps/web/src/components`, `lib`) | what is typed and ticked, verdicts | plan a chain of operations, ask the server, stage it | what is staged is what was shown and does what its button says |

Interactions. Routes call the repositories and the executor synchronously.
The executor calls a handler per item and awaits it; on success it invalidates
the snapshots of the instance and the joined views. Removing an instance
cascades to its queue items. The web stores read the fleet and the queue through
the routes; a dialog plans a chain of items from what a store knows, asks the
server for a preflight, and stages the chain in one or more posts, in which an
item depends on one of an earlier post. A tab follows the run on the event
stream and reads its views again when it ends.

What is hard: requests are served while a handler is in flight and edit the
rows the loop reads next; the process can die between any two committed
statements; a cancel races the answer of a handler; rows disappear by cascade
under the code that holds their ids; several caches are filled across awaits; a
request that failed may have been done; answers reach a tab in any order, or not
at all; what a dialog plans is executed much later, on a fleet and a disk that
others change.
`PROJECT.json` lists each such hazard at its line, with the properties that
cover it or the reason why none does.

## 2. The modules

| Module | Models |
|---|---|
| `QueueStore` | `queue_items` and every request that edits it |
| `QueueExecutor` | extends `QueueStore` with the runs, the executor and the process |
| `RunLifecycle` | the abstract specification: what a client of `/queue/runs` may rely on |
| `RunEvents` | the event bus, what the executor publishes, the SSE route and one EventSource |
| `RunStore` | extends `RunEvents` with a browser tab: the execution half of the web queue store |
| `SnapshotCache` | the snapshots of the instances, the two memos over them, and what invalidates them |
| `Migrations` | the database over the releases: the files, the runner, a process that stops anywhere |
| `Disk` | a disk, what the kernel does to it, and the path guard |
| `Filesystem` | extends `Disk` with the disk operations, their preflight and the measurements |
| `DeleteGuard` | the claims of the fleet on a path, their grading, and the bridge that clears them |
| `TagHandlers` | the tag operations a request at a time, and the batches of tag edits in front of them |
| `StagedChains` | the chains three dialogs stage, from their plan to the execution; uses `DeleteGuard` |
| `StagingDrawer` | extends `QueueStore` with a tab's list of staged items, its marks and its drawer |
| `Dialogs` | the selection of the path view and the dialogs that ask before they stage; uses `DeleteGuard` |
| `PathPatterns` | what a path filter expands to: braces, ranges, quotes, blanks |
| `PathMatrix` | `GET /fs/matrix` and the path filter, a pure function |
| `PathsStore` | extends `PathMatrix` with the paths view of a tab |
| `MediaFilter` | the filter language of the media view: parser and three-valued evaluation |
| `MediaRows` | how the server reads the fleet and joins the copies of a title into rows |
| `MediaStore` | the media view of a tab |
| `FleetMatrix` | the instances and tag matrix of a tab, the tag page and its batches |
| `MCSnapshotCache`, `MCHandlers`, `MCStaging`, `MCMediaView`, `MCPathView`, `MCTagView` | the instances for TLC |
| `QueueExecutorProofs`, `RunStoreProofs`, `SnapshotCacheProofs` (with `Migrations`), `HandlersProofs` (`TagHandlers` and `Filesystem`), `PathsStoreProofs`, `MediaStoreProofs`, `StagedChainsProofs` (with `DeleteGuard` and `Dialogs`), `FleetMatrixProofs` | the theorems |

### QueueStore

Every column of the table that some decision reads is a function on `Items`; a
row that does not exist has status "absent". better-sqlite3 is synchronous, so
a request is one action. `Push` assigns ids and orders as the transaction does
and refuses a batch with an unknown instance or producer; `Reorder` has exactly
the checks of the code (length, membership, order of the producers that are in
the list) and not the ones its message claims; `Remove`, `Clear` and
`RemoveInstance` delete with the two `ON DELETE CASCADE` keys (`Cascade` is the
closure over `depends_on_id`); `Retry` is `resetToPending`.

### QueueExecutor

The executor is one async function on a single-threaded event loop. The only
await in it that leaves the loop is the handler of an item, so requests are
served when `pc = "idle"` (no run is executed) and when `pc = "handler"`.
A crash is possible everywhere, and every statement commits by itself. The
values of `pc` are therefore the points between two commits where a crash leaves
other rows for the next boot:

    idle --Start--> claim --StartClaim--> loop
    idle --Resume--> reset / skip / relaunch --ResumeLaunch--> loop
    loop --BeginItem--> handler --> loop | halt (failed) | standDown (cancelled)
    halt --> idle (pause) | closeFailed (abort) | loop (continue)
    standDown --> closeCancelled --> idle;  loop --Finish--> idle
    any --Crash--> boot --RecoverItem*, RecoverRun, Listen--> idle

Two statements are one action only where the rows between them are the same for
whoever boots next (`SyncCounters` is recomputed by recovery for every run that
is still running). A handler has three outcomes (`HandlerSucceeds`,
`HandlerFails`, `HandlerAborted`) or finds its row deleted (`RowVanished`,
which ends the run through the `catch` of `launch`, with or without fresh
counters). `died` keeps of the column `error` only whether a run ended that way.
`begun` is a history variable: the items begun since the run was last launched.

Left out: payloads, labels, timestamps, `attempts`, the audit trail,
`current_item_id` and the published frames. No decision of this part reads them.

### RunLifecycle

Runs open one at a time; a step is applied for a running run, one at a time; a
run pauses, resumes and ends between steps (or ends with the step that was cut
off); a closed run stays closed. `QueueExecutor` implements it under the
mapping `phase <- runStatus`, `applying <- ApplyingRun`.

### RunEvents and RunStore

The server is one event loop: between two awaits of the executor nothing is
served. `Looping(r)` holds while the loop is between two items and `Quiet` when
requests can be served. A run is its status and `done`, the sum of its counters;
each action of the executor is the stretch of code up to the next `publish`
and publishes one frame (`Publish`: number it, append it, cut the buffer to
`BufferedEvents`, drop the buffers of the oldest runs beyond `BufferedRuns`,
hand it to the stream). `Connect` is the route: replay after `Last-Event-ID`,
or a `Synthetic` frame with id 0 when there is nothing, and subscribe, in one
step because the code has no await between them. `Crash` empties the bus,
`Boot` is `recoverInterrupted`, which publishes nothing. The EventSource is
modelled from the HTML standard's behaviour as the store relies on it: it keeps
the id of the last frame dispatched and connects again with it.

In `RunStore`, `view` is `activeRun`. A request is sent, served and answered in
three steps and sits in a slot in between, so answers overtake each other and the
frames. `ReceiveList` and `ReceiveDetail` are the two halves of `load`;
`ReceiveLaunch`, `ReceiveCancel` what `start`, `resume` and `cancel` do with their
answers; `Show` and `HangUp` are `applyEvent`; `DropAndPoll` and `ConnectFails`
the `onError` of `attachStream`. Other tabs (`Others`) are requests without a tab.

Left out: log frames and heartbeats (no state), the server's own end of the
stream 50 ms after `run.finished` (the store has hung up by then), an EventSource
that gives up on an error status, and edits of a run's items while it runs.

### SnapshotCache

The data of an *Arr server is a version. An entry is a server and a version: what
a view knows of one instance. The resources a view reads of an instance are read
and dropped together and are one entry; a read of a single instance is a fleet
read that keeps no memo. A read runs over awaits (`BeginRead`, `NextInstance` or
all at once, `Arrive`, `Store` or `FailRead`, `EndRead`), and everything else may
come in between: `Refresh` of an instance, the items of runs (`BeginItem`, `Apply`,
`ItemSucceeds`, `ItemFails`), `Create`, `Switch`, `Connect`, `Remove`. The path view
asks one instance after the other and gives up on one that fails; the fleet view
asks all at once and falls back on what is stored when a refresh fails.

`Connect` and `Remove` commit the row and then await the closing of the agent,
which waits for the requests it carries (`Closed`); only then `EditDone` drops
the snapshots and the memos. `closing` is that window. A removed instance takes
its snapshots with it and refuses new ones (foreign key).

An invalidation cannot reach an answer that is still under way: it is stored or
memoised afterwards, and for up to 30 seconds (a snapshot: until the next
invalidation) the view from before the change is served. The history flag
`raced` marks exactly these; `SnapshotsAreFresh` and `ViewsAreFresh` say that
there is no other way to an outdated answer. `due` keeps, for each instance and
server, the version that was current when Fleetarr was last told of a change.

### Migrations

A row of `queue_items` is its op, its instance and its producer, a row of
`queue_events` its item: the columns that a CHECK or a foreign key is about. Of the
ops and resources that appear together one stands for all, and each file is what
it makes of the rows, the CHECKs and the record (`Rebuild`, `OpsOf`, `ResourcesOf`,
`Copied`, `Links`). `Boot` is the start of `runMigrations` by the same or a later
release, which turns foreign keys off if files are pending; `ApplyFile` is one
transaction; `Recheck` turns them on and throws if a reference dangles; `Stop` is a
crash, a shutdown or a file that throws. In between, what serves stages, deletes,
logs, adds and removes instances and stores snapshots, cascades included
(`Stage`, `DeleteItems`, `RemoveInstance`, ...): whatever its schema lets it write.
Ids are not counted: a rebuilt table starts `AUTOINCREMENT` again at the largest id
that is left, so that an id of before may come back, and the model lets it.

### Disk and Filesystem

A path is the sequence of its names. A disk maps paths that go through no link to
nodes (kind, device, writable, target of a link). `Realpath`, `Lstat`, `MakeDir`,
`RenamePath`, `RemoveDir`, `RemoveTree` are the calls the service makes of
`node:fs/promises`, modelled from how it uses them (a link that leads to a link is
not followed further); `UsableRoots`, `Resolve`,
`IsMountPoint` are `PathGuard`: the parent chain is resolved through links, the
last name is left alone, and what comes out must be at or under a root.

An item of the queue begins (`BeginMkdir`, `BeginRelocation`, `BeginDelete`), runs
the checks of its preflight one at a time against the disk as it is at each
(`Check`), is refused at a blocker (`Refuse`) or mutates the disk (`Mutate`),
which may fail, and drops the measurements it made untrue (`Invalidate`). Others
write in between (`OtherWrites`): files and folders, no links, and not the roots,
which are mounted volumes (`FilesystemAssumption`). The handler resolves its paths
before the preflight and again before the mutation; the model does it once, at the
beginning. A measurement walks the folder, or what a link leads to, entry by entry
(`MeasureBegin`, `MeasureEntry`, `MeasureEnd`), stops at `Cap` and is kept until
it expires. `WalkDirectories` is the capped walk for media folders. `raced`,
`excused` and `overtaken` are histories: others wrote since.

### DeleteGuard

A claim of the fleet on a path is a record of sets: root folders, tracked media,
import lists (with what makes them refill a folder), collections, and whether
every instance answered. `ReferenceChecks` grades each class as
`filesystem.service.ts` does, with `force` and with the bridges a dialog promises
to stage (`assume`); `Bridged` is what those bridges make of the claims when they
have run (`delete-bridge.ts`, the operations it stages).

### TagHandlers

The instance is a function from carriers (media and collections) to sets of tag
ids, and from ids to labels. A handler is a program of requests (`job.todo`): one
is answered, refused, or done with its answer lost, and the item then fails where
it stands; a retry begins anew. `ListCollections` and `AllCollections` are read in
one request and written back in later ones, which is where another user's edit
(`OtherEdits`) comes between. In front of it, the plans `applyMediaTags` and
`applyFindReplace` make several items of one click, some of which take the id of
a tag that an earlier one makes. `TagAssumption` says what a dialog can stage: tags
and labels there are, and no find and replace in which a label that another one is
replaced by is itself replaced.

### StagedChains

One dialog (rename or move of a folder, switch of a root folder, delete of a
folder) is opened, counts the media of every candidate (`CountAnswered`,
`CountFailed`; `idCache` is `mediaIdCache`, which outlives a dialog), shows its
steps and is confirmed. `ConfirmRemap`, `ConfirmReconcile` and `ConfirmDelete` are
the three functions of the queue store: a sequence of posts, in which the dependence
of an item is a position in an earlier post. A post may fail, and the rest is then
not sent (`PostFailed`). `Execute` runs the next item in order, or skips it when
its producer has not succeeded; an item does what it does, fails, or does it and
loses its answer. `Retry`, `RemoveItem` and an execution out of order are the
meddling (`MaxMeddling`). The world is the root folders, the paths of media as
the instance has them and as the files are, one list, one collection, the folders.
A medium may be directly in a root folder, deeper in one, or in none
(`path-index.service.ts:22-25`, the flag `outside-root-folders` of
`media-fleet.service.ts:466-472`). `known` is a history of the confirmation: what each
instance had below the folder, and which media were directly in a root folder
(`Direct`), whose path an instance computes from its root folder when it realigns.

### StagingDrawer

`shown` is `items` of the queue store; `ServeList`, `FailList` and `ReceiveList(k)`
are `load`, with answers in any order. Every button is the request it sends, done or
refused or with its answer lost, and the `load` it asks for afterwards
(`RemoveItem`, `RetryItem`, `MoveItem`, `ClearFinished`, `DiscardAll` with one
request per item). `StageKeysFor`, `MediaIdsOf`, `Intent` are `stageKeysFor`,
`mediaIdsOf` and the marks of `lib/staging.ts`. A run and other tabs change the rows
of the server meanwhile (`Elsewhere`).

### Dialogs

The table: levels read (`fetched`), rows open, rows ticked. Only leaf folders have
a checkbox, and a row that turns out to be a parent loses it. A dialog is a `form`;
whenever it changes, the dialog sends the questions it asks (`Questions`, `Recheck`)
and shows the verdicts when they come. Only `NewFoldersDialog` numbers its checks
(`PlanSettles`, `Superseded`, `IsMine`). An option that no verdict explains any more is
taken back, which asks again (`Explained`). `DestinationJudged`, `DestinationRead`
and `Confirm` with its refetch of ids are `RemapDialog`. What is staged is the
items handed to the queue store; the model stops there. `Meets` is what an item finds
when its turn comes: its bridges are through, and so is whatever of its batch went
first, in any choice of `AheadOf`: folders deleted, and folders made with all above
them (`Makes`). One case is exempt: a new folder that another one ahead of it in the
plan makes on its way (section 3).

### PathPatterns

A source is a sequence of tokens, a pattern the sequence of those it takes
literally; a text stands for any run of characters that mean nothing here. The parser
is the recursive descent of the code with its limit (`ParseSequence`, `ParseBrace`,
`ParseQuoted`, `ExpandRange`, `Cross`), followed by what becomes of a pattern's
segments. The reference reads a source without a place in it: each token gets
its role from the quotes and escapes before it, each brace is matched with its own
end, and the patterns are the readings of the words between blanks. Globs, ranges of
letters and zero padding are left out: they say what one pattern matches or how a
number is written, not what belongs to which pattern.

### PathMatrix and PathsStore

`PathMatrix` computes a level: candidates from disk and fleet
(`CandidatesOf`), their classification, what the filter keeps (`PassesPathFilter`
with its navigable exception), the summary of a big level to its problems, sorting,
paging, the owners (`Owners`) and whether a row opens. `Spine` are the levels above
the root folders, sent with the first answer. The texts of notes are left out.
`Configured` are the roots of the configuration, of which a broken one is no mount: it
has a row on the top level, and a request for its level fails, with all else it asked
for (`Answerable`).

`PathsStore` has one slot per request in flight. A level of the tree is stored as
what it is an answer *to* (filter, scope, world), which is what
`AtRestTheTreeIsAsAsked` compares. What the user does is `SetFilter`,
`SetInstanceFilter`, `Rescan`, `Expand`, `Collapse`, `ExpandAll` (which goes on by
itself), `ShowFlat`, `ShowTree`, `FocusOn`; a run ends with `RunEnds`. The spine and the
levels are received or fail (`ReceiveSpine`, `ReceiveLevels`), and the flat list is
crawled depth by depth and page by page (`StartCrawl`, `CrawlOn`, `ReceivePages`).

### MediaFilter

The lexer and its characters are abstracted: the source is a sequence of tokens, a
typed value is a record of what it would be as a number, a date, a name. The
parser is the recursive descent of the code with its limits; the evaluation is
three-valued with quantifiers over copies. `Readings` is an independent reference:
*all* ways to read a sequence of tokens by the grammar. The machine types a filter,
has a row judged by it and lets the rest of the fleet answer. Two kinds of field change
with an answer, and `VerdictsStand` exempts the answers that change one the filter
reads: `instances`, which counts the copies at hand whoever is silent, and the facts
that a row has of its first copy (`First`).

### MediaRows

A build reads every instance: the library and the rest of its column, side by side,
then the import lists. Each is stored when it arrives (`Answer`, `ReadLists`), and what
is stored is not asked for unless it is a refresh. The first read that fails ends the
wait for the others (`CoreFails`): a refresh tries once more with what is stored, and
the reads still out (`late`) are stored whenever they arrive (`LateAnswer`), so that
the store may be newer than the rows. `had`, a history, are the instances whose
snapshots were there when the build began and that no run has dropped since: those
must be told of. `BuildRows` folds the copies in the order of the instances by the
ladder of ids (`MediaIdentity`), with a key of its own for a second copy of one
instance. Overlapping builds are in `SnapshotCache`.

### MediaStore

A request carries what it asks for; its answer carries who was silent. `asked` is the
filter and mode on screen, `table` the answer shown, `selectedKeys` and
`allMatching` the two ways of selecting. `Targets` is what an operation would be
staged for. A list asked for by a change of page clears the picks when it is over.
`SetFilter` with an expression that cannot be read (`Unreadable`) only puts it in the
place of the one before, and whatever is asked for with it on screen is asked for
without a filter (`Sent`).

### FleetMatrix

`items` (instances store), `snapshots` (matrix store) and the page. A load lists the
instances and then asks each for its tags; a reload of one instance and overlapping
loads are requests in one pool. The buttons of the page and its dialogs stage a batch
(`Stage`), which records what the user saw (`seen`). The items of the batch are then
run one by one, in any order (`RunOne`), on a copy of the tags of the instances: each
finds what those before it left, and is `Refused` or `Executed`. A refused item halts
its run; what is behind it goes on when the user takes it out, and the model goes on
with the rest. `Meant` is what the button says.

## 3. The runs

| Run | Instance | Shows |
|---|---|---|
| `runs` | 2 items in batches of 2, 2 runs, `pause` and `continue` | one open run, no row runs unattended, the safety halt, closed runs leave nothing and report what happened, nothing is begun twice in a launch, `RunLifecycle` is implemented |
| `liveness` | 2 items, 1 run, all policies, fairness | runs settle, a cancel gets its answer |
| `tab` | 2 runs of 1 item, 2 requests in flight, other tabs | a run shown as running is followed or asked about; a tab that was alone, one request at a time, shows the server's state at rest |
| `ends` | 1 run of 1 item, a buffer of 3 frames, drops and crashes, fairness | no stream is held open for a run that is over; nothing that is still buffered is missed |
| `cache` | 1 instance, 2 URLs, a read of each view, 1 change, 1 edit; or 2 items, 1 event and 1 instance in a database that goes through 7 files | snapshots and views are outdated only while an edit is under way or if they were overtaken; what serves is whole, no file is refused, no upgrade takes a row |
| `handlers` | a disk with links, two roots, mount points, one item and two writes of others; or 3 tags on 4 carriers, 2 failures, 2 retries, 2 edits of another user | nothing outside the roots changes, what a preflight passes is done, walks and measurements are honest; no association is lost, tags are as staged and previewed |
| `staging` | a Radarr and a Sonarr with nested or shared roots, media directly and deeper in them and outside of all, three dialogs, a failed or reordered item; or 7 menus of operations in a drawer beside others | steps are staged as shown, a chain that ran leaves every path where the files are, no drop before its move, the bridge satisfies the guard, marks tell what is staged |
| `leftbehind` | the rename dialog, counts that fail | **violated**: see findings |
| `discard` | a chain in the drawer, nobody else about | **violated**: see findings |
| `media` | 3 titles, pages of 2, 2 requests, an expression that cannot be read; or every source of up to 5 tokens; or 2 instances with films of one name, 4 events | the table is as asked, the whole match dies with its filter but for two ways, the parser follows the grammar, verdicts stand, no copy is lost |
| `paths` | a mount of 10 paths and a broken root, 3 filters, 2 scopes, a run, 2 requests; or 3 folders and the 4 dialogs; or every source of a filter up to 6 tokens | the tree answers its filter and reaches the root folders, the flat list is whole, what is staged passes as judged, a filter expands to what its braces spell |
| `matrix` | an old Radarr and another instance, 4 tags of which 3 are replaced, 2 loads, a drift | the items of a batch, in any order, do together what its button says |

`cache`, `handlers`, `staging`, `media` and `paths` each look at two or three machines
that share a topic and no variables: a selector chosen in `Init` says which one moves,
the others stay as they began. `Init` fixes those that stay, so a run is the sum of
its halves and not their product.

### Bounds

Executor: `MaxItems` bounds ids (AUTOINCREMENT never reuses one), `MaxBatch` one
POST, `MaxRuns` the runs, `RecoverLimit` is the 100 of `runs.list(100)`,
`Policies` the policies runs are started with; `MoreRuns` stops staging after
the last run, because nothing can apply what it stages. Two items give a
producer and its dependent, or an item that fails and one after it. Two runs give a
run that follows a paused, dead or cancelled one, with items left over from it.
`RecoverLimit = 1` is the hardest case: recovery may look at the newest run
only, and `OneOpenRun` is what makes that enough. The policy `abort` is in
`liveness` and in the proofs, which hold for every set of policies.

Stream: `BufferedEvents` and `BufferedRuns` stand for 250 and 5: a run of one item
that pauses and resumes publishes seven frames, more than the 3 of `ends`; in
`tab` the second run displaces the first. `MaxRequests` bounds the requests of a tab
in flight: two is the least with which answers overtake each other, and `Reload`
leaves one slot to the store's own requests. `AtRestTheViewIsTrue` speaks of
tabs whose requests did not overlap (`orderly`): with two, an older answer of one
load can stay after a newer one of another.

Caches: every hazard involves a read and one change or edit that comes
between its steps; the second read gives two memos that are made of the same
snapshot, and a refresh beside a cached read. `MaxChanges` and `MaxEdits` bound
versions and edits; of one instance one edit is under way at a time. The
instances, URLs and reads are interchangeable, and the run checks
invariants only, so the symmetry is sound.

Database: two items are a producer and its dependent, one of them perhaps of the op
that the last file deletes; the event is a row that hangs on them by a cascade, and the
instance one that they, and a snapshot, hang on. Every release from the first to the
last may follow any earlier one. The theorems have no bound.

Handlers: `Cap = 2` cuts the walk of a root with three folders below it. `MaxItems = 1`
is one disk item (the executor runs one at a time) and `MaxWrites = 2` a file and the
folder it needs. `MaxFailures`, `MaxRetries` and `MaxEdits` of 2 let an item fail, be
retried after another user's edit, and fail again elsewhere.

Chains: `MaxMeddling` is one retry, removal or item run before its turn, on top of any
number of failures and lost answers. Three root folder layouts (nested on one instance,
shared by two, one below the other's) are the ones in which chains of two instances
meet; in one of them a medium is in no root folder of its instance, in another it lies
deeper in one. The run has 637,212 states. Drawer: `MaxRows = 3` is a chain of three
or three operations on one row; two clicks (`MaxClicks`), two steps of others
(`MaxOthers`) and two requests of the list (`MaxRequests`), so that any two of them
meet in any order.

Media: `MaxTokens = 5` has `not (a or b` and `(a) and b`; `MaxDepth = 1` and
`MaxTerms = 3` stand for the limits of the code and are both exceeded. `MaxJudged`
is the length of a source by which rows are judged. `MaxEvents = 4` are two builds with a
read that fails in each, or one build and a refresh of which a read and its second try
fail, or with an edit of a library or a run in between; 557,618 states in all.

Paths: `FullLevelEntries = 3` (64 in the code) summarises a level of four candidates,
`DefaultLimit = 3` (200) and `FlatLimit = 2` (1000) cut pages, so the crawl needs a
second one. `MaxActs = 3` is a filter, an expansion and a run. `PreflightLimit = 2` is
below a plan of three folders, two of which lie in each other. `MaxTyped = 6` has
`{a,{b}}` and `{a,b}c`; a range, blank, quote, escape or slash counts twice, so that the
braces nest; `MaxPatterns = 2` (5000) is exceeded by two braces, or one of three.
`MaxClicks` and `MaxEdits` bound what is done at the table and in the dialog; four edits
reach the switch that is acknowledged, confirmed, and not acknowledged any more when its
ids come. Matrix: `MaxLoads`, `MaxRequests`, `MaxDrift`, `MaxClicks`: two overlapping
loads, one change by others, four clicks, which reach any dialog with a row ticked and
an instance chosen. Of the four labels two become one, and a third becomes one of those
two: both ways in which items of one find and replace meet (1,051,012 states).

### Fairness

`FairSpec` of `QueueExecutor`. `WF(ExecutorStep)`: the event loop runs what is ready.
`WF(HandlerSettles)`: every *Arr request carries `timeoutMs` (`arr/http.ts`) and
an fs call returns. `WF(Recovery)`: a process that went down is started again
(`docker-compose.yml`, `restart: unless-stopped`). No fairness is assumed of
requests, crashes or SIGTERM. `FairStoreSpec` assumes the same of the executor and
of `Boot`, and that the network delivers what is sent and the browser connects
again. `HangUp` gets strong fairness because in the model it may have to wait for
a slot, which the store does not. `RunsSettle` is stated for behaviours in which
crashes stop.

### Findings: where the code and what it says of itself differ

`leftbehind`: the dialog that renames or moves a folder
(`apps/web/src/components/storage/DiskOperationModal.vue:215-219, 350-357`) takes the
count of an instance that failed for "no media": it stages the drop of the root folder
without the move that should come before it. Its comment (`:267-268`) and the
sibling dialog (`roots/RemapDialog.vue:267-269`) say that neither may happen.

`discard`: `discardAll` (`apps/web/src/stores/queue.ts:1072-1083`) removes the staged
items by one request each. The removal of a producer takes its dependents along,
the request for the first of them is answered 404, the loop throws, and what comes
after it stays staged, with the list not read again and nothing said.

### Read in the code, and not run

What follows was read while modelling. It is not run here; the properties above say
where they exempt it.

Queue and executor.
- A `reorder` that names one pending item twice and another not at all passes the
  check (`queue.repo.ts:143` against `:144, 150-153`).
- After a `reorder` of what a paused run left pending, a failed producer that is
  retried keeps its old number and may run after its dependent, against
  "without losing its position" (`:196`).
- `remove` deletes a running dependent by cascade (`:183`); the run whose row
  vanished ends "failed" and leaves its later items pending in a run that can be
  neither resumed nor cancelled (`executor.ts:215` against `:80-81`).
- `resetToPending` accepts succeeded and cancelled items (`:199`). A crash between
  it and `claimForRun` (`executor.ts:154`) leaves the failed item outside its run.
- SIGTERM lets the whole run finish (`executor.ts:193`).

Events and the tab that follows a run.
- Event ids start again at 1 with the process (`events.ts:33, 53`): a stream that
  outlives it misses the first steps of the resumed run (`api/queue.ts:50-51`).
- The replay of a resumed run holds the `run.paused` of before, on which the store
  hangs up (`stores/queue.ts:1124`, `events.ts:19-20`).
- A reconnect with nothing to catch up on gets a frame of id 0; the next connection
  replays the whole run.
- The late answer of the poll after a lost connection can put a finished run back to
  running (`stores/queue.ts:1141`); with two loads in flight the older can stay.

Guards and handlers.
- The path index compares two counts of instances to call an answer complete
  (`path-index.service.ts:155-156, 225`): one gone and one come in between pass.
- `tag.merge` leaves the source tag on collections when the sources survive, "exactly as
  the media half does" (`handlers.ts:194-195`), but the media half takes it off; a
  retry after a lost answer of `deleteTag` gets 404; a retry of `mediaTags.set` after
  dependent adds wipes what they added.
- Find and replace of two tags to one new label passes `findCollisions`
  (`lib/matrix.ts:324-336`), which looks for a tag with that label and not for another
  item that makes it: the second rename is refused. Of a chain of replacements (`a` by
  `b`, `b` by `c`) the items run one after the other and move what carried `a` on to
  `c`. `TagAssumption` excludes these, `BatchesDoWhatTheirButtonsSay` exempts them
  (`Tangled`); without the exemption TLC finds both.
- A preflight passes a move into its own subtree, and a parent that is a file;
  a root nested in another can be emptied through it.

Database.
- The check of the references is made by the start that applied the files
  (`migrate.ts:77`): a crash before it, or its failure, is not followed by another one.
  `UpgradesHold` shows that with these files none would find anything.

Staging.
- A move does not wait for the mkdir when no root folder is created; under
  `continue` a failed update of a collection or list is followed by the drop.
- The lists of steps of `RemapDialog` and `DiskOperationModal` leave out the
  collections that are re-aimed; absorbed folders are never named (a binding of
  the script of `BulkDeleteDialog.vue:159`, always empty, shadows the prop).
- Preflights of several rows are not sequenced (`BulkDeleteDialog.vue`,
  `DiskOperationModal.vue`, `RemapDialog.vue:409`): an older answer may replace a newer,
  and `mkdirPath` (`:102-105`) then reads an older verdict with the newer destination.
  `canStage` does not look at `checking`; a failed preflight of a destination counts
  as "there, emptiness unknown". The acknowledgement of an occupied destination
  survives a change of destination, and the confirm goes on after a cancel and after the
  acknowledgement is taken back while the ids are asked for again (`:454`, `:603`).
- `remapRootFolder` pushes an empty batch when no instance has media
  (`stores/queue.ts:655-671`). The force of a bulk delete is sent for every row.
- New folders `{x/y,x}` are two targets (`new-folders.ts:67-84`), both of which are judged
  free; with the parents made on the way (`NewFoldersDialog.vue:189-195`) the second is
  there when its turn comes, and blocked. `StagedAsJudged` exempts it.
- A folder is renamed with media of an instance in it that lie in no root folder of that
  instance: nothing realigns them, and their paths name the old place. A medium deeper
  in a root folder is realigned to wherever the instance puts it, which is directly in
  the root folder where *Arr names it by its own rule, and not where the rename took its
  files; `AlignedWhenDone` speaks of those directly in a root folder, and of those whose
  files a switch moves.
- "Clear N finished" counts succeeded, skipped and cancelled items; the request also
  clears failed ones, and the pending dependents of what it clears by cascade
  (`StagingDrawer.vue:117-120`, `queue.repo.ts:188-190`).
- `isIrreversible` "earns the typed confirmation" (`lib/staging.ts:114-123`) and is
  used by nobody. After a refused reorder, removal or retry the list is not read
  again. `discardAll` does not set `busy`.
- Tags that are staged for media or merged never show in the tag cell (keys by
  id against a lookup by label, `stores/queue.ts:218-219, 254-255`).

Views.
- Media: overlapping lists are not sequenced; `selectAllMatching` stores late ids under
  a filter that is no longer the one on screen (`stores/media.ts:249-260`), which
  `WholeMatchDiesWithItsFilter` exempts; "show undecided" checks rows it displays and
  acts on matches it does not. A filter made of a cell with a quote in it
  (`MediaFleetView.vue:83-85`) cannot be read: `setFilter` puts it on screen and returns
  (`stores/media.ts:214-219`), so that the whole match of the filter before it stays
  selected, against "it has to die with it", and the next load lists the whole fleet
  under it. `WholeMatchDiesWithItsFilter` names both ways, and no third. Of two items
  with one external id or slug on one instance the second is in no row
  (`media-fleet.service.ts:546`; `RowsAssumption` excludes it). The key of a row on the
  title rung passes to another film when its first claimant leaves.
- A verdict on a row may change when a silent instance answers: `instances<2` is decided
  by the copies at hand (`media-filter.ts:364-370`), and year, status and certification
  are those of the first copy, which a late instance may become
  (`media-fleet.service.ts:535-597`).
- A refresh of the media whose first failure leaves other reads out stores their answers
  after the build has shown what was stored before (`media-fleet.service.ts:336-342`,
  `resources.service.ts:86-88`): the next cached build shows something newer than the
  age stated.
- Paths: overlapping loads are not sequenced; `reload` opens what was open when it was
  asked for; `expandAll` asks for ever when a fetch fails; in the flat view
  `setInstanceFilter` and `refreshAll` read only the tree, `setFilter` crawls from the
  old top level, and a crumb above the start of the crawl is empty. A root folder whose
  parent is missing on disk has no row (`path-matrix.ts:373`), nor has one inside
  another; one spine entry below a link out of the roots fails the whole request; a
  level of more than 64 entries, summarised, hides folders that lead to root folders; a
  configured root that is broken has a row that opens, and every request with its level
  fails as a whole (`path-matrix.service.ts:254, 276`): opening it shows nothing,
  "expand all" asks again without end (`stores/paths.ts:306-320`), and the flat list of
  everything stays empty until it is left out; the comparator of candidates is
  inconsistent for two non-directories.
- Filter of the paths: the source is trimmed before it is read (`path-filter.ts:334`), so an
  escaped blank at its very end leaves the backslash as a character of the name.
- Tags: a late list of instances brings a removed one back; `AddTagDialog` stages for
  a chosen instance that stopped answering; a missing cell clicked twice stages two
  creates; `unusedEverywhere` ignores instances that did not answer at all, and an old
  Radarr says nothing of its collections.

## 4. The proofs

Every theorem holds for every value of the constants that the named assumptions
allow. Each is proved from an inductive invariant, which TLC checked on the
instance of the run before it was proved. The properties of the runs that are theorems:

| Property | Theorem | Module |
|---|---|---|
| `TypeOK` | `TypeCorrect` | `QueueExecutorProofs` |
| `OneOpenRun` | `OneOpenRunHolds` | `QueueExecutorProofs` |
| `RunningMeansExecuting` | `RunningMeansExecutingHolds` | `QueueExecutorProofs` |
| `SafetyHalt` | `SafetyHaltHolds` | `QueueExecutorProofs` |
| `NothingStranded` | `NothingStrandedHolds` | `QueueExecutorProofs` |
| `ImplementsLifecycle` | `Refinement` | `QueueExecutorProofs` |
| `AtRestTheTableIsAsAsked` | `TheTableIsAsAsked` | `MediaStoreProofs` |
| `WholeMatchDiesWithItsFilter` | `WholeMatchDies` | `MediaStoreProofs` |
| `BegunOncePerLaunch` | `BegunOnce` | `QueueExecutorProofs` |
| `ClosingCountsAreFresh` | `ClosingCounts` | `QueueExecutorProofs` |
| `SnapshotsAreFresh` | `SnapshotsFresh` | `SnapshotCacheProofs` |
| `ViewsAreFresh` | `ViewsFresh` | `SnapshotCacheProofs` |
| `AtRestTheTreeIsAsAsked` | `TheTreeIsAsAsked` | `PathsStoreProofs` |
| `NothingMissed` | `StreamMissesNothing` | `RunStoreProofs` |
| `NothingMissed` | `TabMissesNothing` | `RunStoreProofs` |
| `RunningIsFollowed` | `ProgressIsFollowed` | `RunStoreProofs` |
| `AtRestTheViewIsTrue` | `ViewAtRest` | `RunStoreProofs` |
| `MergeLosesNoCarrier` | `NoCarrierIsLost` | `HandlersProofs` |
| `StaysInside` | `ItemsStayInside` | `HandlersProofs` |
| `PassedMeansDone` | `PassedIsDone` | `HandlersProofs` |
| `HandedOutIsFresh` | `MeasurementsAreTrue` | `HandlersProofs` |
| `UpgradesAreWhole` | `UpgradesHold` | `SnapshotCacheProofs` |
| `UpgradesKeepRows` | `NoRowIsLost` | `SnapshotCacheProofs` |
| `BridgeSatisfiesTheGuard` | `BridgeAlwaysSatisfiesTheGuard` | `StagedChainsProofs` |
| `DropsFollowMoves` | `DropsAlwaysFollowMoves` | `StagedChainsProofs` |
| `AlignedWhenDone` | `ChainsAlwaysAlign` | `StagedChainsProofs` |
| `StagedAsShown` | `WhatIsShownIsStaged` | `StagedChainsProofs` |
| `StagedAsJudged` | `WhatIsJudgedIsStaged` | `StagedChainsProofs` |
| `BatchesDoWhatTheirButtonsSay` | `BatchesAreTrue` | `FleetMatrixProofs` |

**`QueueExecutorProofs`**: `TypeCorrect`, `OneOpenRunHolds`,
`RunningMeansExecutingHolds`, `SafetyHaltHolds`, `NothingStrandedHolds`, the
refinement `Spec => Lifecycle!Spec`, and the action properties `BegunOnce` and
`ClosingCounts`. The assumptions are the bounds' types (`BoundsAssumption`,
`RunBoundsAssumption`), `Disk \notin Instances`, and that policies are the three
of the code. The properties are not inductive by themselves; `IInv` adds:

- `RunsInOrder`: all runs but the newest are closed, none is numbered beyond it,
  and no item belongs to a run that was not created. It gives `OneOpenRun`, and
  it is why looking at the newest `RecoverLimit >= 1` runs is enough (`Listen`).
- `PlaceMatchesRun`: what each `pc` says about the run row; for example the run
  in whose handler the process is has status "running", so a crash there leaves
  a row that recovery finds.
- `UnusedRows`: rows that do not exist belong to no run; new ids are unused.
- `NoFailureSoFar`: in the loop, not only in the handler, nothing begun failed.
- `StoodDown`: between `markCancelledForRun` and the update of the run row no
  item of the run is pending or running.

One lemma per action shows that it preserves `IInv`, one step per conjunct.
Staging requests share one lemma: all they do to an item is to leave it, delete
it, or put it in line outside every run (`ItemStaged`, `StagingStages`).
`Refinement` uses `IInv` for the guards of the abstract actions. `BegunOnce` needs
`BegunApart`: an item that was begun in this launch and is pending again is not of its
run, which is what `resetToPending` is for. `ClosingCounts` is shown of each step
that closes a run: it reads the counters after the last status it writes.

**`RunStoreProofs`** has two layers. `BusInvariant` accounts for every frame of the
followed run that is still buffered: it was taken, or lies on the wire, or has an id
the source will ask for again; buffers and wire are sequences in the order of their
ids. It gives `StreamMissesNothing`. `TabUsesTheStream` shows that a tab with its
requests is one of the users the stream was proved for (`StoreSpec => Spec`, step by
step), which carries the promise over (`TabMissesNothing`). `ProgressIsFollowed` and
`ViewAtRest` are about the tab, from `TabInvariant` (requests and answers are of runs
there are, and runs come one after the other), `Followed` and `Orderly` (what a
request still to be answered will tell, or the stream has still to show). Both assume
`~Drops` and `~Crashes`, as the run `tab` does, and need them: with faults TLC finds
a crash that leaves the view on a replayed `run.paused`, and a late answer of the poll
that takes the view back.

**`SnapshotCacheProofs`**: `SnapshotsFresh` and `ViewsFresh`, from `CacheInvariant`. Its
parts follow an answer on its way: a request in flight that was not overtaken is to
the server its instance has now and brings at least the version Fleetarr was last
told of (`AskFresh`); a read that was not overtaken accounts for each enabled
instance and holds nothing outdated (`ReadFresh`); so does what it is stored as
(`SnapshotsAreFresh`, `MemoOK`), but for the instances whose edit is under way. The
assumptions are the bounds' types and two names that are no server.

Its second part is about the database over the releases: `UpgradesHold` and
`NoRowIsLost`, without an assumption. The invariant (`UpgradeInv`) says that files are
recorded in their order and none is missing, that the schema is that of the last of them
and every row passes its CHECKs, that every reference is intact in *every* state,
between two files and before the check included, and that foreign keys are off while
files are applied. From one file to the next a row that passes passes again
(`CopiesPass`): the only op that is ever dropped is the one whose rows the same file
deletes.

**`HandlersProofs`** begins with the tags: `NoCarrierIsLost`, for any instance and any plan that
`TagAssumption` allows, any failures, retries and edits of others. The invariant
speaks of the requests a merge still has to make: whatever of them takes a tag of the
group from a carrier comes after the carrier was given the target, by a request of
this item that was answered, or is a write that leaves the target in. The lemmas say
what a list of the carriers, or of their writes, contains (`ListsAll`, `Ranked`).

Its second part is about the disk: `ItemsStayInside`, `PassedIsDone` and
`MeasurementsAreTrue`, for any tree of finitely many nodes, any roots, targets and
links. Lemmas first say what a path, a tree and the guard are (`PathOrder`,
`TreeDown`, `ResolveRead`), and what the kernel leaves: a tree, the same as before
but where the call reaches (`MakeDirMakes`, `RenameRenames`, `RemoveRemoves`). The
invariant has four parts.

- `RootInv`: the disk is a tree, and a root that lies in no other is there.
- `TaskInside` and `DestinationIsFree`: what an item is about lies in a root, what it
  takes away is none, and what it makes was missing when it was looked for, hence no
  outer root. Resolution alone allows a destination that *is* a root; it is the check
  of the destination that keeps a rename off it.
- `ChecksHold`: as long as nobody else wrote, what each check made so far has found is
  so still. With the list at its end this is the precondition of the call.
- `WalkInv`: the entries a walk has still to see lie beside each other, and what it has
  counted together with the files at or below them is what the folder holds;
  `StoredInv` says the same of what is remembered.

The first attempt at `PassedIsDone` failed for a good reason: with the parent of a new
folder missing, no check looks at the folder that is there, which may be a file, or
may not be written. The instance for TLC had no such path; `Unforetold` lists the
case, and the instance has one now. The assumption is `FilesystemAssumption`: the
constants are trees and paths, a node is on some file system, others make no link
(`Resolve` would have to be looked at anew after each) and leave the roots alone.
`FilesystemBounds` types the bounds.

**`PathsStoreProofs`**: `TheTreeIsAsAsked`. As long as no two readings of the tree
overlapped and none failed, at most one spine is in flight, every request of the tree
asks what is asked now, and with no spine in flight every level is of now.

**`MediaStoreProofs`**: `TheTableIsAsAsked` and `WholeMatchDies`, for any filters,
titles, page size and number of requests in flight. The invariant is
`IInv == Typed /\ (orderly => OneList /\ ListsAsk /\ Caught)`: as long as lists were
asked for one at a time there is one in flight at most, it asks what the screen asks,
and when there is none the table answers it. `WholeMatchDies` needs no invariant: it is
shown of each step, by what the step makes of the filter and of the match. Its second
half says that a match that a filter was parted from does not survive the next change
of the filter to one that can be read. The assumption is `PageAssumption`.

**`StagedChainsProofs`** begins with the delete guard, for *any* set of claims: a delete
that passes on the promise of ticked bridges passes without it once they have run
(`BridgeKeepsItsPromise`), and an unforced delete that passes leaves nothing claimed
(`PassedIsUnclaimed`); the run `paths` uses the same operators. Then the chains, for any
number of instances, media, lists and collections, any root folders, and any failures,
lost answers, retries, removals and executions out of order. The invariant (`IInv`) has
two cases. Before a dialog is confirmed nothing is queued, media are where their files
are, inside or outside of root folders (`Fleet`), what was counted of an instance is its
own media, and what was counted in a root folder was in it, and is all that was directly
in it (`CountedWell`): all of `Planning`. Afterwards what is queued is the beginning of
*one* plan, made of fresh items, and only the status of an item ever changes
(`ChainsFollowTheirPlan`). Of the plan it says, for a rename, move or switch, that each
drop waits for a move of all that is to leave its folder (`Gated`), that nothing moves
to where something is dropped (`Away`), that every move goes to the new place
(`Heading`), and that what a move has moved is where one of the moves puts it (`Moved`);
`DropsAlwaysFollowMoves` is read off these. As long as items ran in order and succeeded
and nobody else changed the fleet it also says where the chain leads (`WellAimed`):
where a move goes there is a root folder or one is still to be made (`Homed`), and each
medium of which something is promised has a goal (`Led`). For a remap these are all that
move, and the goal is where the files are taken along to. For a reconcile they are the
media directly in a root folder, and the goal is the path the rename gives their files;
one deeper in a root folder may be moved too, and has none. Root folders may be nested,
and then a medium is moved once for each of them it is below; the last of its moves must
be the one out of the root folder it is directly in (`LandsLast`). That is so because
the targets of an instance come outermost first (`OutermostFirst`), as the paths of a
nested folder sort behind those of the folder around it. `ChainsAlwaysAlign` is what is
left when no item waits any more (`AimedArrives`). That the lines a dialog shows are the
items staged, one for one (`WhatIsShownIsStaged`), is put together along the plan: the
lines of each part are those of its items and no two parts have a line in common
(`Told`, `ToldJoined`), and the requests a plan is cut into hold each of its items once
(`ToldRequests`). A remap asks for its ids again after it has shown their count; that
they are the ids it counted is the second invariant (`Remembered`): the cache it asks
keeps what it answered. For a delete the invariant says that the delete comes last and
that, with nobody meddling, each claim that would block it has an item in front of it
that is still to clear it (`Cleared`), so that when its turn has come none is left
(`BridgeAlwaysSatisfiesTheGuard`). The plan of the root folder dialog is a recursive
function: that it exists, and what its prefixes have in common, is shown by a least
counterexample (`Least`), which needs no induction theorem. The assumptions:
`ChainBounds` types the constants; `Destination` is what `canConfirm` of `RemapDialog`
and the check `same_parent` of a rename let through; `FirstWorlds` has media where their
files are when a dialog opens, wherever that is, and the root of no instance the root of
the disk. A medium whose own folder is a root folder is none of those directly in one
(`Direct`): a chain over both folders would put it into itself.

The last part is about the dialogs that ask before they stage (`WhatIsJudgedIsStaged`),
for any folders and claims, any number of checks in flight, answered in any order, late
or not at all. `DialogInv` says: while nothing changes, what is in flight and what is
shown is of the situation there is (`Timely`); while no two checks overlapped, the one
in flight is about the form as it is, and with none in flight so is what is shown
(`InOrder`); the plan of new folders needs no such order, because its verdicts carry the
key of the plan they were asked for (`PlansAnswered`); between the click on a switch and
its ids the form is as it was at the click, unless the user changed it (`Clicked`). What
passes in the dialog then passes in the batch: the bridges of a delete keep their
promise (`BridgeKeepsItsPromise`), and the folders of a bulk delete lie beside each
other, so that none takes another's path away. New folders of a plan that lie in each
other are all made when the outer ones come first; the exemption of one that comes
behind a folder in it is needed, without it TLC stages `{x/y,x}`. `DialogAssumption`
types the constants: what is claimed in a situation are `Claims`, the rows with a button
are rows. With the invariant came a case that a bound of three edits had never reached:
after a click on a switch whose ids are still asked for, the acknowledgement may be
taken back, and the chain is staged all the same (section 3).

`UNION S \ T` and `SUBSET S \ T` are parenthesised in all modules these proofs use: TLC
takes the prefix first and the prover takes it last, so that without parentheses the two
tools would be told different things.

**`FleetMatrixProofs`**: `BatchesAreTrue`. What a button stages is computed from
what the page shows, so that for the buttons without a dialog the theorem is about the
items themselves. A dialog keeps its targets from when it was opened; the invariant
(`WhatIsStagedWasSeen`) says that they are the holders of its rows for as long as nobody
changes a tag (`Held`), and that a batch consists of the items of its button
(`BatchMade`). Its third part (`BatchRuns`) says what the items that have run made of
each instance, whatever the order (`Progress`): creates have given their labels, deletes
have taken theirs (`OneGiven`, `OneTaken`), and of renames and merges, where no two are
`Tangled`, each tag has the label its item gives it and a merged one its carriers
(`OneMoved`), so that no item meets what another one did. With all of them done this is
what `Meant` says (`CreatesSay`, `DeletesSay`, `RenamesSay`, `ReplacesSay`). The
assumption is `MatrixAssumption`, the types of the constants.

### Only model-checked

- Liveness (`RunsSettle`, `CancelReturns`, `StreamsEnd`) and `ENABLED`, which are out
  of the prover's reach.
- What the parsers of the two filters compute for every source
  (`ParserFollowsTheGrammar`, `ExpansionFollowsTheGrammar`), with `VerdictsStand`: they are
  recursive, and induction over data cannot be instantiated by the installed provers.
  So is what folds compute: the levels of the tree (`TheTreeReachesTheRootFolders`), the
  crawl (`TheFlatListIsWhole`), the rows of the fleet (`NoCopyIsLost`), the levels of
  the capped walk (`WalksAreHonest`).
- What a whole sequence of tag items adds up to when the last has run
  (`TagsAreAsShown`) and the marks of the drawer (`MarksTellWhatIsStaged`): no proof
  was attempted.

## 5. Not modelled, and the plan

Not modelled: probes, configuration parsing, encryption of keys, error formatting,
zod schemas (input parsing), rendering, labels, sorting for display, the forms of
instances, the measurements and the ui store of the web, the container's user setup
and release scripts. Of the handlers, those that make one call and decide nothing.
`PROJECT.json` says it component by component.

What would come next:

1. Proofs: `MarksTellWhatIsStaged`; `TheTreeReachesTheRootFolders`.
2. The lexer of the media filter.
3. The composition of `StagedChains` with `Filesystem`, so that a chain meets a disk
   others write to.
