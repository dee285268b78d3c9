----------------------------- MODULE QueueExecutor -----------------------------
(***************************************************************************)
(* Applying the queue: class QueueExecutor (apps/server/src/queue/         *)
(* executor.ts), table queue_runs (repositories/runs.repo.ts), and the     *)
(* process around them (app.ts, index.ts).                                 *)
(*                                                                         *)
(* Grain.  The executor is one async function on a single-threaded event   *)
(* loop and its only suspension that leaves the loop is the handler of an  *)
(* item, so requests are served between runs and while a handler is in     *)
(* flight ("handler"), nowhere else.  A crash may come between any two     *)
(* statements, for each commits on its own: the other values of pc are the *)
(* places where a crash leaves rows that differ after the next boot.       *)
(***************************************************************************)
EXTENDS QueueStore

CONSTANTS
  MaxRuns,         \* bound: runs started
  RecoverLimit,    \* recoverInterrupted looks at the newest RecoverLimit runs
  Policies         \* bound: the onError policies runs are started with

ASSUME RunBoundsAssumption == MaxRuns \in Nat \ {0} /\ RecoverLimit \in Nat \ {0}
ASSUME PoliciesAssumption == Policies \subseteq {"pause", "continue", "abort"}

VARIABLES
  runStatus,       \* status, or "none" when no such run was started
  onError,         \* on_error
  totalItems,      \* total_items
  counters,        \* succeeded_items, failed_items, skipped_items
  died,            \* error, as far as it tells runs apart: "run failed unexpectedly"
  lastRun,         \* highest run id handed out
  pc,              \* where the process is
  execRun,         \* the run whose rows the process is working on, or NoRun
  execItem,        \* the item whose handler was called last, or NoItem
  batch,           \* start: the selected items; resume: the items put back
  aborted,         \* controller.signal.aborted
  stopping,        \* SIGTERM received: app.close() has begun
  begun            \* history: items begun since the run was last launched

runVars == <<runStatus, onError, totalItems, counters, died, lastRun>>
procVars == <<pc, execRun, execItem, batch, aborted, stopping, begun>>
vars == <<storeVars, runVars, procVars>>

Runs == 1 .. MaxRuns
Open == {"running", "paused"}
Closed == {"completed", "failed", "cancelled"}
OpenRuns == {r \in Runs : runStatus[r] \in Open}

Claimed(r) == {i \in Items : runId[i] = r}
WaitingIn(r) == {i \in Claimed(r) : status[i] = "pending"}
FailedIn(r) == {i \in Claimed(r) : status[i] = "failed"}

\* The row that ORDER BY sort_order, id LIMIT 1 returns from the set S.
IsFirst(i, S) == i \in S /\ \A j \in S \ {i} : Before(i, j)

\* The three counts syncCounters takes of run r, from the statuses st.
Count(st, r) ==
  [succeeded |-> Cardinality({i \in Items : runId[i] = r /\ st[i] = "succeeded"}),
   failed    |-> Cardinality({i \in Items : runId[i] = r /\ st[i] = "failed"}),
   skipped   |-> Cardinality({i \in Items : runId[i] = r /\ st[i] \in {"skipped", "cancelled"}})]

\* syncCounters(r), after the step's own update of status.
SyncCounters(r) == counters' = [counters EXCEPT ![r] = Count(status', r)]

SetStatus(i, s) == status' = [status EXCEPT ![i] = s]

ZeroCount == [succeeded |-> 0, failed |-> 0, skipped |-> 0]

Init ==
  /\ StoreInit
  /\ runStatus = [r \in Runs |-> "none"]
  /\ onError = [r \in Runs |-> "pause"]
  /\ totalItems = [r \in Runs |-> 0]
  /\ counters = [r \in Runs |-> ZeroCount]
  /\ died = [r \in Runs |-> FALSE]
  /\ lastRun = 0
  /\ pc = "boot"
  /\ execRun = NoRun
  /\ execItem = NoItem
  /\ batch = {}
  /\ aborted = FALSE
  /\ stopping = FALSE
  /\ begun = {}

\* What dies with the process, or with the promise of launch().
Forget ==
  /\ execRun' = NoRun
  /\ execItem' = NoItem
  /\ batch' = {}
  /\ aborted' = FALSE
  /\ begun' = {}

\* The executor reaches another place and keeps its local state.
Goto(place) ==
  /\ pc' = place
  /\ UNCHANGED <<execRun, execItem, batch, aborted, stopping, begun>>

\* The run is over for this process: active = null.
Idle == pc' = "idle" /\ Forget /\ UNCHANGED stopping

\* Every column of queue_items but status.
KeepRowsExceptStatus == UNCHANGED <<runId, dependsOn, sortOrder, instance, lastItem, instances>>
KeepRowsExceptRunId == UNCHANGED <<status, dependsOn, sortOrder, instance, lastItem, instances>>

-------------------------------------------------------------------------------
(* Requests.  A closing server (stopping) answers 503.                       *)

Serving == pc \in {"idle", "handler"} /\ ~stopping

\* Bound: once the last run has ended the queue is not edited any more.
MoreRuns == lastRun < MaxRuns \/ OpenRuns # {}

\* Any staging request, at rest or while a handler is in flight.
Stage ==
  /\ Serving /\ MoreRuns
  /\ StagingRequest
  /\ UNCHANGED <<runVars, procVars>>

\* runs.create, for the selected pending items.
CreateRun(selected, policy) ==
  LET r == lastRun + 1 IN
  /\ Serving /\ pc = "idle"
  /\ selected # {} /\ selected \subseteq Pending
  /\ lastRun < MaxRuns
  /\ lastRun' = r
  /\ runStatus' = [runStatus EXCEPT ![r] = "running"]
  /\ onError' = [onError EXCEPT ![r] = policy]
  /\ totalItems' = [totalItems EXCEPT ![r] = Cardinality(selected)]
  /\ pc' = "claim" /\ execRun' = r /\ batch' = selected
  /\ UNCHANGED <<storeVars, counters, died, execItem, aborted, stopping, begun>>

\* Mutated form of Start: assertIdle without runs.findActive().
StartBesidePaused(selected, policy) == CreateRun(selected, policy)

\* POST /queue/runs, up to runs.create.  Pending items that a run which died
\* left behind are eligible again.
Start(selected, policy) == OpenRuns = {} /\ CreateRun(selected, policy)

\* claimForRun(run, batch): the pending items of the batch join the run.
ClaimBatch ==
  runId' = [i \in Items |-> IF i \in batch /\ status[i] = "pending" THEN execRun ELSE runId[i]]

\* start: the claim, then launch().
StartClaim ==
  /\ pc = "claim"
  /\ ClaimBatch
  /\ KeepRowsExceptRunId
  /\ pc' = "loop" /\ batch' = {}
  /\ UNCHANGED <<runVars, execRun, execItem, aborted, stopping, begun>>

\* POST /queue/runs/:id/resume.  assertIdle(r) refuses when the newest open
\* run is another one.
Resume(r, mode) ==
  /\ Serving /\ pc = "idle"
  /\ runStatus[r] = "paused"
  /\ \A q \in OpenRuns : q <= r
  /\ pc' = CASE mode = "retryFailed" -> "reset"
             [] mode = "skipFailed" -> "skip"
             [] OTHER -> "relaunch"
  /\ execRun' = r
  /\ UNCHANGED <<storeVars, runVars, execItem, batch, aborted, stopping, begun>>

\* retryFailed: resetToPending, one committed update per failed item.
ResumeReset(i) ==
  /\ pc = "reset"
  /\ IsFirst(i, FailedIn(execRun))
  /\ Retry(i)
  /\ batch' = batch \cup {i}
  /\ UNCHANGED <<runVars, pc, execRun, execItem, aborted, stopping, begun>>

\* retryFailed: claimForRun takes the items put back into the run again.
ResumeClaim ==
  /\ pc = "reset"
  /\ FailedIn(execRun) = {}
  /\ ClaimBatch
  /\ KeepRowsExceptRunId
  /\ pc' = "relaunch" /\ batch' = {}
  /\ UNCHANGED <<runVars, execRun, execItem, aborted, stopping, begun>>

\* skipFailed: markSkipped, one committed update per failed item.
ResumeSkip(i) ==
  /\ pc = "skip"
  /\ IsFirst(i, FailedIn(execRun))
  /\ SetStatus(i, "skipped")
  /\ KeepRowsExceptStatus
  /\ UNCHANGED <<runVars, procVars>>

\* resume: counters, status "running", launch().
ResumeLaunch ==
  /\ pc = "relaunch" \/ (pc = "skip" /\ FailedIn(execRun) = {})
  /\ UNCHANGED storeVars
  /\ SyncCounters(execRun)
  /\ runStatus' = [runStatus EXCEPT ![execRun] = "running"]
  /\ Goto("loop")
  /\ UNCHANGED <<onError, totalItems, died, lastRun>>

\* markCancelledForRun(r): what is waiting or running in r stands down.
StandDownItems(r) ==
  status' = [i \in Items |-> IF runId[i] = r /\ status[i] \in {"pending", "running"}
                             THEN "cancelled" ELSE status[i]]

\* POST /queue/runs/:id/cancel of the run being executed: abort the signal.
CancelActive ==
  /\ Serving /\ pc = "handler"
  /\ aborted' = TRUE
  /\ UNCHANGED <<storeVars, runVars, pc, execRun, execItem, batch, stopping, begun>>

\* Mutated form of CancelIdle: a closed run is cancelled as well.
CancelAny(r) ==
  /\ Serving /\ pc = "idle"
  /\ runStatus[r] # "none"
  /\ StandDownItems(r)
  /\ KeepRowsExceptStatus
  /\ pc' = "closeCancelled" /\ execRun' = r
  /\ UNCHANGED <<runVars, execItem, batch, aborted, stopping, begun>>

\* The same request for a run nobody executes; a closed run is refused.
CancelIdle(r) ==
  /\ Serving /\ pc = "idle"
  /\ runStatus[r] \in Open
  /\ StandDownItems(r)
  /\ KeepRowsExceptStatus
  /\ pc' = "closeCancelled" /\ execRun' = r
  /\ UNCHANGED <<runVars, execItem, batch, aborted, stopping, begun>>

-------------------------------------------------------------------------------
(* The loop of execute().                                                    *)

NextItem(i) == IsFirst(i, WaitingIn(execRun))

\* resolveDependency: the producer is gone or did not succeed.
Blocked(i) == dependsOn[i] # NoItem /\ status[dependsOn[i]] # "succeeded"

\* Mutated form of SkipBlocked: the skip is reported, the row stays pending.
SkipUnrecorded(i) ==
  /\ pc = "loop" /\ ~aborted
  /\ NextItem(i) /\ Blocked(i)
  /\ UNCHANGED vars

SkipBlocked(i) ==
  /\ pc = "loop" /\ ~aborted
  /\ NextItem(i) /\ Blocked(i)
  /\ SetStatus(i, "skipped")
  /\ SyncCounters(execRun)
  /\ KeepRowsExceptStatus
  /\ UNCHANGED <<runStatus, onError, totalItems, died, lastRun, procVars>>

\* executeItem, up to the await of the handler.
BeginItem(i) ==
  /\ pc = "loop" /\ ~aborted
  /\ NextItem(i) /\ ~Blocked(i)
  /\ SetStatus(i, "running")
  /\ pc' = "handler" /\ execItem' = i /\ begun' = begun \cup {i}
  /\ KeepRowsExceptStatus
  /\ UNCHANGED <<runStatus, onError, totalItems, counters, died, lastRun, execRun, batch, aborted, stopping>>

\* Nothing is left: "failed" when the fresh count still sees a failed item.
Finish ==
  /\ pc = "loop" /\ ~aborted /\ WaitingIn(execRun) = {}
  /\ UNCHANGED storeVars
  /\ SyncCounters(execRun)
  /\ runStatus' = [runStatus EXCEPT ![execRun] =
                     IF counters'[execRun].failed > 0 THEN "failed" ELSE "completed"]
  /\ Idle
  /\ UNCHANGED <<onError, totalItems, died, lastRun>>

\* The top of the loop sees the aborted signal (the handler succeeded first).
SeeAbort ==
  /\ pc = "loop" /\ aborted
  /\ Goto("standDown")
  /\ UNCHANGED <<storeVars, runVars>>

-------------------------------------------------------------------------------
(* The handler settles.  Its row may have been deleted meanwhile.            *)

RowThere == status[execItem] # "absent"

HandlerSucceeds ==
  /\ pc = "handler" /\ RowThere
  /\ SetStatus(execItem, "succeeded")
  /\ SyncCounters(execRun)
  /\ KeepRowsExceptStatus
  /\ Goto("loop")
  /\ UNCHANGED <<runStatus, onError, totalItems, died, lastRun>>

HandlerFails ==
  /\ pc = "handler" /\ RowThere /\ ~aborted
  /\ SetStatus(execItem, "failed")
  /\ SyncCounters(execRun)
  /\ KeepRowsExceptStatus
  /\ Goto("halt")
  /\ UNCHANGED <<runStatus, onError, totalItems, died, lastRun>>

\* Mutated form of HandlerAborted: a status the table does not know.
HandlerMisnamed ==
  /\ pc = "handler" /\ RowThere /\ aborted
  /\ SetStatus(execItem, "aborted")
  /\ SyncCounters(execRun)
  /\ KeepRowsExceptStatus
  /\ Goto("standDown")
  /\ UNCHANGED <<runStatus, onError, totalItems, died, lastRun>>

\* The handler throws after the signal was aborted.
HandlerAborted ==
  /\ pc = "handler" /\ RowThere /\ aborted
  /\ SetStatus(execItem, "cancelled")
  /\ SyncCounters(execRun)
  /\ KeepRowsExceptStatus
  /\ Goto("standDown")
  /\ UNCHANGED <<runStatus, onError, totalItems, died, lastRun>>

\* The row is gone: appendEvent breaks its foreign key, or finishItem's
\* require throws after syncCounters; the catch of launch() ends the run.
RowVanished(threw) ==
  /\ pc = "handler" /\ ~RowThere
  /\ UNCHANGED storeVars
  /\ IF threw /\ ~aborted THEN UNCHANGED counters ELSE SyncCounters(execRun)
  /\ runStatus' = [runStatus EXCEPT ![execRun] = "failed"]
  /\ died' = [died EXCEPT ![execRun] = TRUE]
  /\ Idle
  /\ UNCHANGED <<onError, totalItems, lastRun>>

-------------------------------------------------------------------------------
(* After a failed item, by policy; and standing a run down.                  *)

\* Mutated form of Pause: the run is not halted and the loop goes on.
PauseAndGoOn ==
  /\ pc = "halt" /\ onError[execRun] = "pause"
  /\ Goto("loop")
  /\ UNCHANGED <<storeVars, runVars>>

\* The safety halt.
Pause ==
  /\ pc = "halt" /\ onError[execRun] = "pause"
  /\ runStatus' = [runStatus EXCEPT ![execRun] = "paused"]
  /\ Idle
  /\ UNCHANGED <<storeVars, onError, totalItems, counters, died, lastRun>>

Abort ==
  /\ pc = "halt" /\ onError[execRun] = "abort"
  /\ StandDownItems(execRun)
  /\ KeepRowsExceptStatus
  /\ Goto("closeFailed")
  /\ UNCHANGED runVars

Continue ==
  /\ pc = "halt" /\ onError[execRun] = "continue"
  /\ Goto("loop")
  /\ UNCHANGED <<storeVars, runVars>>

\* Mutated form of StandDown: no item is touched.
StandDownNone ==
  /\ pc = "standDown"
  /\ Goto("closeCancelled")
  /\ UNCHANGED <<storeVars, runVars>>

\* finishCancelled, the items.
StandDown ==
  /\ pc = "standDown"
  /\ StandDownItems(execRun)
  /\ KeepRowsExceptStatus
  /\ Goto("closeCancelled")
  /\ UNCHANGED runVars

\* Mutated forms of Close: the counters are not taken again; or the executor
\* still takes the run for active.
CloseStale ==
  /\ pc \in {"closeCancelled", "closeFailed"}
  /\ runStatus' = [runStatus EXCEPT ![execRun] = IF pc = "closeFailed" THEN "failed" ELSE "cancelled"]
  /\ Idle
  /\ UNCHANGED <<storeVars, counters, onError, totalItems, died, lastRun>>

CloseStillActive ==
  /\ pc \in {"closeCancelled", "closeFailed"}
  /\ UNCHANGED storeVars
  /\ SyncCounters(execRun)
  /\ runStatus' = [runStatus EXCEPT ![execRun] = IF pc = "closeFailed" THEN "failed" ELSE "cancelled"]
  /\ Goto("idle")
  /\ UNCHANGED <<onError, totalItems, died, lastRun>>

\* The run row of a cancelled or aborted run, once its items stand down.
Close ==
  /\ pc \in {"closeCancelled", "closeFailed"}
  /\ UNCHANGED storeVars
  /\ SyncCounters(execRun)
  /\ runStatus' = [runStatus EXCEPT ![execRun] = IF pc = "closeFailed" THEN "failed" ELSE "cancelled"]
  /\ Idle
  /\ UNCHANGED <<onError, totalItems, died, lastRun>>

-------------------------------------------------------------------------------
(* The process.                                                              *)

Crash ==
  /\ pc # "boot"
  /\ pc' = "boot" /\ Forget /\ stopping' = FALSE
  /\ UNCHANGED <<storeVars, runVars>>

\* SIGTERM.  context.shutdown awaits waitForIdle: the promise of the whole run.
Shutdown ==
  /\ Serving
  /\ stopping' = TRUE
  /\ UNCHANGED <<storeVars, runVars, pc, execRun, execItem, batch, aborted, begun>>

Exit ==
  /\ stopping /\ pc = "idle"
  /\ pc' = "boot" /\ Forget /\ stopping' = FALSE
  /\ UNCHANGED <<storeVars, runVars>>

\* recoverInterrupted: runs.list(RecoverLimit), those still "running".
Interrupted == {r \in Runs : runStatus[r] = "running" /\ r > lastRun - RecoverLimit}

RecoverItem(r, i) ==
  /\ pc = "boot" /\ r \in Interrupted
  /\ runId[i] = r /\ status[i] = "running"
  /\ SetStatus(i, "failed")
  /\ KeepRowsExceptStatus
  /\ UNCHANGED <<runVars, procVars>>

\* A mutated form of RecoverRun: the run is parked before its items are looked
\* at.
RecoverRunOnly(r) ==
  /\ pc = "boot" /\ r \in Interrupted
  /\ UNCHANGED storeVars
  /\ SyncCounters(r)
  /\ runStatus' = [runStatus EXCEPT ![r] = "paused"]
  /\ UNCHANGED <<onError, totalItems, died, lastRun, procVars>>

RecoverRun(r) ==
  /\ pc = "boot" /\ r \in Interrupted
  /\ \A i \in Claimed(r) : status[i] # "running"
  /\ UNCHANGED storeVars
  /\ SyncCounters(r)
  /\ runStatus' = [runStatus EXCEPT ![r] = "paused"]
  /\ UNCHANGED <<onError, totalItems, died, lastRun, procVars>>

\* buildApp goes on; the server listens.
Listen ==
  /\ pc = "boot" /\ Interrupted = {}
  /\ Goto("idle")
  /\ UNCHANGED <<storeVars, runVars>>

-------------------------------------------------------------------------------
RunRequest ==
  \/ \E selected \in SUBSET Pending, policy \in Policies : Start(selected, policy)
  \/ \E r \in Runs, mode \in {"retryFailed", "skipFailed", "neither"} : Resume(r, mode)
  \/ \E r \in Runs : CancelIdle(r)
  \/ CancelActive

HandlerSettles ==
  \/ HandlerSucceeds \/ HandlerFails \/ HandlerAborted
  \/ \E threw \in BOOLEAN : RowVanished(threw)

\* What the executor does by itself, without waiting for anything.
ExecutorStep ==
  \/ StartClaim \/ ResumeClaim \/ ResumeLaunch
  \/ \E i \in Items : ResumeReset(i) \/ ResumeSkip(i) \/ SkipBlocked(i) \/ BeginItem(i)
  \/ Finish \/ SeeAbort \/ Pause \/ Abort \/ Continue \/ StandDown \/ Close

Recovery ==
  \/ \E r \in Runs, i \in Items : RecoverItem(r, i)
  \/ \E r \in Runs : RecoverRun(r)
  \/ Listen

Process == Crash \/ Shutdown \/ Exit

Next == Stage \/ RunRequest \/ HandlerSettles \/ ExecutorStep \/ Recovery \/ Process

Spec == Init /\ [][Next]_vars

\* The event loop runs what is ready, every handler settles (each HTTP call
\* carries the instance's timeout, each fs call returns), and a process that
\* went down is started again (docker: restart unless-stopped).
FairSpec ==
  /\ Spec
  /\ WF_vars(ExecutorStep) /\ WF_vars(HandlerSettles)
  /\ WF_vars(Recovery)

-------------------------------------------------------------------------------
(* Properties.                                                               *)

Places == {"boot", "idle", "claim", "reset", "skip", "relaunch", "loop",
           "handler", "halt", "standDown", "closeCancelled", "closeFailed"}

RunTypeOK ==
  /\ runStatus \in [Runs -> Open \cup Closed \cup {"none"}]
  /\ onError \in [Runs -> {"pause", "continue", "abort"}]
  /\ totalItems \in [Runs -> Nat]
  /\ counters \in [Runs -> [succeeded : Nat, failed : Nat, skipped : Nat]]
  /\ died \in [Runs -> BOOLEAN]
  /\ lastRun \in 0 .. MaxRuns

ProcessTypeOK ==
  /\ pc \in Places
  /\ execRun \in Runs \cup {NoRun}
  /\ execItem \in Items \cup {NoItem}
  /\ batch \subseteq Items
  /\ aborted \in BOOLEAN
  /\ stopping \in BOOLEAN
  /\ begun \subseteq Items

\* The types of the three parts of the state: rows, runs, process.
TypeOK == StoreTypeOK /\ RunTypeOK /\ ProcessTypeOK

\* "At most one run may be running or paused at a time" (findActive), and it
\* is the newest run, so recoverInterrupted finds it however many runs the
\* table holds.
OneOpenRun == \A r \in OpenRuns : r = lastRun

\* A row says "running" only while the process is at it: after every crash
\* and boot, and whatever requests came in between, the server never listens
\* with a run nobody executes or an item nobody applies.
RunningMeansExecuting ==
  /\ \A r \in Runs : runStatus[r] = "running" => pc = "boot" \/ r = execRun
  /\ \A i \in Items : status[i] = "running" =>
       \/ pc = "boot" /\ runId[i] \in Runs /\ runStatus[runId[i]] = "running"
       \/ pc = "handler" /\ i = execItem /\ runId[i] = execRun

\* "When step N fails, nothing after it runs" (class QueueExecutor): with
\* onError "pause" no handler is called once an item begun since the launch
\* failed.
SafetyHalt ==
  pc = "handler" /\ onError[execRun] = "pause" => \A i \in begun : status[i] # "failed"

\* A run that ended leaves nothing to be done in its name ("no item may be
\* left pending or running after a cancel", queue-api.test.ts), also when the
\* process dies while it stands down.  The run whose row vanished is the
\* exception: the catch of launch closes it as failed and leaves what follows.
NothingStranded ==
  \A i \in Items, r \in Runs :
    runId[i] = r /\ runStatus[r] \in Closed /\ ~died[r]
      => status[i] \notin {"pending", "running"}

\* The executor begins an item at most once per launch, also when the user
\* retries it while the run goes on.
BegunOncePerLaunch ==
  [][\A i \in Items : pc = "loop" /\ status[i] = "pending" /\ status'[i] = "running"
       => i \notin begun]_vars

\* "The run row stays a cache" of the items (syncCounters): a run that ends
\* ends with the counts of its rows, whatever was retried or cleared while it
\* was open, and is "completed" only with no failed item.
ClosingCountsAreFresh ==
  [][\A r \in Runs :
       runStatus[r] \in Open /\ runStatus'[r] \in Closed /\ ~died'[r] =>
         /\ counters'[r] = Count(status', r)
         /\ runStatus'[r] = "completed" => counters'[r].failed = 0]_vars

\* A run settles: if the process eventually stays up, a running run is later
\* paused or closed.
RunsSettle ==
  <>[](pc # "boot") =>
    \A r \in Runs : runStatus[r] = "running" ~> runStatus[r] # "running"

\* POST /queue/runs/:id/cancel, which awaits the run, gets its answer.
CancelReturns == aborted ~> execRun = NoRun

\* The run a handler is in flight for.
ApplyingRun == IF pc = "handler" THEN execRun ELSE NoRun

Lifecycle == INSTANCE RunLifecycle WITH phase <- runStatus, applying <- ApplyingRun

\* The executor, with its crashes and its staging requests, takes runs through
\* the stages RunLifecycle allows and applies one step at a time.
ImplementsLifecycle == Lifecycle!Spec

=============================================================================
