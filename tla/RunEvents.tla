------------------------------- MODULE RunEvents -------------------------------
(***************************************************************************)
(* The progress of runs on the event stream: RunEventBus                   *)
(* (apps/server/src/queue/events.ts), what QueueExecutor publishes on it,  *)
(* GET /queue/runs/:id/stream, and one EventSource of a browser.           *)
(*                                                                         *)
(* The server is one event loop.  It publishes while it works on a run and *)
(* serves a request only when nothing is ready to go on (Quiet).  A run is *)
(* its status and its count of items done; which item a frame names, the   *)
(* log frames, the heartbeats and edits of the items of a run are left out *)
(* (QueueExecutor has those).                                              *)
(***************************************************************************)
EXTENDS Integers, Sequences, FiniteSets

CONSTANTS
  MaxRuns,          \* bound: runs created
  MaxSteps,         \* bound: items of a run
  MaxResumes,       \* bound: resumes
  BufferedEvents,   \* MAX_BUFFERED_EVENTS
  BufferedRuns,     \* MAX_BUFFERED_RUNS
  Drops,            \* may connections drop?
  Crashes           \* may the process die?

ASSUME RunsAssumption ==
  MaxRuns \in Nat \ {0} /\ MaxSteps \in Nat \ {0} /\ MaxResumes \in Nat
ASSUME BuffersAssumption == BufferedEvents \in Nat \ {0} /\ BufferedRuns \in Nat \ {0}
ASSUME FaultsAssumption == Drops \in BOOLEAN /\ Crashes \in BOOLEAN

VARIABLES
  phase,        \* queue_runs.status, "none" when there is no such row
  done,         \* succeeded + failed + skipped of a run
  applying,     \* the run an item of which is marked running, or NoRun
  resumes,      \* resumes so far
  up,           \* does the process serve requests?
  aborted,      \* the AbortSignal of the active run
  sequence,     \* RunEventBus.sequence
  buffers,      \* RunEventBus.buffers; <<>> when the map has no entry
  source,       \* the EventSource: "closed", "connecting" or "open"
  follows,      \* the run in its URL, or NoRun
  lastEventId,  \* the id it sends when it connects again
  wire,         \* frames written to it and not dispatched yet
  seen,         \* history: ids it dispatched, of the process that is up
  sameProcess   \* history: no process died since it was opened

runVars == <<phase, done, applying, resumes>>
busVars == <<sequence, buffers>>
serverVars == <<runVars, up, aborted, busVars>>
sourceVars == <<source, follows, lastEventId, wire, seen, sameProcess>>
vars == <<serverVars, sourceVars>>

Runs == 1 .. MaxRuns
NoRun == 0
Open == {"running", "paused"}
Closed == {"completed", "failed", "cancelled"}
Ending == {"run.paused", "run.finished"}   \* frames after which the store hangs up

Init ==
  /\ phase = [r \in Runs |-> "none"]
  /\ done = [r \in Runs |-> 0]
  /\ applying = NoRun /\ resumes = 0
  /\ up = TRUE /\ aborted = FALSE
  /\ sequence = 0 /\ buffers = [r \in Runs |-> <<>>]
  /\ source = "closed" /\ follows = NoRun /\ lastEventId = 0
  /\ wire = <<>> /\ seen = {} /\ sameProcess = TRUE

-------------------------------------------------------------------------------
(* RunEventBus.                                                              *)

Frame(id, type, r, status, count) ==
  [id |-> id, type |-> type, run |-> r, phase |-> status, done |-> count]

\* trimBuffers: the runs with the highest ids stay.
TrimRuns(all) ==
  [r \in Runs |->
     IF Cardinality({q \in Runs : q > r /\ all[q] # <<>>}) < BufferedRuns
     THEN all[r] ELSE <<>>]

LastOf(s, n) == IF Len(s) > n THEN SubSeq(s, Len(s) - n + 1, Len(s)) ELSE s

\* publish, with the row of the run as the step leaves it.  The one listener
\* is the stream of the EventSource, which writes the frame at once.
Publish(r, type) ==
  LET frame == Frame(sequence + 1, type, r, phase'[r], done'[r]) IN
  /\ sequence' = sequence + 1
  /\ buffers' = TrimRuns([buffers EXCEPT ![r] = LastOf(Append(@, frame), BufferedEvents)])
  /\ wire' = IF source = "open" /\ follows = r THEN Append(wire, frame) ELSE wire
  /\ UNCHANGED <<source, follows, lastEventId, seen, sameProcess>>

\* replay, which keeps what has an id after afterId: the ids of a buffer grow,
\* so that is all but its first n frames.
Replay(r, afterId, n) ==
  \A k \in DOMAIN buffers[r] : buffers[r][k].id > afterId <=> k > n

-------------------------------------------------------------------------------
(* QueueExecutor, as far as it publishes.                                    *)

\* The loop is between two items, and goes on before anything is served.
Looping(r) == up /\ phase[r] = "running" /\ applying = NoRun
Quiet == up /\ \A r \in Runs : ~Looping(r)

SetPhase(r, status) == phase' = [phase EXCEPT ![r] = status]

\* start, when assertIdle passes: the run is created and launched.
StartRun(r) ==
  /\ Quiet
  /\ phase[r] = "none" /\ \A q \in Runs : q < r => phase[q] \in Closed
  /\ SetPhase(r, "running")
  /\ aborted' = FALSE
  /\ UNCHANGED <<done, applying, resumes, up>>
  /\ Publish(r, "run.started")

\* resume: the failed item is retried (and no longer counted), or it is not.
ResumeRun(r) ==
  /\ Quiet
  /\ phase[r] = "paused" /\ resumes < MaxResumes
  /\ resumes' = resumes + 1
  /\ SetPhase(r, "running")
  /\ \E retried \in {n \in {0, 1} : n <= done[r]} : done' = [done EXCEPT ![r] = @ - retried]
  /\ aborted' = FALSE
  /\ Publish(r, "run.started")
  /\ UNCHANGED <<applying, up>>

BeginItem(r) ==
  /\ Looping(r) /\ ~aborted /\ done[r] < MaxSteps
  /\ applying' = r
  /\ UNCHANGED <<phase, done>>
  /\ Publish(r, "item.started")
  /\ UNCHANGED <<resumes, up, aborted>>

\* finishItem, for an item that was applied, or skipped as blocked.
FinishItem(r) ==
  /\ up /\ phase[r] = "running"
  /\ applying = r \/ (Looping(r) /\ ~aborted /\ done[r] < MaxSteps)
  /\ done' = [done EXCEPT ![r] = @ + 1]
  /\ applying' = NoRun
  /\ UNCHANGED phase
  /\ Publish(r, "item.finished")
  /\ UNCHANGED <<resumes, up, aborted>>

\* The handler gives up on the signal: a cancelled item is not counted.
FinishAborted(r) ==
  /\ up /\ applying = r /\ aborted
  /\ applying' = NoRun
  /\ UNCHANGED <<phase, done>>
  /\ Publish(r, "item.finished")
  /\ UNCHANGED <<resumes, up, aborted>>

\* An item failed, which its item.finished told, and onError is "pause".
PauseRun(r) ==
  /\ Looping(r) /\ ~aborted
  /\ buffers[r][Len(buffers[r])].type = "item.finished"
  /\ SetPhase(r, "paused")
  /\ UNCHANGED <<done, applying>>
  /\ Publish(r, "run.paused")
  /\ UNCHANGED <<resumes, up, aborted>>

\* The end of execute(), onError "abort", and finishCancelled.
FinishRun(r) ==
  /\ Looping(r)
  /\ \E outcome \in IF aborted THEN {"cancelled"} ELSE {"completed", "failed"} : SetPhase(r, outcome)
  /\ UNCHANGED <<done, applying>>
  /\ Publish(r, "run.finished")
  /\ UNCHANGED <<resumes, up, aborted>>

\* The catch of launch(): the row of the item vanished under its handler.
DieInItem(r) ==
  /\ up /\ applying = r
  /\ SetPhase(r, "failed")
  /\ applying' = NoRun
  /\ UNCHANGED done
  /\ Publish(r, "run.finished")
  /\ UNCHANGED <<resumes, up, aborted>>

\* cancel of a run nobody executes.
CancelPaused(r) ==
  /\ Quiet /\ phase[r] = "paused"
  /\ SetPhase(r, "cancelled")
  /\ UNCHANGED <<done, applying>>
  /\ Publish(r, "run.finished")
  /\ UNCHANGED <<resumes, up, aborted>>

\* cancel of the run being executed.
AbortRun(r) ==
  /\ Quiet /\ applying = r
  /\ aborted' = TRUE
  /\ UNCHANGED <<runVars, up, busVars, sourceVars>>

-------------------------------------------------------------------------------
(* The stream.                                                               *)

\* new EventSource(.../stream), of a run that exists: it sends no id.
OpenSource(r) ==
  /\ source' = "connecting" /\ follows' = r
  /\ lastEventId' = 0 /\ wire' = <<>> /\ seen' = {} /\ sameProcess' = TRUE

CloseSource ==
  /\ source' = "closed" /\ follows' = NoRun
  /\ lastEventId' = 0 /\ wire' = <<>> /\ seen' = {} /\ sameProcess' = TRUE

\* What the route writes when nothing is buffered after the id.
Synthetic(r) ==
  Frame(0, CASE phase[r] = "running" -> "run.started"
             [] phase[r] = "paused"  -> "run.paused"
             [] OTHER                -> "run.finished", r, phase[r], done[r])

\* The frames after an id, or the state of the run if there are none.
WriteFrom(afterId) ==
  LET buffer == buffers[follows] IN
  \E n \in 0 .. Len(buffer) :
    /\ Replay(follows, afterId, n)
    /\ wire' = IF n = Len(buffer) THEN <<Synthetic(follows)>> ELSE SubSeq(buffer, n + 1, Len(buffer))

\* Mutated form of Connect: the frame after the last one taken is not sent.
ConnectOffByOne ==
  /\ Quiet /\ source = "connecting"
  /\ source' = "open"
  /\ WriteFrom(lastEventId + 1)
  /\ UNCHANGED <<serverVars, follows, lastEventId, seen, sameProcess>>

\* GET /queue/runs/:id/stream: replay and subscribe, with nothing in between.
Connect ==
  /\ Quiet /\ source = "connecting"
  /\ source' = "open"
  /\ WriteFrom(lastEventId)
  /\ UNCHANGED <<serverVars, follows, lastEventId, seen, sameProcess>>

\* The browser takes the next frame and remembers its id.
TakeFrame ==
  /\ wire # <<>>
  /\ wire' = Tail(wire)
  /\ lastEventId' = Head(wire).id
  /\ seen' = seen \cup ({Head(wire).id} \ {0})
  /\ UNCHANGED <<source, follows, sameProcess>>

\* The connection drops; what was on the wire is lost.
LoseConnection ==
  /\ source' = IF source = "open" THEN "connecting" ELSE source
  /\ wire' = <<>>
  /\ UNCHANGED <<follows, lastEventId>>

Drop ==
  /\ Drops /\ source = "open"
  /\ LoseConnection
  /\ UNCHANGED <<serverVars, seen, sameProcess>>

-------------------------------------------------------------------------------
(* The process.                                                              *)

\* The bus is memory; the row marked running stays.
Crash ==
  /\ Crashes /\ up
  /\ up' = FALSE /\ aborted' = FALSE
  /\ sequence' = 0 /\ buffers' = [r \in Runs |-> <<>>]
  /\ LoseConnection
  /\ seen' = {} /\ sameProcess' = (source = "closed")
  /\ UNCHANGED runVars

\* recoverInterrupted, before the server listens: the interrupted item counts
\* as failed, its run is parked, and nobody is told.
Boot ==
  /\ ~up
  /\ up' = TRUE
  /\ phase' = [r \in Runs |-> IF phase[r] = "running" THEN "paused" ELSE phase[r]]
  /\ done' = [r \in Runs |-> IF applying = r THEN done[r] + 1 ELSE done[r]]
  /\ applying' = NoRun
  /\ UNCHANGED <<resumes, aborted, busVars, sourceVars>>

-------------------------------------------------------------------------------
Executor ==
  \E r \in Runs : BeginItem(r) \/ FinishItem(r) \/ FinishAborted(r)
                    \/ PauseRun(r) \/ FinishRun(r) \/ DieInItem(r)

Requests == \E r \in Runs : StartRun(r) \/ ResumeRun(r) \/ CancelPaused(r) \/ AbortRun(r)

\* A user of the stream who opens and closes it at will.
Browser ==
  \/ \E r \in Runs : phase[r] # "none" /\ OpenSource(r) /\ UNCHANGED serverVars
  \/ source # "closed" /\ CloseSource /\ UNCHANGED serverVars
  \/ TakeFrame /\ UNCHANGED serverVars

Next == Executor \/ Requests \/ Connect \/ Browser \/ Drop \/ Crash \/ Boot

Spec == Init /\ [][Next]_vars

-------------------------------------------------------------------------------
(* Properties.                                                               *)

\* Between replay and subscribe nothing falls through: a stream that has taken
\* all that was written to it has, of every frame still buffered, taken it,
\* however often the connection dropped.  After a restart the ids begin at 1
\* again, and a stream from before may miss frames: sameProcess exempts it.
NothingMissed ==
  source = "open" /\ wire = <<>> /\ sameProcess =>
    \A k \in DOMAIN buffers[follows] : buffers[follows][k].id \in seen

=============================================================================
