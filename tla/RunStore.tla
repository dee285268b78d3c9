-------------------------------- MODULE RunStore -------------------------------
(***************************************************************************)
(* One browser tab that follows a run: the execution half of useQueueStore *)
(* (apps/web/src/stores/queue.ts) over openStream (apps/web/src/api/       *)
(* queue.ts), on top of the server and the EventSource of RunEvents.       *)
(*                                                                         *)
(* view is activeRun.  Every request is sent, served and answered in three *)
(* steps, so answers arrive in any order.  The lists of items, the log and *)
(* the notifications follow view and are left out.                         *)
(***************************************************************************)
EXTENDS RunEvents

CONSTANTS
  MaxRequests,  \* bound: requests of the tab in flight
  Others        \* do other tabs start, resume and cancel runs as well?

ASSUME RequestsAssumption == MaxRequests \in Nat \ {0}
ASSUME OthersAssumption == Others \in BOOLEAN

VARIABLES
  view,       \* activeRun: a run as some answer or frame told it
  requests,   \* what is in flight, by slot
  orderly     \* history: so far no two requests at once and no other tab

storeVars == <<view, requests, orderly>>
allVars == <<vars, storeVars>>

Slots == 1 .. MaxRequests

NoView == [run |-> NoRun, phase |-> "none", done |-> 0]
RowOf(r) == IF r = NoRun THEN NoView ELSE [run |-> r, phase |-> phase[r], done |-> done[r]]

NewRow(r) == [run |-> r, phase |-> phase'[r], done |-> done'[r]]

Request(kind, r) == [kind |-> kind, run |-> r, state |-> "sent", answer |-> NoView]
NoRequest == [kind |-> "none", run |-> NoRun, state |-> "none", answer |-> NoView]

Free(s) == requests[s] = NoRequest
NextFree(s) == Free(s) /\ \A t \in Slots : t < s => ~Free(t)
Put(s, request) == requests' = [requests EXCEPT ![s] = request]

StoreInit == Init /\ view = NoView /\ requests = [s \in Slots |-> NoRequest] /\ orderly = TRUE

\* busy: one of start, resume and cancel at a time.  (The code stays busy for
\* the load that ends a cancel, too; here the user may click during that load.)
Busy == \E s \in Slots : requests[s].kind \in {"start", "resume", "cancel"}

-------------------------------------------------------------------------------
(* The user.                                                                 *)

\* load(), which every edit of the queue ends with.
\* Bound: it leaves a slot to the others, if there are any.
Reload ==
  \E s, t \in Slots :
    /\ NextFree(s) /\ Free(t) /\ (s # t \/ MaxRequests = 1)
    /\ Put(s, Request("list", NoRun))
    /\ UNCHANGED <<vars, view>>

ClickStart ==
  /\ ~Busy /\ view.phase # "running"
  /\ \E s \in Slots : NextFree(s) /\ Put(s, Request("start", NoRun))
  /\ UNCHANGED <<vars, view>>

ClickResume ==
  /\ ~Busy /\ view.phase = "paused"
  /\ \E s \in Slots : NextFree(s) /\ Put(s, Request("resume", view.run))
  /\ UNCHANGED <<vars, view>>

ClickCancel ==
  /\ ~Busy /\ view.phase \in Open
  /\ \E s \in Slots : NextFree(s) /\ Put(s, Request("cancel", view.run))
  /\ UNCHANGED <<vars, view>>

-------------------------------------------------------------------------------
(* The server answers.                                                       *)

Sent(s, kinds) == requests[s].kind \in kinds /\ requests[s].state = "sent"
Answer(s, row) == requests' = [requests EXCEPT ![s].state = "answered", ![s].answer = row]

\* findActive
ActiveRow ==
  IF \E r \in Runs : phase[r] \in Open
  THEN RowOf(CHOOSE r \in Runs : phase[r] \in Open) ELSE NoView

ServeRead(s) ==
  /\ Quiet /\ Sent(s, {"list", "detail", "poll"})
  /\ Answer(s, IF requests[s].kind = "list" THEN ActiveRow ELSE RowOf(requests[s].run))
  /\ UNCHANGED <<vars, view>>

ServeStart(s) ==
  /\ Sent(s, {"start"})
  /\ \E r \in Runs : StartRun(r) /\ Answer(s, NewRow(r))
  /\ UNCHANGED view

ServeResume(s) ==
  /\ Sent(s, {"resume"})
  /\ ResumeRun(requests[s].run) /\ Answer(s, NewRow(requests[s].run))
  /\ UNCHANGED view

\* cancel of the active run answers when the run is over.
ServeCancel(s) ==
  /\ Sent(s, {"cancel"})
  /\ \/ CancelPaused(requests[s].run) /\ Answer(s, NewRow(requests[s].run))
     \/ AbortRun(requests[s].run) /\ requests' = [requests EXCEPT ![s].state = "waiting"]
  /\ UNCHANGED view

CancelDone(s) ==
  /\ up /\ requests[s].state = "waiting" /\ phase[requests[s].run] # "running"
  /\ Answer(s, RowOf(requests[s].run))
  /\ UNCHANGED <<vars, view>>

\* An error answer changes nothing but the notification.
\* Bound: a start or resume beyond MaxRuns and MaxResumes is refused as well.
Refuse(s) ==
  /\ Quiet
  /\ \/ Sent(s, {"start"}) /\ \A r \in Runs : ~(phase[r] = "none" /\ ActiveRow = NoView)
     \/ Sent(s, {"resume"}) /\ (phase[requests[s].run] # "paused" \/ resumes = MaxResumes)
     \/ Sent(s, {"cancel"}) /\ phase[requests[s].run] \in Closed
  /\ Put(s, NoRequest)
  /\ UNCHANGED <<vars, view>>

\* Nobody listens.
Unreachable(s) ==
  /\ ~up /\ requests[s].state \in {"sent", "waiting"}
  /\ Put(s, NoRequest)
  /\ UNCHANGED <<vars, view>>

Serve(s) ==
  \/ ServeRead(s) \/ ServeStart(s) \/ ServeResume(s) \/ ServeCancel(s)
  \/ CancelDone(s) \/ Refuse(s) \/ Unreachable(s)

-------------------------------------------------------------------------------
(* The answers arrive.                                                       *)

Answered(s, kinds) == requests[s].kind \in kinds /\ requests[s].state = "answered"

\* load(), first answer: the detail of the active run is asked next.
ReceiveList(s) ==
  /\ Answered(s, {"list"})
  /\ view' = requests[s].answer
  /\ Put(s, IF view' = NoView THEN NoRequest ELSE Request("detail", view'.run))
  /\ UNCHANGED vars

\* Mutated form of ReceiveDetail: the stream is left to whoever started the run.
DetailOnly(s) ==
  /\ Answered(s, {"detail"})
  /\ view' = requests[s].answer
  /\ Put(s, NoRequest)
  /\ UNCHANGED vars

\* load(), second answer: a run that is running is followed.
ReceiveDetail(s) ==
  /\ Answered(s, {"detail"})
  /\ view' = requests[s].answer
  /\ Put(s, NoRequest)
  /\ IF view'.phase = "running"
     THEN OpenSource(view'.run) /\ UNCHANGED serverVars
     ELSE UNCHANGED vars

\* The poll of onError.
ReceivePoll(s) ==
  /\ Answered(s, {"poll"})
  /\ view' = requests[s].answer
  /\ Put(s, NoRequest)
  /\ UNCHANGED vars

\* start() and resume(): follow the run.
ReceiveLaunch(s) ==
  /\ Answered(s, {"start", "resume"})
  /\ view' = requests[s].answer
  /\ Put(s, NoRequest)
  /\ OpenSource(view'.run) /\ UNCHANGED serverVars

\* Mutated form of ReceiveCancel: the answer is not looked at.
CancelOnly(s) ==
  /\ Answered(s, {"cancel"})
  /\ Put(s, NoRequest)
  /\ CloseSource /\ UNCHANGED <<serverVars, view>>

\* cancel(): hang up and load.
ReceiveCancel(s) ==
  /\ Answered(s, {"cancel"})
  /\ view' = requests[s].answer
  /\ Put(s, Request("list", NoRun))
  /\ CloseSource /\ UNCHANGED serverVars

Receive(s) ==
  ReceiveList(s) \/ ReceiveDetail(s) \/ ReceivePoll(s) \/ ReceiveLaunch(s) \/ ReceiveCancel(s)

-------------------------------------------------------------------------------
(* The frames arrive: applyEvent.                                            *)

Told(frame) == [run |-> frame.run, phase |-> frame.phase, done |-> frame.done]

Show ==
  /\ wire # <<>> /\ Head(wire).type \notin Ending
  /\ TakeFrame /\ UNCHANGED serverVars
  /\ view' = IF Head(wire).type = "item.started" THEN view ELSE Told(Head(wire))
  /\ UNCHANGED requests

\* Mutated form of HangUp: the stream is left open.
ShowEnd ==
  /\ wire # <<>> /\ Head(wire).type \in Ending
  /\ TakeFrame /\ UNCHANGED serverVars
  /\ view' = Told(Head(wire))
  /\ \E s \in Slots : NextFree(s) /\ Put(s, Request("list", NoRun))

\* run.paused and run.finished: detachStream and load.
HangUp ==
  /\ wire # <<>> /\ Head(wire).type \in Ending
  /\ CloseSource /\ UNCHANGED serverVars
  /\ view' = Told(Head(wire))
  /\ \E s \in Slots : NextFree(s) /\ Put(s, Request("list", NoRun))

\* onError: the browser will connect again, the store asks once.
Poll == \E s \in Slots : NextFree(s) /\ Put(s, Request("poll", follows))

DropAndPoll == Drop /\ Poll /\ UNCHANGED view

\* An attempt to connect while the process is down.
ConnectFails ==
  /\ ~up /\ source = "connecting"
  /\ Poll
  /\ UNCHANGED <<vars, view>>

-------------------------------------------------------------------------------
User == Reload \/ ClickStart \/ ClickResume \/ ClickCancel

OtherTabs == Requests /\ UNCHANGED <<view, requests>>

\* What happens to the tab and to the server it shows.
StoreStep ==
  \/ User
  \/ \E s \in Slots : Serve(s) \/ Receive(s)
  \/ Show \/ HangUp \/ DropAndPoll \/ ConnectFails
  \/ (Executor \/ Connect \/ Crash \/ Boot) /\ UNCHANGED <<view, requests>>

Track == orderly' = (orderly /\ Cardinality({s \in Slots : requests'[s] # NoRequest}) <= 1)

StoreNext ==
  \/ StoreStep /\ Track
  \/ Others /\ OtherTabs /\ orderly' = FALSE

StoreSpec == StoreInit /\ [][StoreNext]_allVars

\* The executor and the server's event loop go on, the network delivers, the
\* browser dispatches and connects again, and a dead server is started again.
\* HangUp waits for nothing but a free slot, which is a bound of the model and
\* not of the store: hence strong fairness.
FairStoreSpec ==
  /\ StoreSpec
  /\ WF_allVars(Executor /\ UNCHANGED storeVars)
  /\ WF_allVars(Boot /\ UNCHANGED storeVars)
  /\ WF_allVars(Connect /\ UNCHANGED storeVars)
  /\ WF_allVars(Show /\ Track) /\ SF_allVars(HangUp /\ Track)
  /\ \A s \in Slots : WF_allVars(Serve(s) /\ Track) /\ WF_allVars(Receive(s) /\ Track)

-------------------------------------------------------------------------------
(* Properties.                                                               *)

InFlight == \E s \in Slots : ~Free(s)

\* A tab that shows a run as running has a stream or a request that will tell
\* how it goes on: no order of clicks, answers and frames leaves the progress
\* dialog waiting for nothing.
RunningIsFollowed ==
  view.phase = "running" => source # "closed" \/ InFlight

\* A tab that was alone, and had one request at a time, shows the open run as
\* the server has it when nothing more will be told it, or none if there is none.
AtRestTheViewIsTrue ==
  orderly /\ Quiet /\ source = "closed" /\ ~InFlight =>
    view = ActiveRow \/ (view.phase \in Closed /\ ActiveRow = NoView)

\* A stream is not held open for a run that is over, whichever frames were
\* lost and wherever the process died in between.
StreamsEnd ==
  <>[][~Drop /\ ~Crash]_allVars =>
    \A r \in Runs :
      source # "closed" /\ follows = r /\ phase[r] \in Closed ~> source = "closed" \/ follows # r

=============================================================================
