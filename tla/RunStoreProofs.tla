----------------------------- MODULE RunStoreProofs -----------------------------
(***************************************************************************)
(* Proofs about RunEvents and RunStore, for any number of runs, items and  *)
(* requests and any size of the buffers.                                   *)
(***************************************************************************)
EXTENDS RunStore, FiniteSetTheorems, TLAPS

USE RunsAssumption, BuffersAssumption, FaultsAssumption, RequestsAssumption, OthersAssumption

-------------------------------------------------------------------------------
(* The inductive invariant of RunEvents.                                     *)

Phases == {"running", "paused", "completed", "failed", "cancelled"}
Types == {"run.started", "item.started", "item.finished", "run.paused", "run.finished"}
Frames == [id : Nat, type : Types, run : Runs, phase : Phases, done : Int]

RowsTyped ==
  /\ phase \in [Runs -> Phases \cup {"none"}]
  /\ done \in [Runs -> Int]
  /\ applying \in Runs \cup {NoRun}
  /\ applying # NoRun => phase[applying] = "running"

\* A closed source remembers nothing; any other follows a run that exists, and
\* only an open one has frames coming.
SourceOK ==
  /\ source \in {"closed", "connecting", "open"}
  /\ source = "closed" => follows = NoRun /\ lastEventId = 0 /\ seen = {} /\ sameProcess = TRUE
  /\ source # "closed" => follows \in Runs /\ phase[follows] # "none"
  /\ source # "open" => wire = <<>>
  /\ lastEventId \in Nat

\* Frames of run r in the order they were published, the last as number n or
\* before.
InOrder(s, r, n) ==
  /\ s \in Seq(Frames)
  /\ \A k \in DOMAIN s : s[k].run = r /\ s[k].id <= n
  /\ \A j, k \in DOMAIN s : j < k => s[j].id < s[k].id

BusOK ==
  /\ sequence \in Nat
  /\ buffers \in [Runs -> Seq(Frames)]
  /\ \A r \in Runs : InOrder(buffers[r], r, sequence) /\ \A k \in DOMAIN buffers[r] : buffers[r][k].id > 0
  /\ InOrder(wire, follows, sequence)

\* What is buffered up to the id the source will send has been seen; of an open
\* source, what is buffered at all has been seen or is on the wire.
Accounted ==
  source # "closed" /\ sameProcess =>
    /\ lastEventId <= sequence
    /\ \A k \in DOMAIN buffers[follows] :
         LET id == buffers[follows][k].id IN
         /\ id <= lastEventId => id \in seen
         /\ source = "open" => id \in seen \/ \E j \in DOMAIN wire : wire[j].id = id

BusInv == RowsTyped /\ SourceOK /\ BusOK /\ Accounted

-------------------------------------------------------------------------------
(* Lemmas about sequences of frames.                                         *)

\* What is appended with the next number is last.
LEMMA AppendInOrder ==
  ASSUME NEW r \in Runs, NEW n \in Nat, NEW s, InOrder(s, r, n),
         NEW frame \in Frames, frame.run = r, frame.id = n + 1
  PROVE  /\ InOrder(Append(s, frame), r, n + 1)
         /\ \A k \in DOMAIN Append(s, frame) :
              Append(s, frame)[k] = frame \/ \E j \in DOMAIN s : Append(s, frame)[k] = s[j]
         /\ \A j \in DOMAIN s : \E k \in DOMAIN Append(s, frame) : Append(s, frame)[k] = s[j]
         /\ \E k \in DOMAIN Append(s, frame) : Append(s, frame)[k] = frame
<1> DEFINE t == Append(s, frame)
<1>1. s \in Seq(Frames) /\ Len(s) \in Nat /\ DOMAIN s = 1 .. Len(s)
  BY DEF InOrder
<1>2. t \in Seq(Frames) /\ DOMAIN t = 1 .. Len(s) + 1 /\ t[Len(s) + 1] = frame
      /\ \A k \in 1 .. Len(s) : t[k] = s[k]
  BY <1>1
<1>3. ASSUME NEW k \in 1 .. Len(s) PROVE s[k].run = r /\ s[k].id <= n /\ s[k].id \in Nat
  <2>1. s[k] \in Frames /\ k \in DOMAIN s
    BY <1>1
  <2>2. QED
    BY <2>1 DEF InOrder, Frames
<1> HIDE DEF t
<1>4. ASSUME NEW k \in DOMAIN t PROVE t[k].run = r /\ t[k].id <= n + 1
  <2>1. CASE k = Len(s) + 1
    BY <1>2, <2>1
  <2>2. CASE k \in 1 .. Len(s)
    BY <1>2, <1>3, <2>2
  <2>3. QED
    BY <1>1, <1>2, <2>1, <2>2
<1>5. ASSUME NEW j \in DOMAIN t, NEW k \in DOMAIN t, j < k PROVE t[j].id < t[k].id
  <2>1. j \in 1 .. Len(s)
    BY <1>1, <1>2, <1>5
  <2>2. CASE k = Len(s) + 1
    BY <1>2, <1>3, <2>1, <2>2
  <2>3. CASE k \in 1 .. Len(s)
    BY <1>1, <1>2, <1>5, <2>1, <2>3 DEF InOrder
  <2>4. QED
    BY <1>1, <1>2, <2>2, <2>3
<1>6. InOrder(t, r, n + 1)
  BY <1>2, <1>4, <1>5 DEF InOrder
<1>7. ASSUME NEW k \in DOMAIN t PROVE t[k] = frame \/ \E j \in DOMAIN s : t[k] = s[j]
  BY <1>1, <1>2
<1>8. QED
  BY <1>1, <1>2, <1>6, <1>7 DEF t

\* Frames in order stay so when the bus counts on, and none at all are in order.
LEMMA Widened ==
  ASSUME NEW r, NEW n \in Nat, NEW s, InOrder(s, r, n)
  PROVE  InOrder(s, r, n + 1)
<1>1. s \in Seq(Frames)
  BY DEF InOrder
<1>2. ASSUME NEW k \in DOMAIN s PROVE s[k].run = r /\ s[k].id <= n + 1
  <2>1. s[k] \in Frames
    BY <1>1
  <2>2. s[k].id \in Nat
    BY <2>1 DEF Frames
  <2>3. QED
    BY <2>2 DEF InOrder
<1>3. QED
  BY <1>1, <1>2 DEF InOrder

LEMMA EmptyInOrder == \A r, n : InOrder(<<>>, r, n)
BY DEF InOrder

\* The end of a sequence of frames.
LEMMA SubSeqOf ==
  ASSUME NEW s \in Seq(Frames), NEW n \in 0 .. Len(s)
  PROVE  /\ SubSeq(s, n + 1, Len(s)) \in Seq(Frames)
         /\ DOMAIN SubSeq(s, n + 1, Len(s)) = 1 .. Len(s) - n
         /\ Len(SubSeq(s, n + 1, Len(s))) = Len(s) - n
         /\ \A k \in 1 .. Len(s) - n : SubSeq(s, n + 1, Len(s))[k] = s[n + k]
<1>1. Len(s) \in Nat
  OBVIOUS
<1>2. QED
  BY <1>1

\* A buffer that is trimmed keeps its end.
LEMMA LastOfEnd ==
  ASSUME NEW s \in Seq(Frames), NEW n \in Nat \ {0}
  PROVE  \E m \in 0 .. Len(s) : LastOf(s, n) = SubSeq(s, m + 1, Len(s))
<1>1. Len(s) \in Nat
  OBVIOUS
<1>2. CASE Len(s) > n
  <2>1. Len(s) - n \in 0 .. Len(s)
    BY <1>1, <1>2
  <2>2. QED
    BY <1>2, <2>1 DEF LastOf
<1>3. CASE ~(Len(s) > n)
  <2>1. s = SubSeq(s, 0 + 1, Len(s))
    BY <1>1
  <2>2. QED
    BY <1>1, <1>3, <2>1 DEF LastOf
<1>4. QED
  BY <1>2, <1>3

\* What is left of frames in order is in order.
LEMMA EndInOrder ==
  ASSUME NEW r \in Runs, NEW n \in Nat, NEW s, InOrder(s, r, n), NEW m \in 0 .. Len(s)
  PROVE  InOrder(SubSeq(s, m + 1, Len(s)), r, n)
<1> DEFINE t == SubSeq(s, m + 1, Len(s))
<1>1. s \in Seq(Frames) /\ Len(s) \in Nat /\ DOMAIN s = 1 .. Len(s)
  BY DEF InOrder
<1>2. t \in Seq(Frames) /\ DOMAIN t = 1 .. Len(s) - m /\ \A k \in 1 .. Len(s) - m : t[k] = s[m + k]
  BY <1>1, SubSeqOf
<1> HIDE DEF t
<1>3. \A k \in 1 .. Len(s) - m : m + k \in DOMAIN s
  BY <1>1
<1>4. \A j, k \in 1 .. Len(s) - m : j < k => m + j < m + k
  BY <1>1
<1>5. QED
  BY <1>2, <1>3, <1>4 DEF InOrder, t

-------------------------------------------------------------------------------
(* Publishing.                                                               *)

\* A frame goes to the buffer of its run and to the source that follows it.
LEMMA PublishKeeps ==
  ASSUME BusInv, NEW r \in Runs, NEW type \in Types, Publish(r, type), RowsTyped',
         phase'[r] # "none", \A q \in Runs : phase[q] # "none" => phase'[q] # "none"
  PROVE  BusInv'
<1> DEFINE frame == Frame(sequence + 1, type, r, phase'[r], done'[r])
           longer == LastOf(Append(buffers[r], frame), BufferedEvents)
           all == [buffers EXCEPT ![r] = longer]
<1>1. /\ sequence' = sequence + 1 /\ sequence \in Nat
      /\ buffers' = TrimRuns(all)
      /\ wire' = IF source = "open" /\ follows = r THEN Append(wire, frame) ELSE wire
      /\ UNCHANGED <<source, follows, lastEventId, seen, sameProcess>>
  BY DEF Publish, BusInv, BusOK
<1>2. phase'[r] \in Phases /\ done'[r] \in Int
  BY DEF RowsTyped
<1>3. frame \in Frames /\ frame.run = r /\ frame.id = sequence + 1
  BY <1>1, <1>2 DEF Frame, Frames
<1> HIDE DEF frame
<1>4. InOrder(buffers[r], r, sequence) /\ buffers \in [Runs -> Seq(Frames)]
  BY DEF BusInv, BusOK
<1> DEFINE appended == Append(buffers[r], frame)
<1>5. /\ InOrder(appended, r, sequence')
      /\ \A k \in DOMAIN appended : appended[k] = frame \/ \E j \in DOMAIN buffers[r] : appended[k] = buffers[r][j]
  BY <1>1, <1>3, <1>4, AppendInOrder
<1>6. appended \in Seq(Frames)
  BY <1>5 DEF InOrder
<1> HIDE DEF appended
<1>7. PICK m \in 0 .. Len(appended) : longer = SubSeq(appended, m + 1, Len(appended))
  BY <1>6, LastOfEnd DEF appended
<1>8. /\ InOrder(longer, r, sequence')
      /\ \A k \in DOMAIN longer : longer[k] = frame \/ \E j \in DOMAIN buffers[r] : longer[k] = buffers[r][j]
  <2>1. InOrder(longer, r, sequence')
    BY <1>1, <1>5, <1>7, EndInOrder
  <2>2. DOMAIN longer = 1 .. Len(appended) - m /\ \A k \in 1 .. Len(appended) - m : longer[k] = appended[m + k]
    BY <1>6, <1>7, SubSeqOf
  <2>3. Len(appended) \in Nat /\ DOMAIN appended = 1 .. Len(appended)
    BY <1>6
  <2>4. \A k \in 1 .. Len(appended) - m : m + k \in DOMAIN appended
    BY <2>3
  <2>5. QED
    BY <1>5, <2>1, <2>2, <2>4
<1> HIDE DEF longer
<1>9. all \in [Runs -> Seq(Frames)] /\ all[r] = longer /\ \A q \in Runs \ {r} : all[q] = buffers[q]
  BY <1>4, <1>8 DEF InOrder
<1>10. buffers' \in [Runs -> Seq(Frames)] /\ \A q \in Runs : buffers'[q] = all[q] \/ buffers'[q] = <<>>
  BY <1>1, <1>9 DEF TrimRuns
<1> HIDE DEF all
<1>11. \A q \in Runs : InOrder(buffers[q], q, sequence')
  BY <1>1, Widened DEF BusInv, BusOK
<1>12. ASSUME NEW q \in Runs PROVE InOrder(buffers'[q], q, sequence')
  <2>1. buffers'[q] = <<>> \/ buffers'[q] = buffers[q] \/ (q = r /\ buffers'[q] = longer)
    BY <1>9, <1>10
  <2>2. QED
    BY <1>8, <1>11, <2>1, EmptyInOrder
<1>13. ASSUME NEW q \in Runs, NEW k \in DOMAIN buffers'[q]
       PROVE  \/ q = r /\ buffers'[q][k] = frame
              \/ \E j \in DOMAIN buffers[q] : buffers'[q][k] = buffers[q][j]
  BY <1>8, <1>9, <1>10, <1>13
<1>14. \A q \in Runs : \A k \in DOMAIN buffers'[q] : buffers'[q][k].id > 0
  BY <1>1, <1>3, <1>13 DEF BusInv, BusOK
<1>15. InOrder(wire', follows', sequence')
  <2>1. CASE source = "open" /\ follows = r
    BY <1>1, <1>3, <2>1, AppendInOrder DEF BusInv, BusOK
  <2>2. CASE ~(source = "open" /\ follows = r)
    <3>1. wire' = wire /\ follows' = follows /\ InOrder(wire, follows, sequence)
      BY <1>1, <2>2 DEF BusInv, BusOK
    <3>2. QED
      BY <1>1, <3>1, Widened
  <2>3. QED
    BY <2>1, <2>2
<1>16. BusOK'
  BY <1>1, <1>10, <1>12, <1>14, <1>15 DEF BusOK
<1>17. SourceOK'
  BY <1>1 DEF BusInv, SourceOK
<1>18. Accounted'
  <2>1. SUFFICES ASSUME source # "closed", sameProcess
                 PROVE  /\ lastEventId <= sequence'
                        /\ \A k \in DOMAIN buffers'[follows] :
                             /\ buffers'[follows][k].id <= lastEventId => buffers'[follows][k].id \in seen
                             /\ source = "open" => \/ buffers'[follows][k].id \in seen
                                                   \/ \E j \in DOMAIN wire' : wire'[j].id = buffers'[follows][k].id
    BY <1>1 DEF Accounted
  <2>2. lastEventId <= sequence /\ lastEventId \in Nat /\ follows \in Runs
    BY <2>1 DEF BusInv, Accounted, SourceOK
  <2>3. \A j \in DOMAIN wire : \E k \in DOMAIN wire' : wire'[k] = wire[j]
    BY <1>1, <1>3, AppendInOrder DEF BusInv, BusOK
  <2>4. source = "open" /\ follows = r => \E k \in DOMAIN wire' : wire'[k] = frame
    BY <1>1, <1>3, AppendInOrder DEF BusInv, BusOK
  <2>5. ASSUME NEW k \in DOMAIN buffers'[follows]
        PROVE  /\ buffers'[follows][k].id <= lastEventId => buffers'[follows][k].id \in seen
               /\ source = "open" => \/ buffers'[follows][k].id \in seen
                                     \/ \E j \in DOMAIN wire' : wire'[j].id = buffers'[follows][k].id
    <3>1. CASE follows = r /\ buffers'[follows][k] = frame
      BY <1>1, <1>3, <2>2, <2>4, <3>1
    <3>2. CASE \E j \in DOMAIN buffers[follows] : buffers'[follows][k] = buffers[follows][j]
      BY <2>1, <2>3, <3>2 DEF BusInv, Accounted
    <3>3. QED
      BY <1>13, <2>2, <2>5, <3>1, <3>2
  <2>6. QED
    BY <1>1, <2>2, <2>5
<1>19. QED
  BY <1>16, <1>17, <1>18 DEF BusInv

-------------------------------------------------------------------------------
(* The executor and the requests.                                            *)

LEMMA ExecutorKeeps ==
  ASSUME BusInv, Executor
  PROVE  BusInv'
<1>1. RowsTyped
  BY DEF BusInv
<1>2. ASSUME NEW r \in Runs, BeginItem(r) PROVE BusInv'
  <2>1. phase' = phase /\ done' = done /\ applying' = r /\ phase[r] = "running" /\ Publish(r, "item.started")
    BY <1>2 DEF BeginItem, Looping
  <2>2. RowsTyped'
    BY <1>1, <2>1 DEF RowsTyped
  <2>3. "item.started" \in Types
    BY DEF Types
  <2>4. QED
    BY <2>1, <2>2, <2>3, PublishKeeps
<1>3. ASSUME NEW r \in Runs, FinishItem(r) PROVE BusInv'
  <2>1. /\ phase' = phase /\ done' = [done EXCEPT ![r] = @ + 1] /\ applying' = NoRun
        /\ phase[r] = "running" /\ Publish(r, "item.finished")
    BY <1>3 DEF FinishItem
  <2>2. RowsTyped'
    BY <1>1, <2>1 DEF RowsTyped
  <2>3. "item.finished" \in Types
    BY DEF Types
  <2>4. QED
    BY <2>1, <2>2, <2>3, PublishKeeps
<1>4. ASSUME NEW r \in Runs, FinishAborted(r) PROVE BusInv'
  <2>1. /\ phase' = phase /\ done' = done /\ applying' = NoRun /\ applying = r
        /\ Publish(r, "item.finished")
    BY <1>4 DEF FinishAborted
  <2>2. RowsTyped' /\ phase'[r] = "running"
    BY <1>1, <2>1 DEF RowsTyped, Runs, NoRun
  <2>3. "item.finished" \in Types
    BY DEF Types
  <2>4. QED
    BY <2>1, <2>2, <2>3, PublishKeeps
<1>5. ASSUME NEW r \in Runs, PauseRun(r) PROVE BusInv'
  <2>1. /\ phase' = [phase EXCEPT ![r] = "paused"] /\ done' = done /\ applying' = applying
        /\ applying = NoRun /\ Publish(r, "run.paused")
    BY <1>5 DEF PauseRun, Looping, SetPhase
  <2>2. RowsTyped' /\ phase'[r] = "paused" /\ \A q \in Runs : phase[q] # "none" => phase'[q] # "none"
    BY <1>1, <2>1 DEF RowsTyped, Phases
  <2>3. "run.paused" \in Types
    BY DEF Types
  <2>4. QED
    BY <2>1, <2>2, <2>3, PublishKeeps
<1>6. ASSUME NEW r \in Runs, FinishRun(r) PROVE BusInv'
  <2>1. PICK outcome \in {"cancelled", "completed", "failed"} :
          /\ phase' = [phase EXCEPT ![r] = outcome] /\ done' = done /\ applying' = applying
          /\ applying = NoRun /\ Publish(r, "run.finished")
    BY <1>6 DEF FinishRun, Looping, SetPhase
  <2>2. RowsTyped' /\ phase'[r] # "none" /\ \A q \in Runs : phase[q] # "none" => phase'[q] # "none"
    BY <1>1, <2>1 DEF RowsTyped, Phases
  <2>3. "run.finished" \in Types
    BY DEF Types
  <2>4. QED
    BY <2>1, <2>2, <2>3, PublishKeeps
<1>7. ASSUME NEW r \in Runs, DieInItem(r) PROVE BusInv'
  <2>1. /\ phase' = [phase EXCEPT ![r] = "failed"] /\ done' = done /\ applying' = NoRun
        /\ Publish(r, "run.finished")
    BY <1>7 DEF DieInItem, SetPhase
  <2>2. RowsTyped' /\ phase'[r] = "failed" /\ \A q \in Runs : phase[q] # "none" => phase'[q] # "none"
    BY <1>1, <2>1 DEF RowsTyped, Phases
  <2>3. "run.finished" \in Types
    BY DEF Types
  <2>4. QED
    BY <2>1, <2>2, <2>3, PublishKeeps
<1>8. QED
  BY <1>2, <1>3, <1>4, <1>5, <1>6, <1>7 DEF Executor

LEMMA StartKeeps ==
  ASSUME BusInv, NEW r \in Runs, StartRun(r)
  PROVE  BusInv'
<1>1. /\ phase' = [phase EXCEPT ![r] = "running"] /\ done' = done /\ applying' = applying
      /\ Publish(r, "run.started")
  BY DEF StartRun, SetPhase
<1>2. RowsTyped' /\ phase'[r] = "running" /\ \A q \in Runs : phase[q] # "none" => phase'[q] # "none"
  BY <1>1 DEF BusInv, RowsTyped, Phases
<1>3. "run.started" \in Types
  BY DEF Types
<1>4. QED
  BY <1>1, <1>2, <1>3, PublishKeeps

LEMMA ResumeKeeps ==
  ASSUME BusInv, NEW r \in Runs, ResumeRun(r)
  PROVE  BusInv'
<1>1. PICK n \in {0, 1} :
        /\ phase' = [phase EXCEPT ![r] = "running"] /\ done' = [done EXCEPT ![r] = @ - n]
        /\ applying' = applying /\ Publish(r, "run.started")
  BY DEF ResumeRun, SetPhase
<1>2. RowsTyped' /\ phase'[r] = "running" /\ \A q \in Runs : phase[q] # "none" => phase'[q] # "none"
  BY <1>1 DEF BusInv, RowsTyped, Phases
<1>3. "run.started" \in Types
  BY DEF Types
<1>4. QED
  BY <1>1, <1>2, <1>3, PublishKeeps

LEMMA CancelKeeps ==
  ASSUME BusInv, NEW r \in Runs, CancelPaused(r)
  PROVE  BusInv'
<1>1. /\ phase' = [phase EXCEPT ![r] = "cancelled"] /\ done' = done /\ applying' = applying
      /\ phase[r] = "paused" /\ Publish(r, "run.finished")
  BY DEF CancelPaused, SetPhase
<1>2. RowsTyped' /\ phase'[r] = "cancelled" /\ \A q \in Runs : phase[q] # "none" => phase'[q] # "none"
  BY <1>1 DEF BusInv, RowsTyped, Phases
<1>3. "run.finished" \in Types
  BY DEF Types
<1>4. QED
  BY <1>1, <1>2, <1>3, PublishKeeps

LEMMA BusUnchanged ==
  ASSUME BusInv, UNCHANGED <<phase, done, applying, sequence, buffers>>, UNCHANGED sourceVars
  PROVE  BusInv'
BY DEF BusInv, RowsTyped, SourceOK, BusOK, Accounted, sourceVars

LEMMA AbortKeeps ==
  ASSUME BusInv, NEW r \in Runs, AbortRun(r)
  PROVE  BusInv'
<1>1. UNCHANGED <<phase, done, applying, sequence, buffers>> /\ UNCHANGED sourceVars
  BY DEF AbortRun, runVars, busVars
<1>2. QED
  BY <1>1, BusUnchanged

LEMMA RequestsKeep ==
  ASSUME BusInv, Requests
  PROVE  BusInv'
BY StartKeeps, ResumeKeeps, CancelKeeps, AbortKeeps DEF Requests

-------------------------------------------------------------------------------
(* The stream and the process.                                               *)

LEMMA ServerUnchanged ==
  ASSUME BusInv, UNCHANGED serverVars
  PROVE  /\ RowsTyped' /\ phase' = phase /\ done' = done
         /\ sequence' = sequence /\ buffers' = buffers
         /\ UNCHANGED <<up, aborted, applying>>
BY DEF BusInv, RowsTyped, serverVars, runVars, busVars

LEMMA OpenKeeps ==
  ASSUME BusInv, NEW r \in Runs, phase[r] # "none", OpenSource(r), UNCHANGED serverVars
  PROVE  BusInv'
<1>1. RowsTyped' /\ phase' = phase /\ sequence' = sequence /\ buffers' = buffers
  BY ServerUnchanged
<1>2. /\ source' = "connecting" /\ follows' = r
      /\ lastEventId' = 0 /\ wire' = <<>> /\ seen' = {} /\ sameProcess' = TRUE
  BY DEF OpenSource
<1>3. SourceOK'
  BY <1>1, <1>2 DEF SourceOK
<1>4. BusOK'
  BY <1>1, <1>2, EmptyInOrder DEF BusOK, BusInv
<1>5. Accounted'
  <2>1. lastEventId' <= sequence'
    BY <1>1, <1>2 DEF BusInv, BusOK
  <2>2. ASSUME NEW k \in DOMAIN buffers'[r] PROVE ~(buffers'[r][k].id <= lastEventId')
    <3>1. buffers[r] \in Seq(Frames) /\ k \in DOMAIN buffers[r] /\ buffers[r][k].id > 0
      BY <1>1, <2>2 DEF BusInv, BusOK
    <3>2. buffers[r][k] \in Frames
      BY <3>1
    <3>3. buffers[r][k].id \in Nat
      BY <3>2 DEF Frames
    <3>4. QED
      BY <1>1, <1>2, <3>1, <3>3
  <2>3. QED
    BY <1>2, <2>1, <2>2 DEF Accounted
<1>6. QED
  BY <1>1, <1>3, <1>4, <1>5 DEF BusInv

LEMMA CloseKeeps ==
  ASSUME BusInv, CloseSource, UNCHANGED serverVars
  PROVE  BusInv'
<1>1. RowsTyped' /\ phase' = phase /\ sequence' = sequence /\ buffers' = buffers
  BY ServerUnchanged
<1>2. /\ source' = "closed" /\ follows' = NoRun
      /\ lastEventId' = 0 /\ wire' = <<>> /\ seen' = {} /\ sameProcess' = TRUE
  BY DEF CloseSource
<1>3. SourceOK'
  BY <1>1, <1>2 DEF SourceOK
<1>4. BusOK'
  BY <1>1, <1>2, EmptyInOrder DEF BusOK, BusInv
<1>5. Accounted'
  BY <1>2 DEF Accounted
<1>6. QED
  BY <1>1, <1>3, <1>4, <1>5 DEF BusInv

LEMMA ConnectKeeps ==
  ASSUME BusInv, Connect
  PROVE  BusInv'
<1> DEFINE buffer == buffers[follows]
<1>1. RowsTyped' /\ phase' = phase /\ sequence' = sequence /\ buffers' = buffers
  BY ServerUnchanged DEF Connect
<1>2. source = "connecting" /\ source' = "open"
      /\ UNCHANGED <<follows, lastEventId, seen, sameProcess>>
  BY DEF Connect
<1>3. follows \in Runs /\ phase[follows] # "none" /\ lastEventId \in Nat
  BY <1>2 DEF BusInv, SourceOK
<1>4. InOrder(buffer, follows, sequence) /\ sequence \in Nat /\ buffer \in Seq(Frames)
  BY <1>3 DEF BusInv, BusOK, InOrder
<1>5. PICK n \in 0 .. Len(buffer) :
        /\ Replay(follows, lastEventId, n)
        /\ wire' = IF n = Len(buffer) THEN <<Synthetic(follows)>> ELSE SubSeq(buffer, n + 1, Len(buffer))
  BY DEF Connect, WriteFrom
<1>6. InOrder(wire', follows, sequence)
  <2>1. CASE n = Len(buffer)
    <3>1. /\ phase[follows] \in Phases /\ done[follows] \in Int
          /\ (CASE phase[follows] = "running" -> "run.started"
               [] phase[follows] = "paused"  -> "run.paused"
               [] OTHER                -> "run.finished") \in Types
      BY <1>3 DEF BusInv, RowsTyped, Types
    <3>2. Synthetic(follows) \in Frames /\ Synthetic(follows).id = 0 /\ Synthetic(follows).run = follows
      BY <1>3, <3>1 DEF Synthetic, Frame, Frames
    <3>3. wire' = <<Synthetic(follows)>>
      BY <1>5, <2>1
    <3> DEFINE frame == Synthetic(follows)
    <3> HIDE DEF frame
    <3>4. <<frame>> \in Seq(Frames) /\ DOMAIN <<frame>> = {1} /\ <<frame>>[1] = frame
      BY <3>2 DEF frame
    <3>5. InOrder(<<frame>>, follows, sequence)
      BY <1>4, <3>2, <3>4 DEF InOrder, frame
    <3>6. QED
      BY <3>3, <3>5 DEF frame
  <2>2. CASE n # Len(buffer)
    BY <1>3, <1>4, <1>5, <2>2, EndInOrder
  <2>3. QED
    BY <2>1, <2>2
<1>7. SourceOK'
  BY <1>1, <1>2, <1>3 DEF SourceOK
<1>8. BusOK'
  BY <1>1, <1>2, <1>6 DEF BusOK, BusInv
<1>9. Accounted'
  <2>1. SUFFICES ASSUME sameProcess
                 PROVE  /\ lastEventId <= sequence
                        /\ \A k \in DOMAIN buffer :
                             /\ buffer[k].id <= lastEventId => buffer[k].id \in seen
                             /\ buffer[k].id \in seen \/ \E j \in DOMAIN wire' : wire'[j].id = buffer[k].id
    BY <1>1, <1>2 DEF Accounted
  <2>2. /\ lastEventId <= sequence
        /\ \A k \in DOMAIN buffer : buffer[k].id <= lastEventId => buffer[k].id \in seen
    BY <1>2, <2>1 DEF BusInv, Accounted
  <2>3. ASSUME NEW k \in DOMAIN buffer, ~(buffer[k].id <= lastEventId)
        PROVE  \E j \in DOMAIN wire' : wire'[j].id = buffer[k].id
    <3>1. buffer[k] \in Frames /\ k \in 1 .. Len(buffer) /\ Len(buffer) \in Nat
      BY <1>4, <2>3
    <3>2. buffer[k].id \in Nat
      BY <3>1 DEF Frames
    <3>3. k > n
      BY <1>3, <1>5, <2>3, <3>2 DEF Replay
    <3>4. wire' = SubSeq(buffer, n + 1, Len(buffer))
      BY <1>5, <3>1, <3>3
    <3>5. k - n \in DOMAIN wire' /\ wire'[k - n] = buffer[n + (k - n)]
      BY <1>4, <3>1, <3>3, <3>4, SubSeqOf
    <3>6. QED
      BY <3>1, <3>5
  <2>4. QED
    BY <2>2, <2>3
<1>10. QED
  BY <1>1, <1>7, <1>8, <1>9 DEF BusInv

LEMMA TakeKeeps ==
  ASSUME BusInv, TakeFrame, UNCHANGED serverVars
  PROVE  BusInv'
<1>1. RowsTyped' /\ phase' = phase /\ sequence' = sequence /\ buffers' = buffers
  BY ServerUnchanged
<1>2. /\ wire # <<>> /\ wire' = Tail(wire) /\ lastEventId' = Head(wire).id
      /\ seen' = seen \cup ({Head(wire).id} \ {0})
      /\ UNCHANGED <<source, follows, sameProcess>>
  BY DEF TakeFrame
<1>3. source = "open" /\ InOrder(wire, follows, sequence) /\ sequence \in Nat
  BY <1>2 DEF BusInv, SourceOK, BusOK
<1>4. wire \in Seq(Frames) /\ Len(wire) \in Nat /\ Len(wire) > 0 /\ DOMAIN wire = 1 .. Len(wire)
  BY <1>2, <1>3 DEF InOrder
<1>5. Tail(wire) = SubSeq(wire, 1 + 1, Len(wire)) /\ Head(wire) = wire[1]
  BY <1>4
<1>6. InOrder(wire', follows, sequence)
  <2>1. follows \in Runs
    BY <1>3 DEF BusInv, SourceOK
  <2>2. 1 \in 0 .. Len(wire) /\ wire' = SubSeq(wire, 1 + 1, Len(wire))
    BY <1>2, <1>4, <1>5
  <2>3. QED
    BY <1>3, <2>1, <2>2, EndInOrder
<1>7. wire[1] \in Frames /\ wire[1].id \in Nat /\ wire[1].id <= sequence
  <2>1. wire[1] \in Frames /\ 1 \in DOMAIN wire
    BY <1>4
  <2>2. QED
    BY <1>3, <2>1 DEF Frames, InOrder
<1>8. SourceOK'
  BY <1>1, <1>2, <1>3, <1>5, <1>7 DEF BusInv, SourceOK
<1>9. BusOK'
  BY <1>1, <1>2, <1>6 DEF BusOK, BusInv
<1>10. Accounted'
  <2>1. SUFFICES ASSUME sameProcess, NEW k \in DOMAIN buffers[follows]
                 PROVE  LET id == buffers[follows][k].id IN
                        /\ id <= wire[1].id => id \in seen'
                        /\ id \in seen' \/ \E j \in DOMAIN wire' : wire'[j].id = id
    BY <1>1, <1>2, <1>3, <1>5, <1>7 DEF Accounted
  <2> DEFINE id == buffers[follows][k].id
  <2>2. follows \in Runs
    BY <1>3 DEF BusInv, SourceOK
  <2>3. id \in Nat /\ id > 0
    <3>1. buffers[follows] \in Seq(Frames) /\ id > 0
      BY <2>2 DEF BusInv, BusOK
    <3>2. buffers[follows][k] \in Frames
      BY <3>1
    <3>3. QED
      BY <3>1, <3>2 DEF Frames
  <2>4. id \in seen \/ \E j \in DOMAIN wire : wire[j].id = id
    BY <1>3, <2>1 DEF BusInv, Accounted
  <2> HIDE DEF id
  <2>5. CASE id \in seen
    BY <1>2, <2>5 DEF id
  <2>6. ASSUME NEW j \in DOMAIN wire, wire[j].id = id
        PROVE  /\ id <= wire[1].id => id \in seen'
               /\ id \in seen' \/ \E i \in DOMAIN wire' : wire'[i].id = id
    <3>1. CASE j = 1
      BY <1>2, <1>5, <2>3, <2>6, <3>1
    <3>2. CASE j # 1
      <4>1. j \in 2 .. Len(wire) /\ 1 \in DOMAIN wire
        BY <1>4, <2>6, <3>2
      <4>2. wire[1].id < wire[j].id
        BY <1>3, <2>6, <4>1 DEF InOrder
      <4>3. j - 1 \in DOMAIN wire' /\ wire'[j - 1] = wire[1 + (j - 1)]
        BY <1>2, <1>4, <1>5, <4>1, SubSeqOf
      <4>4. 1 + (j - 1) = j
        BY <4>1
      <4>5. QED
        BY <1>7, <2>3, <2>6, <4>2, <4>3, <4>4
    <3>3. QED
      BY <3>1, <3>2
  <2>7. QED
    BY <2>4, <2>5, <2>6 DEF id
<1>11. QED
  BY <1>1, <1>8, <1>9, <1>10 DEF BusInv

LEMMA DropKeeps ==
  ASSUME BusInv, Drop
  PROVE  BusInv'
<1>1. RowsTyped' /\ phase' = phase /\ sequence' = sequence /\ buffers' = buffers
  BY ServerUnchanged DEF Drop
<1>2. source = "open" /\ source' = "connecting" /\ wire' = <<>>
      /\ UNCHANGED <<follows, lastEventId, seen, sameProcess>>
  BY DEF Drop, LoseConnection
<1>3. SourceOK'
  BY <1>1, <1>2 DEF BusInv, SourceOK
<1>4. BusOK'
  BY <1>1, <1>2, EmptyInOrder DEF BusOK, BusInv
<1>5. Accounted'
  BY <1>1, <1>2 DEF Accounted, BusInv
<1>6. QED
  BY <1>1, <1>3, <1>4, <1>5 DEF BusInv

LEMMA CrashKeeps ==
  ASSUME BusInv, Crash
  PROVE  BusInv'
<1>1. /\ phase' = phase /\ done' = done /\ applying' = applying
      /\ sequence' = 0 /\ buffers' = [r \in Runs |-> <<>>]
      /\ source' = (IF source = "open" THEN "connecting" ELSE source) /\ wire' = <<>>
      /\ UNCHANGED <<follows, lastEventId>> /\ seen' = {} /\ sameProcess' = (source = "closed")
  BY DEF Crash, LoseConnection, runVars
<1>2. RowsTyped'
  BY <1>1 DEF BusInv, RowsTyped
<1>3. SourceOK'
  BY <1>1 DEF BusInv, SourceOK
<1>4. BusOK'
  <2>1. \A r \in Runs : buffers'[r] = <<>>
    BY <1>1
  <2>2. DOMAIN <<>> = {}
    OBVIOUS
  <2>3. QED
    BY <1>1, <2>1, <2>2, EmptyInOrder DEF BusOK
<1>5. Accounted'
  BY <1>1 DEF Accounted
<1>6. QED
  BY <1>2, <1>3, <1>4, <1>5 DEF BusInv

LEMMA BootKeeps ==
  ASSUME BusInv, Boot
  PROVE  BusInv'
<1>1. /\ phase' = [r \in Runs |-> IF phase[r] = "running" THEN "paused" ELSE phase[r]]
      /\ done' = [r \in Runs |-> IF applying = r THEN done[r] + 1 ELSE done[r]]
      /\ applying' = NoRun /\ sequence' = sequence /\ buffers' = buffers
      /\ UNCHANGED <<source, follows, lastEventId, wire, seen, sameProcess>>
  BY DEF Boot, busVars, sourceVars
<1>2. RowsTyped' /\ \A r \in Runs : phase[r] # "none" => phase'[r] # "none"
  BY <1>1 DEF BusInv, RowsTyped, Phases
<1>3. SourceOK'
  BY <1>1, <1>2 DEF BusInv, SourceOK
<1>4. BusOK' /\ Accounted'
  BY <1>1 DEF BusInv, BusOK, Accounted
<1>5. QED
  BY <1>2, <1>3, <1>4 DEF BusInv

LEMMA BusStep ==
  ASSUME BusInv, [Next]_vars
  PROVE  BusInv'
<1>1. ASSUME Browser PROVE BusInv'
  BY <1>1, OpenKeeps, CloseKeeps, TakeKeeps DEF Browser
<1>2. ASSUME UNCHANGED vars PROVE BusInv'
  BY <1>2, BusUnchanged DEF vars, serverVars, runVars, busVars
<1>3. QED
  BY <1>1, <1>2, ExecutorKeeps, RequestsKeep, ConnectKeeps, DropKeeps, CrashKeeps, BootKeeps DEF Next

LEMMA BusStart ==
  ASSUME Init
  PROVE  BusInv
<1>1. RowsTyped /\ SourceOK
  BY DEF Init, RowsTyped, SourceOK
<1>2. BusOK
  <2>1. DOMAIN <<>> = {} /\ <<>> \in Seq(Frames)
    OBVIOUS
  <2>2. QED
    BY <2>1, EmptyInOrder DEF Init, BusOK
<1>3. Accounted
  BY DEF Init, Accounted
<1>4. QED
  BY <1>1, <1>2, <1>3 DEF BusInv

\* Rows, source, buffers and wire agree, whatever is clicked and whatever fails.
THEOREM BusInvariant == Spec => []BusInv
<1>1. QED
  BY BusStart, BusStep, PTL DEF Spec

LEMMA AccountedMissesNothing ==
  ASSUME BusInv
  PROVE  NothingMissed
<1>1. DOMAIN <<>> = {}
  OBVIOUS
<1>2. QED
  BY <1>1 DEF BusInv, Accounted, NothingMissed

\* What replay and subscribe are for: an EventSource that has taken all that
\* was written to it has taken every frame that is still buffered, of the
\* process it was opened with.
THEOREM StreamMissesNothing == Spec => []NothingMissed
<1>1. QED
  BY BusInvariant, AccountedMissesNothing, PTL

-------------------------------------------------------------------------------
(* The inductive invariants of RunStore.                                     *)

Rows == [run : Runs \cup {NoRun}, phase : Phases \cup {"none"}, done : Int]
Kinds == {"list", "detail", "poll", "start", "resume", "cancel"}
Asked == [kind : Kinds \cup {"none"}, run : Runs \cup {NoRun},
          state : {"none", "sent", "waiting", "answered"}, answer : Rows]

Exists(r, rows) == r \in Runs /\ rows[r] # "none"

\* A row some answer or frame told: none, or that of a run there is.
RowOK(row, rows) ==
  row \in Rows /\ (row = NoView \/ (Exists(row.run, rows) /\ row.phase \in Phases))

RequestOK(request, rows) ==
  /\ request \in Asked /\ RowOK(request.answer, rows)
  /\ request.kind \in {"detail", "poll", "resume", "cancel"} => Exists(request.run, rows)
  /\ request.state = "answered" /\ request.kind # "list" => Exists(request.answer.run, rows)
  /\ request.state = "waiting" => request.kind = "cancel"
  /\ request.kind = "none" => request = NoRequest

TabTyped ==
  /\ RowOK(view, phase)
  /\ requests \in [Slots -> Asked] /\ \A s \in Slots : RequestOK(requests[s], phase)
  /\ orderly \in BOOLEAN

\* The runs are made one after the other.
Lined == \A q, r \in Runs : q < r /\ phase[r] # "none" => phase[q] \in Closed

TabInv == BusInv /\ TabTyped /\ Lined

\* Without faults, what shows a run as running is followed, or is about to be.
Followed ==
  /\ up = TRUE
  /\ \A s \in Slots : requests[s].kind # "poll"
  /\ view.phase = "running" /\ source = "closed" =>
       \E s \in Slots : requests[s].kind \in {"list", "detail"}

\* No run goes on, and a row shows what the server has.
Settled(row, active, rows) ==
  /\ row = active \/ (row.phase \in Closed /\ active = NoView)
  /\ \A r \in Runs : rows[r] # "running"

OnlyOpen(r, rows) == \A q \in Runs : rows[q] \in Open => q = r

Alone(inFlight) == \A s, t \in Slots : inFlight[s] # NoRequest /\ inFlight[t] # NoRequest => s = t

Unserved(request) == request.kind \in {"start", "resume", "cancel"} /\ request.state = "sent"

\* What the two requests of a load tell is not overtaken.
ReadOK(request, active, rows) ==
  /\ request.kind = "list" /\ request.state = "answered" => OnlyOpen(request.answer.run, rows)
  /\ request.kind = "detail" =>
       /\ OnlyOpen(request.run, rows)
       /\ request.state = "answered" /\ request.answer.phase # "running" => Settled(request.answer, active, rows)

\* Without faults, a tab with one request at a time knows how things are when
\* it follows nothing and has asked nothing, or what it asked was not served.
Orderly ==
  orderly =>
    /\ Alone(requests)
    /\ source = "closed" /\ (\A s \in Slots : Free(s) \/ Unserved(requests[s])) => Settled(view, ActiveRow, phase)
    /\ \A s \in Slots : ReadOK(requests[s], ActiveRow, phase)

FaultlessInv == TabInv /\ Followed /\ Orderly

-------------------------------------------------------------------------------
(* Runs come one after the other and stay.                                   *)

Grows == \A r \in Runs : phase[r] # "none" => phase'[r] # "none"

LEMMA OpenRunsChange ==
  ASSUME Lined,
         \A q \in Runs : phase'[q] = phase[q] \/ (phase[q] \in Open /\ phase'[q] \in Phases)
  PROVE  Lined' /\ Grows
<1>1. Grows
  BY DEF Grows, Phases, Open
<1>2. ASSUME NEW q \in Runs, NEW r \in Runs, q < r, phase'[r] # "none" PROVE phase'[q] \in Closed
  <2>1. phase[r] # "none"
    BY <1>2 DEF Open
  <2>2. phase[q] \in Closed
    BY <1>2, <2>1 DEF Lined
  <2>3. QED
    BY <2>2 DEF Open, Closed
<1>3. QED
  BY <1>1, <1>2 DEF Lined

\* An item is worked on, or ends, in the run that is running.
LEMMA ExecutorMoves ==
  ASSUME BusInv, Executor
  PROVE  /\ \E r \in Runs : /\ phase[r] = "running" /\ phase'[r] \in Phases
                           /\ \A q \in Runs \ {r} : phase'[q] = phase[q]
         /\ up' = up /\ source' = source /\ follows' = follows
<1>1. /\ phase \in [Runs -> Phases \cup {"none"}] /\ (applying # NoRun => phase[applying] = "running")
      /\ \A r \in Runs : r # NoRun
  BY DEF BusInv, RowsTyped, Runs, NoRun
<1>2. ASSUME NEW r \in Runs, BeginItem(r) \/ FinishItem(r) \/ FinishAborted(r)
                               \/ PauseRun(r) \/ FinishRun(r) \/ DieInItem(r)
      PROVE  /\ phase[r] = "running" /\ \E p \in Phases : phase' = [phase EXCEPT ![r] = p]
             /\ up' = up /\ source' = source /\ follows' = follows
  <2>1. "running" \in Phases /\ "paused" \in Phases /\ "failed" \in Phases /\ "cancelled" \in Phases /\ "completed" \in Phases
    BY DEF Phases
  <2>2. CASE BeginItem(r)
    BY <1>1, <2>1, <2>2 DEF BeginItem, Looping, Publish
  <2>3. CASE FinishItem(r)
    BY <1>1, <2>1, <2>3 DEF FinishItem, Publish
  <2>4. CASE FinishAborted(r)
    BY <1>1, <2>1, <2>4 DEF FinishAborted, Publish
  <2>5. CASE PauseRun(r)
    BY <1>1, <2>1, <2>5 DEF PauseRun, Looping, Publish, SetPhase
  <2>6. CASE FinishRun(r)
    BY <1>1, <2>1, <2>6 DEF FinishRun, Looping, Publish, SetPhase
  <2>7. CASE DieInItem(r)
    BY <1>1, <2>1, <2>7 DEF DieInItem, Publish, SetPhase
  <2>8. QED
    BY <1>2, <2>2, <2>3, <2>4, <2>5, <2>6, <2>7
<1>3. QED
  BY <1>1, <1>2 DEF Executor

LEMMA ServerMoves ==
  ASSUME BusInv, Lined, [Next]_vars
  PROVE  Lined' /\ Grows
<1>1. phase \in [Runs -> Phases \cup {"none"}]
  BY DEF BusInv, RowsTyped
<1>2. CASE Executor
  BY <1>1, <1>2, ExecutorMoves, OpenRunsChange DEF Open
<1>3. ASSUME NEW r \in Runs, StartRun(r) PROVE Lined' /\ Grows
  <2>1. /\ phase' = [phase EXCEPT ![r] = "running"] /\ phase[r] = "none"
        /\ \A q \in Runs : q < r => phase[q] \in Closed
    BY <1>3 DEF StartRun, SetPhase
  <2>2. ASSUME NEW p \in Runs, NEW q \in Runs, p < q, phase'[q] # "none" PROVE phase'[p] \in Closed
    <3>1. CASE q = r
      BY <1>1, <2>1, <2>2, <3>1 DEF Runs
    <3>2. CASE q # r
      <4>1. phase[q] # "none"
        BY <1>1, <2>1, <2>2, <3>2
      <4>2. phase[p] \in Closed
        BY <2>2, <4>1 DEF Lined
      <4>3. p # r
        BY <2>1, <4>2 DEF Closed
      <4>4. QED
        BY <1>1, <2>1, <4>2, <4>3
    <3>3. QED
      BY <3>1, <3>2
  <2>3. QED
    BY <1>1, <2>1, <2>2 DEF Lined, Grows
<1>4. ASSUME NEW r \in Runs, ResumeRun(r) \/ CancelPaused(r) PROVE Lined' /\ Grows
  <2>1. phase[r] = "paused" /\ \E p \in Phases : phase' = [phase EXCEPT ![r] = p]
    BY <1>4 DEF ResumeRun, CancelPaused, SetPhase, Phases
  <2>2. QED
    BY <1>1, <2>1, OpenRunsChange DEF Open
<1>5. CASE Boot
  <2>1. phase' = [r \in Runs |-> IF phase[r] = "running" THEN "paused" ELSE phase[r]]
    BY <1>5 DEF Boot
  <2>2. QED
    BY <2>1, OpenRunsChange DEF Open, Phases
<1>6. ASSUME phase' = phase PROVE Lined' /\ Grows
  BY <1>6 DEF Lined, Grows
<1>7. CASE UNCHANGED vars
  BY <1>6, <1>7 DEF vars, serverVars, runVars
<1>8. CASE Connect \/ Browser \/ Drop \/ Crash
  BY <1>6, <1>8 DEF Connect, Browser, Drop, Crash, serverVars, runVars
<1>9. CASE \E r \in Runs : AbortRun(r)
  BY <1>6, <1>9 DEF AbortRun, runVars
<1>10. QED
  BY <1>2, <1>3, <1>4, <1>5, <1>7, <1>8, <1>9 DEF Next, Requests

-------------------------------------------------------------------------------
(* Requests of the tab.                                                      *)

LEMMA RowKept ==
  ASSUME NEW row, RowOK(row, phase), Grows
  PROVE  RowOK(row, phase')
BY DEF RowOK, Exists, Grows

LEMMA RequestKept ==
  ASSUME NEW request, RequestOK(request, phase), Grows
  PROVE  RequestOK(request, phase')
BY RowKept DEF RequestOK, Exists, Grows

LEMMA NoViewOK == \A rows : NoView \in Rows /\ RowOK(NoView, rows)
BY DEF RowOK, NoView, Rows

LEMMA NoRequestOK == \A rows : RequestOK(NoRequest, rows)
BY NoViewOK DEF RequestOK, NoRequest, Asked

\* The row of a run there is, as it is told.
LEMMA ToldOK ==
  ASSUME NEW rows \in [Runs -> Phases \cup {"none"}], NEW r \in Runs, rows[r] # "none",
         NEW p \in Phases, NEW n \in Int
  PROVE  RowOK([run |-> r, phase |-> p, done |-> n], rows)
BY DEF RowOK, Rows, Exists

LEMMA RequestSentOK ==
  ASSUME NEW kind \in Kinds, NEW r \in Runs \cup {NoRun}, NEW rows,
         kind \in {"detail", "poll", "resume", "cancel"} => Exists(r, rows)
  PROVE  RequestOK(Request(kind, r), rows)
BY NoViewOK DEF RequestOK, Request, Asked, Kinds

LEMMA PutKeeps ==
  ASSUME TabTyped, NEW s \in Slots, NEW request, RequestOK(request, phase'), Grows,
         requests' = [requests EXCEPT ![s] = request],
         RowOK(view', phase'), orderly' \in BOOLEAN
  PROVE  TabTyped'
<1>1. request \in Asked
  BY DEF RequestOK
<1>2. requests' \in [Slots -> Asked]
  BY <1>1 DEF TabTyped
<1>3. \A t \in Slots : requests'[t] = request \/ requests'[t] = requests[t]
  BY DEF TabTyped
<1>4. \A t \in Slots : RequestOK(requests[t], phase')
  BY RequestKept DEF TabTyped
<1>5. \A t \in Slots : RequestOK(requests'[t], phase')
  BY <1>3, <1>4
<1>6. QED
  BY <1>2, <1>5 DEF TabTyped

LEMMA NothingPut ==
  ASSUME TabTyped, requests' = requests, Grows, RowOK(view', phase'), orderly' \in BOOLEAN
  PROVE  TabTyped'
<1>1. \A t \in Slots : RequestOK(requests[t], phase')
  BY RequestKept DEF TabTyped
<1>2. QED
  BY <1>1 DEF TabTyped

\* An answer goes into the request it answers.
LEMMA AnswerPuts ==
  ASSUME TabTyped, NEW s \in Slots, NEW row \in Rows, Answer(s, row)
  PROVE  \E request \in Asked :
           /\ requests' = [requests EXCEPT ![s] = request]
           /\ request.kind = requests[s].kind /\ request.run = requests[s].run
           /\ request.state = "answered" /\ request.answer = row
<1> DEFINE request == [requests[s] EXCEPT !.state = "answered", !.answer = row]
<1>1. requests[s] \in Asked
  BY DEF TabTyped
<1>2. /\ request \in Asked /\ request.state = "answered" /\ request.answer = row
      /\ request.kind = requests[s].kind /\ request.run = requests[s].run
  BY <1>1 DEF Asked
<1>3. requests' = [requests EXCEPT ![s] = request]
  <2>1. requests' = [[requests EXCEPT ![s] = [requests[s] EXCEPT !.state = "answered"]]
                       EXCEPT ![s] = [requests[s] EXCEPT !.state = "answered", !.answer = row]]
    BY DEF Answer, TabTyped
  <2>2. QED
    BY <2>1 DEF TabTyped
<1>4. QED
  BY <1>2, <1>3

-------------------------------------------------------------------------------
(* The steps of the tab are steps of RunEvents.                              *)

LEMMA ClosingIsNext ==
  ASSUME BusInv, CloseSource, UNCHANGED serverVars
  PROVE  [Next]_vars
<1>1. CASE source # "closed"
  BY <1>1 DEF Next, Browser
<1>2. CASE source = "closed"
  <2>1. UNCHANGED sourceVars
    BY <1>2 DEF CloseSource, BusInv, SourceOK, sourceVars
  <2>2. QED
    BY <2>1 DEF vars
<1>3. QED
  BY <1>1, <1>2

LEMMA OpeningIsNext ==
  ASSUME NEW r, Exists(r, phase), OpenSource(r), UNCHANGED serverVars
  PROVE  [Next]_vars
BY DEF Exists, Next, Browser

LEMMA ReceivingIsNext ==
  ASSUME TabInv, NEW s \in Slots, Receive(s)
  PROVE  [Next]_vars
<1>1. BusInv /\ RequestOK(requests[s], phase)
  BY DEF TabInv, TabTyped
<1>2. CASE ReceiveList(s) \/ ReceivePoll(s)
  BY <1>2 DEF ReceiveList, ReceivePoll
<1>3. CASE ReceiveDetail(s)
  <2>1. requests[s].kind = "detail" /\ requests[s].state = "answered" /\ view' = requests[s].answer
    BY <1>3 DEF ReceiveDetail, Answered
  <2>2. Exists(view'.run, phase)
    BY <1>1, <2>1 DEF RequestOK
  <2>3. UNCHANGED vars \/ (OpenSource(view'.run) /\ UNCHANGED serverVars)
    BY <1>3 DEF ReceiveDetail
  <2>4. QED
    BY <2>2, <2>3, OpeningIsNext
<1>4. CASE ReceiveLaunch(s)
  <2>1. requests[s].kind \in {"start", "resume"} /\ requests[s].state = "answered" /\ view' = requests[s].answer
    BY <1>4 DEF ReceiveLaunch, Answered
  <2>2. Exists(view'.run, phase)
    BY <1>1, <2>1 DEF RequestOK
  <2>3. OpenSource(view'.run) /\ UNCHANGED serverVars
    BY <1>4 DEF ReceiveLaunch
  <2>4. QED
    BY <2>2, <2>3, OpeningIsNext
<1>5. CASE ReceiveCancel(s)
  BY <1>1, <1>5, ClosingIsNext DEF ReceiveCancel
<1>6. QED
  BY <1>2, <1>3, <1>4, <1>5 DEF Receive

LEMMA ServingIsNext ==
  ASSUME TabInv, NEW s \in Slots, Serve(s)
  PROVE  [Next]_vars
<1>1. RequestOK(requests[s], phase)
  BY DEF TabInv, TabTyped
<1>2. CASE ServeRead(s) \/ CancelDone(s) \/ Refuse(s) \/ Unreachable(s)
  BY <1>2 DEF ServeRead, CancelDone, Refuse, Unreachable
<1>3. CASE ServeStart(s)
  BY <1>3 DEF ServeStart, Next, Requests
<1>4. CASE ServeResume(s)
  <2>1. requests[s].kind = "resume" /\ ResumeRun(requests[s].run)
    BY <1>4 DEF ServeResume, Sent
  <2>2. requests[s].run \in Runs
    BY <1>1, <2>1 DEF RequestOK, Exists
  <2>3. QED
    BY <2>1, <2>2 DEF Next, Requests
<1>5. CASE ServeCancel(s)
  <2>1. requests[s].kind = "cancel" /\ (CancelPaused(requests[s].run) \/ AbortRun(requests[s].run))
    BY <1>5 DEF ServeCancel, Sent
  <2>2. requests[s].run \in Runs
    BY <1>1, <2>1 DEF RequestOK, Exists
  <2>3. QED
    BY <2>1, <2>2 DEF Next, Requests
<1>6. QED
  BY <1>2, <1>3, <1>4, <1>5 DEF Serve

LEMMA TabIsNext ==
  ASSUME TabInv, [StoreNext]_allVars
  PROVE  [Next]_vars
<1>1. CASE User
  BY <1>1 DEF User, Reload, ClickStart, ClickResume, ClickCancel
<1>2. CASE Show
  BY <1>2 DEF Show, Next, Browser
<1>3. CASE HangUp
  BY <1>3, ClosingIsNext DEF HangUp, TabInv
<1>4. CASE DropAndPoll \/ ConnectFails
  BY <1>4 DEF DropAndPoll, ConnectFails, Next
<1>5. CASE Executor \/ Connect \/ Crash \/ Boot \/ OtherTabs
  BY <1>5 DEF OtherTabs, Next
<1>6. CASE UNCHANGED allVars
  BY <1>6 DEF allVars
<1>7. QED
  BY <1>1, <1>2, <1>3, <1>4, <1>5, <1>6, ReceivingIsNext, ServingIsNext DEF StoreNext, StoreStep

-------------------------------------------------------------------------------
(* What the tab shows and has asked.                                         *)

LEMMA UserKeeps ==
  ASSUME TabInv, User, Grows, orderly' \in BOOLEAN
  PROVE  TabTyped'
<1>1. TabTyped
  BY DEF TabInv
<1>2. view' = view /\ RowOK(view', phase')
  BY <1>1, RowKept DEF User, Reload, ClickStart, ClickResume, ClickCancel, TabTyped
<1>3. view.phase \in Open => Exists(view.run, phase) /\ view.run \in Runs
  BY <1>1 DEF TabTyped, RowOK, Exists, NoView, Open
<1>4. view.phase \in Open => Exists(view.run, phase')
  BY <1>3 DEF Exists, Grows
<1>5. PICK s \in Slots, kind \in {"list", "start", "resume", "cancel"}, r \in Runs \cup {NoRun} :
        /\ requests' = [requests EXCEPT ![s] = Request(kind, r)]
        /\ kind \in {"resume", "cancel"} => r = view.run /\ view.phase \in Open
  <2>1. CASE Reload
    BY <2>1 DEF Reload, Put
  <2>2. CASE ClickStart
    BY <2>2 DEF ClickStart, Put
  <2>3. CASE ClickResume
    BY <1>3, <2>3 DEF ClickResume, Put, Open
  <2>4. CASE ClickCancel
    BY <1>3, <2>4 DEF ClickCancel, Put
  <2>5. QED
    BY <2>1, <2>2, <2>3, <2>4 DEF User
<1>6. RequestOK(Request(kind, r), phase')
  BY <1>4, <1>5, RequestSentOK DEF Kinds
<1>7. QED
  BY <1>1, <1>2, <1>5, <1>6, PutKeeps

\* An answer that tells of a run there is, or that there is none.
LEMMA AnswerKeeps ==
  ASSUME TabInv, Grows, orderly' \in BOOLEAN, view' = view, NEW s \in Slots,
         NEW row, RowOK(row, phase'), requests[s].kind # "none",
         requests[s].kind = "list" \/ Exists(row.run, phase'), Answer(s, row)
  PROVE  TabTyped'
<1>1. TabTyped /\ row \in Rows
  BY DEF TabInv, RowOK
<1>2. PICK request \in Asked :
        /\ requests' = [requests EXCEPT ![s] = request]
        /\ request.kind = requests[s].kind /\ request.run = requests[s].run
        /\ request.state = "answered" /\ request.answer = row
  BY <1>1, AnswerPuts
<1>3. RequestOK(requests[s], phase')
  BY <1>1, RequestKept DEF TabTyped
<1>4. RequestOK(request, phase')
  BY <1>2, <1>3 DEF RequestOK
<1>5. RowOK(view', phase')
  BY <1>1, RowKept DEF TabTyped
<1>6. QED
  BY <1>1, <1>2, <1>4, <1>5, PutKeeps

LEMMA RowOfOK ==
  ASSUME NEW r \in Runs, NEW rows \in [Runs -> Phases \cup {"none"}], rows[r] # "none", NEW n \in Int
  PROVE  /\ RowOK([run |-> r, phase |-> rows[r], done |-> n], rows)
         /\ Exists(r, rows)
BY DEF RowOK, Rows, Exists

LEMMA ActiveOK ==
  ASSUME RowsTyped
  PROVE  RowOK(ActiveRow, phase)
<1>1. CASE \E r \in Runs : phase[r] \in Open
  <2> DEFINE p == CHOOSE r \in Runs : phase[r] \in Open
  <2>1. p \in Runs /\ phase[p] \in Open
    BY <1>1
  <2> HIDE DEF p
  <2>2. RowOK([run |-> p, phase |-> phase[p], done |-> done[p]], phase)
    <3>1. phase[p] # "none" /\ done[p] \in Int
      BY <2>1 DEF RowsTyped, Open
    <3>2. QED
      BY <2>1, <3>1, RowOfOK DEF RowsTyped
  <2>3. p # NoRun
    BY <2>1 DEF Runs, NoRun
  <2>4. ActiveRow = [run |-> p, phase |-> phase[p], done |-> done[p]]
    BY <1>1, <2>3 DEF ActiveRow, RowOf, p
  <2>5. QED
    BY <2>2, <2>4
<1>2. CASE ~\E r \in Runs : phase[r] \in Open
  BY <1>2, NoViewOK DEF ActiveRow
<1>3. QED
  BY <1>1, <1>2

LEMMA ServingKeeps ==
  ASSUME TabInv, NEW s \in Slots, Serve(s), Grows, RowsTyped', orderly' \in BOOLEAN
  PROVE  TabTyped'
<1>1. TabTyped /\ RequestOK(requests[s], phase) /\ RowsTyped
  BY DEF TabInv, TabTyped, BusInv
<1>2. view' = view /\ RowOK(view', phase')
  BY <1>1, RowKept DEF Serve, ServeRead, ServeStart, ServeResume, ServeCancel, CancelDone, Refuse, Unreachable, TabTyped
\* The row of r, as the step leaves it.
<1>3. ASSUME NEW r \in Runs, phase'[r] # "none", NEW row,
             row = [run |-> r, phase |-> phase'[r], done |-> done'[r]]
      PROVE  RowOK(row, phase') /\ Exists(row.run, phase')
  <2>1. phase' \in [Runs -> Phases \cup {"none"}] /\ done'[r] \in Int
    BY <1>1 DEF RowsTyped
  <2>2. QED
    BY <1>3, <2>1, RowOfOK
<1>4. CASE ServeRead(s)
  <2>1. /\ requests[s].kind \in {"list", "detail", "poll"} /\ UNCHANGED <<phase, done>>
        /\ Answer(s, IF requests[s].kind = "list" THEN ActiveRow ELSE RowOf(requests[s].run))
    BY <1>4 DEF ServeRead, Sent, vars, serverVars, runVars
  <2>2. CASE requests[s].kind = "list"
    BY <1>1, <1>2, <2>1, <2>2, ActiveOK, AnswerKeeps
  <2>3. CASE requests[s].kind # "list"
    <3>1. Exists(requests[s].run, phase) /\ requests[s].run # NoRun
      BY <1>1, <2>1, <2>3 DEF RequestOK, Exists, Runs, NoRun
    <3>2. RowOf(requests[s].run) = [run |-> requests[s].run, phase |-> phase'[requests[s].run], done |-> done'[requests[s].run]]
      BY <2>1, <3>1 DEF RowOf
    <3>3. RowOK(RowOf(requests[s].run), phase') /\ Exists(RowOf(requests[s].run).run, phase')
      BY <1>3, <2>1, <3>1, <3>2 DEF Exists
    <3>4. QED
      BY <1>2, <2>1, <2>3, <3>3, AnswerKeeps
  <2>4. QED
    BY <2>2, <2>3
<1>5. CASE ServeStart(s)
  <2>1. PICK r \in Runs : StartRun(r) /\ Answer(s, NewRow(r))
    BY <1>5 DEF ServeStart
  <2>2. phase'[r] = "running" /\ requests[s].kind = "start"
    BY <1>1, <1>5, <2>1 DEF StartRun, SetPhase, RowsTyped, ServeStart, Sent
  <2>3. RowOK(NewRow(r), phase') /\ Exists(NewRow(r).run, phase')
    BY <1>3, <2>2 DEF NewRow
  <2>4. QED
    BY <1>2, <2>1, <2>2, <2>3, AnswerKeeps
<1>6. ASSUME ServeResume(s) \/ ServeCancel(s), Answer(s, NewRow(requests[s].run)) PROVE TabTyped'
  <2>1. requests[s].kind \in {"resume", "cancel"}
    BY <1>6 DEF ServeResume, ServeCancel, Sent
  <2>2. requests[s].run \in Runs /\ phase'[requests[s].run] # "none"
    BY <1>1, <2>1 DEF RequestOK, Exists, Grows
  <2>3. RowOK(NewRow(requests[s].run), phase') /\ Exists(NewRow(requests[s].run).run, phase')
    BY <1>3, <2>2 DEF NewRow
  <2>4. QED
    BY <1>2, <1>6, <2>1, <2>3, AnswerKeeps
<1>7. ASSUME ServeCancel(s), requests' = [requests EXCEPT ![s].state = "waiting"] PROVE TabTyped'
  <2> DEFINE request == [requests[s] EXCEPT !.state = "waiting"]
  <2>1. requests[s] \in Asked /\ requests[s].kind = "cancel"
    BY <1>1, <1>7 DEF ServeCancel, Sent, RequestOK
  <2>2. /\ request \in Asked /\ request.kind = requests[s].kind /\ request.run = requests[s].run
        /\ request.state = "waiting" /\ request.answer = requests[s].answer
    BY <2>1 DEF Asked
  <2>3. requests' = [requests EXCEPT ![s] = request]
    BY <1>1, <1>7 DEF TabTyped
  <2> HIDE DEF request
  <2>4. RequestOK(requests[s], phase')
    BY <1>1, RequestKept
  <2>5. RequestOK(request, phase')
    BY <2>1, <2>2, <2>4 DEF RequestOK
  <2>6. QED
    BY <1>1, <1>2, <2>3, <2>5, PutKeeps
<1>8. CASE CancelDone(s)
  <2>1. UNCHANGED <<phase, done>> /\ requests[s].state = "waiting" /\ Answer(s, RowOf(requests[s].run))
    BY <1>8 DEF CancelDone, vars, serverVars, runVars
  <2>2. requests[s].kind = "cancel"
    BY <1>1, <2>1 DEF RequestOK, NoRequest
  <2>3. Exists(requests[s].run, phase) /\ requests[s].run # NoRun
    BY <1>1, <2>2 DEF RequestOK, Exists, Runs, NoRun
  <2>4. RowOf(requests[s].run) = [run |-> requests[s].run, phase |-> phase'[requests[s].run], done |-> done'[requests[s].run]]
    BY <2>1, <2>3 DEF RowOf
  <2>5. RowOK(RowOf(requests[s].run), phase') /\ Exists(RowOf(requests[s].run).run, phase')
    BY <1>3, <2>1, <2>3, <2>4 DEF Exists
  <2>6. QED
    BY <1>2, <2>1, <2>2, <2>5, AnswerKeeps
<1>9. CASE Refuse(s) \/ Unreachable(s)
  BY <1>1, <1>2, <1>9, NoRequestOK, PutKeeps DEF Refuse, Unreachable, Put
<1>10. QED
  BY <1>4, <1>5, <1>6, <1>7, <1>8, <1>9 DEF Serve, ServeResume, ServeCancel

LEMMA ReceivingKeeps ==
  ASSUME TabInv, NEW s \in Slots, Receive(s), Grows, orderly' \in BOOLEAN
  PROVE  TabTyped'
<1>1. TabTyped /\ RequestOK(requests[s], phase)
  BY DEF TabInv, TabTyped
<1>2. view' = requests[s].answer
  BY DEF Receive, ReceiveList, ReceiveDetail, ReceivePoll, ReceiveLaunch, ReceiveCancel
<1>3. RowOK(view', phase')
  BY <1>1, <1>2, RowKept DEF RequestOK
<1>4. CASE ReceiveList(s)
  <2>1. requests' = [requests EXCEPT ![s] = IF view' = NoView THEN NoRequest ELSE Request("detail", view'.run)]
    BY <1>4 DEF ReceiveList, Put
  <2>2. CASE view' = NoView
    BY <1>1, <1>3, <2>1, <2>2, NoRequestOK, PutKeeps
  <2>3. CASE view' # NoView
    <3>1. Exists(view'.run, phase') /\ view'.run \in Runs
      BY <1>3, <2>3 DEF RowOK, Exists
    <3>2. RequestOK(Request("detail", view'.run), phase')
      BY <3>1, RequestSentOK DEF Kinds
    <3>3. QED
      BY <1>1, <1>3, <2>1, <2>3, <3>2, PutKeeps
  <2>4. QED
    BY <2>2, <2>3
<1>5. CASE ReceiveCancel(s)
  <2>1. RequestOK(Request("list", NoRun), phase')
    BY RequestSentOK DEF Kinds
  <2>2. QED
    BY <1>1, <1>3, <1>5, <2>1, PutKeeps DEF ReceiveCancel, Put
<1>6. CASE ReceiveDetail(s) \/ ReceivePoll(s) \/ ReceiveLaunch(s)
  BY <1>1, <1>3, <1>6, NoRequestOK, PutKeeps DEF ReceiveDetail, ReceivePoll, ReceiveLaunch, Put
<1>7. QED
  BY <1>4, <1>5, <1>6 DEF Receive

\* What is on the wire tells of a run there is.
LEMMA HeadOK ==
  ASSUME BusInv, wire # <<>>, Grows, RowsTyped'
  PROVE  RowOK(Told(Head(wire)), phase') /\ Head(wire) \in Frames /\ source = "open"
<1>1. source = "open" /\ follows \in Runs /\ phase[follows] # "none" /\ InOrder(wire, follows, sequence)
  BY DEF BusInv, SourceOK, BusOK
<1>2. wire[1] \in Frames /\ Head(wire) = wire[1] /\ 1 \in DOMAIN wire
  BY <1>1 DEF InOrder
<1>3. wire[1].run = follows /\ wire[1].phase \in Phases /\ wire[1].done \in Int
  BY <1>1, <1>2 DEF InOrder, Frames
<1>4. phase' \in [Runs -> Phases \cup {"none"}] /\ phase'[follows] # "none"
  BY <1>1 DEF RowsTyped, Grows
<1>5. QED
  BY <1>1, <1>2, <1>3, <1>4, ToldOK DEF Told

LEMMA TabStep ==
  ASSUME TabInv, [StoreNext]_allVars
  PROVE  TabInv'
<1>1. BusInv /\ TabTyped /\ Lined
  BY DEF TabInv
<1>2. BusInv' /\ Lined' /\ Grows
  BY <1>1, TabIsNext, BusStep, ServerMoves
<1>3. RowsTyped'
  BY <1>2 DEF BusInv
<1>4. orderly' \in BOOLEAN
  BY <1>1 DEF StoreNext, Track, allVars, storeVars, TabTyped
<1>5. RowOK(view, phase')
  BY <1>1, <1>2, RowKept DEF TabTyped
<1> SUFFICES TabTyped'
  BY <1>2 DEF TabInv
<1>6. CASE UNCHANGED allVars
  BY <1>1, <1>2, <1>4, <1>5, <1>6, NothingPut DEF allVars, storeVars
<1>7. CASE (Executor \/ Connect \/ Crash \/ Boot \/ Requests) /\ UNCHANGED <<view, requests>>
  BY <1>1, <1>2, <1>4, <1>5, <1>7, NothingPut
<1>8. ASSUME wire # <<>>, view' = view \/ view' = Told(Head(wire)) PROVE RowOK(view', phase')
  BY <1>1, <1>2, <1>3, <1>5, <1>8, HeadOK
<1>9. CASE Show
  BY <1>1, <1>2, <1>4, <1>8, <1>9, NothingPut DEF Show
<1>10. CASE HangUp
  <2>1. RequestOK(Request("list", NoRun), phase')
    BY RequestSentOK DEF Kinds
  <2>2. QED
    BY <1>1, <1>2, <1>4, <1>8, <1>10, <2>1, PutKeeps DEF HangUp, Put
<1>11. CASE DropAndPoll \/ ConnectFails
  <2>1. source # "closed" /\ view' = view /\ Poll
    BY <1>11 DEF DropAndPoll, ConnectFails, Drop
  <2>2. follows \in Runs /\ Exists(follows, phase')
    BY <1>1, <1>2, <2>1 DEF BusInv, SourceOK, Exists, Grows
  <2>3. RequestOK(Request("poll", follows), phase')
    BY <2>2, RequestSentOK DEF Kinds
  <2>4. QED
    BY <1>1, <1>2, <1>4, <1>5, <2>1, <2>3, PutKeeps DEF Poll, Put
<1>12. CASE User
  BY <1>2, <1>4, <1>12, UserKeeps
<1>13. ASSUME NEW s \in Slots, Serve(s) \/ Receive(s) PROVE TabTyped'
  BY <1>2, <1>3, <1>4, <1>13, ServingKeeps, ReceivingKeeps
<1>14. QED
  BY <1>6, <1>7, <1>9, <1>10, <1>11, <1>12, <1>13 DEF StoreNext, StoreStep, OtherTabs

LEMMA TabStart ==
  ASSUME StoreInit
  PROVE  TabInv
<1>1. BusInv
  BY BusStart DEF StoreInit
<1>2. Lined
  BY DEF StoreInit, Init, Lined
<1>3. NoRequest \in Asked
  BY NoRequestOK DEF RequestOK
<1>4. TabTyped
  BY <1>3, NoViewOK, NoRequestOK DEF StoreInit, TabTyped
<1>5. QED
  BY <1>1, <1>2, <1>4 DEF TabInv

\* What the tab shows and has asked tells of runs there are, and the runs come
\* one after the other.
THEOREM TabInvariant == StoreSpec => []TabInv
<1>1. QED
  BY TabStart, TabStep, PTL DEF StoreSpec

\* Every behaviour of the tab and its server is one of the server and an
\* EventSource: what the tab does is what a user of the stream may do.
THEOREM TabUsesTheStream == StoreSpec => Spec
<1>1. StoreInit => Init
  BY DEF StoreInit
<1>2. TabInv /\ [StoreNext]_allVars => [Next]_vars
  BY TabIsNext
<1>3. QED
  BY <1>1, <1>2, TabInvariant, PTL DEF StoreSpec, Spec

\* So no frame falls through for the tab either.
THEOREM TabMissesNothing == StoreSpec => []NothingMissed
<1>1. QED
  BY TabUsesTheStream, StreamMissesNothing, PTL

-------------------------------------------------------------------------------
(* Without faults a run that is shown as running is followed.                *)

\* What an answer changes of the requests.
LEMMA AnswerChanges ==
  ASSUME TabTyped, NEW s \in Slots, NEW row, Answer(s, row)
  PROVE  /\ \A t \in Slots \ {s} : requests'[t] = requests[t]
         /\ requests'[s].kind = requests[s].kind /\ requests'[s].run = requests[s].run
         /\ requests'[s].state = "answered" /\ requests'[s].answer = row
<1> DEFINE request == [requests[s] EXCEPT !.state = "answered", !.answer = row]
<1>1. requests[s] \in Asked
  BY DEF TabTyped
<1>2. /\ request.state = "answered" /\ request.answer = row
      /\ request.kind = requests[s].kind /\ request.run = requests[s].run
  BY <1>1 DEF Asked
<1>3. requests' = [requests EXCEPT ![s] = request]
  <2>1. requests' = [[requests EXCEPT ![s] = [requests[s] EXCEPT !.state = "answered"]]
                       EXCEPT ![s] = [requests[s] EXCEPT !.state = "answered", !.answer = row]]
    BY DEF Answer, TabTyped
  <2>2. QED
    BY <2>1 DEF TabTyped
<1> HIDE DEF request
<1>4. QED
  BY <1>2, <1>3 DEF TabTyped

LEMMA PutChanges ==
  ASSUME TabTyped, NEW s \in Slots, NEW request, Put(s, request)
  PROVE  requests'[s] = request /\ \A t \in Slots \ {s} : requests'[t] = requests[t]
BY DEF Put, TabTyped

LEMMA WaitChanges ==
  ASSUME TabTyped, NEW s \in Slots, requests' = [requests EXCEPT ![s].state = "waiting"]
  PROVE  /\ \A t \in Slots \ {s} : requests'[t] = requests[t]
         /\ requests'[s].kind = requests[s].kind /\ requests'[s].state = "waiting"
<1>1. requests[s] \in Asked
  BY DEF TabTyped
<1>2. requests'[s] = [requests[s] EXCEPT !.state = "waiting"]
  BY DEF TabTyped
<1>3. QED
  BY <1>1, <1>2 DEF Asked, TabTyped

\* What the process does for one request.
LEMMA RequestMoves ==
  ASSUME Requests
  PROVE  up' = up /\ source' = source
BY DEF Requests, StartRun, ResumeRun, CancelPaused, AbortRun, Publish, sourceVars

LEMMA StaysUp ==
  ASSUME BusInv, [Next]_vars, up = TRUE, ~Crashes
  PROVE  up' = TRUE
BY ExecutorMoves, RequestMoves DEF Next, Connect, Browser, Drop, Crash, Boot, vars, serverVars

\* What serving a request does to it and to the tab.
LEMMA ServingChanges ==
  ASSUME TabInv, up = TRUE, NEW s \in Slots, Serve(s)
  PROVE  /\ view' = view /\ source' = source
         /\ \A t \in Slots \ {s} : requests'[t] = requests[t]
         /\ requests[s] # NoRequest
         /\ \/ /\ ServeRead(s) /\ UNCHANGED vars
               /\ requests[s].kind \in {"list", "detail", "poll"}
               /\ requests'[s].kind = requests[s].kind /\ requests'[s].run = requests[s].run
               /\ requests'[s].answer = (IF requests[s].kind = "list" THEN ActiveRow ELSE RowOf(requests[s].run))
            \/ /\ requests[s].kind \in {"start", "resume", "cancel"}
               /\ requests'[s].kind = requests[s].kind /\ requests'[s].state \in {"waiting", "answered"}
            \/ /\ Unserved(requests[s]) /\ requests'[s] = NoRequest /\ UNCHANGED vars
<1>1. TabTyped /\ RequestOK(requests[s], phase)
  BY DEF TabInv, TabTyped
<1>2. NoRequest.kind = "none"
  BY DEF NoRequest
<1>3. CASE ServeRead(s)
  <2>1. /\ requests[s].kind \in {"list", "detail", "poll"} /\ UNCHANGED <<vars, view>>
        /\ Answer(s, IF requests[s].kind = "list" THEN ActiveRow ELSE RowOf(requests[s].run))
    BY <1>3 DEF ServeRead, Sent
  <2>2. source' = source /\ UNCHANGED vars
    BY <2>1 DEF vars, sourceVars
  <2>3. QED
    BY <1>1, <1>2, <1>3, <2>1, <2>2, AnswerChanges
<1>4. CASE ServeStart(s)
  <2>1. PICK r \in Runs : StartRun(r) /\ Answer(s, NewRow(r))
    BY <1>4 DEF ServeStart
  <2>2. requests[s].kind = "start" /\ view' = view /\ source' = source
    BY <1>4, <2>1 DEF ServeStart, Sent, StartRun, Publish
  <2>3. QED
    BY <1>1, <1>2, <2>1, <2>2, AnswerChanges
<1>5. CASE ServeResume(s)
  <2>1. ResumeRun(requests[s].run) /\ Answer(s, NewRow(requests[s].run))
    BY <1>5 DEF ServeResume
  <2>2. requests[s].kind = "resume" /\ view' = view /\ source' = source
    BY <1>5, <2>1 DEF ServeResume, Sent, ResumeRun, Publish
  <2>3. QED
    BY <1>1, <1>2, <2>1, <2>2, AnswerChanges
<1>6. CASE ServeCancel(s)
  <2>1. requests[s].kind = "cancel" /\ view' = view
    BY <1>6 DEF ServeCancel, Sent
  <2>2. CASE CancelPaused(requests[s].run) /\ Answer(s, NewRow(requests[s].run))
    <3>1. source' = source
      BY <2>2 DEF CancelPaused, Publish
    <3>2. QED
      BY <1>1, <1>2, <2>1, <2>2, <3>1, AnswerChanges
  <2>3. CASE AbortRun(requests[s].run) /\ requests' = [requests EXCEPT ![s].state = "waiting"]
    <3>1. source' = source
      BY <2>3 DEF AbortRun, sourceVars
    <3>2. QED
      BY <1>1, <1>2, <2>1, <2>3, <3>1, WaitChanges
  <2>4. QED
    BY <1>6, <2>2, <2>3 DEF ServeCancel
<1>7. CASE CancelDone(s)
  <2>1. /\ requests[s].state = "waiting" /\ UNCHANGED <<vars, view>> /\ source' = source
        /\ Answer(s, RowOf(requests[s].run))
    BY <1>7 DEF CancelDone, vars, sourceVars
  <2>2. requests[s].kind = "cancel"
    BY <1>1, <2>1 DEF RequestOK
  <2>3. QED
    BY <1>1, <1>2, <2>1, <2>2, AnswerChanges
<1>8. CASE Refuse(s)
  <2>1. /\ Unserved(requests[s]) /\ Put(s, NoRequest) /\ UNCHANGED <<vars, view>> /\ source' = source
    BY <1>8 DEF Refuse, Sent, Unserved, vars, sourceVars
  <2>2. requests[s] # NoRequest
    BY <1>2, <2>1 DEF Unserved
  <2>3. QED
    BY <1>1, <2>1, <2>2, PutChanges
<1>9. ~Unreachable(s)
  BY DEF Unreachable
<1>10. QED
  BY <1>3, <1>4, <1>5, <1>6, <1>7, <1>8, <1>9 DEF Serve

LEMMA FollowedStep ==
  ASSUME TabInv, Followed, ~Drops, ~Crashes, [StoreNext]_allVars
  PROVE  Followed'
<1>1. BusInv /\ TabTyped /\ up = TRUE /\ up' = TRUE
  BY TabIsNext, StaysUp DEF TabInv, Followed
<1> DEFINE Loads(kind) == kind \in {"list", "detail"}
<1> SUFFICES /\ \A s \in Slots : requests'[s].kind # "poll"
             /\ view'.phase = "running" /\ source' = "closed" => \E s \in Slots : Loads(requests'[s].kind)
  BY <1>1 DEF Followed
<1>2. /\ \A s \in Slots : requests[s].kind # "poll"
      /\ view.phase = "running" /\ source = "closed" => \E s \in Slots : Loads(requests[s].kind)
  BY DEF Followed
<1> HIDE DEF Loads
<1>3. ~Loads("start") /\ ~Loads("resume") /\ ~Loads("cancel") /\ ~Loads("none") /\ Loads("list") /\ Loads("detail")
  BY DEF Loads
<1>4. CASE UNCHANGED <<view, requests, source>>
  BY <1>2, <1>4
<1>5. CASE UNCHANGED allVars
  BY <1>4, <1>5 DEF allVars, storeVars, vars, sourceVars
<1>6. CASE (Executor \/ Requests) /\ UNCHANGED <<view, requests>>
  BY <1>1, <1>4, <1>6, ExecutorMoves, RequestMoves
<1>7. CASE Connect /\ UNCHANGED <<view, requests>>
  BY <1>2, <1>7 DEF Connect
<1>8. ~Crash /\ ~Boot /\ ~DropAndPoll /\ ~ConnectFails
  BY <1>1 DEF Crash, Boot, DropAndPoll, Drop, ConnectFails
<1>9. CASE User
  <2>1. PICK s \in Slots, kind \in {"list", "start", "resume", "cancel"}, r \in {NoRun, view.run} :
          Free(s) /\ Put(s, Request(kind, r)) /\ UNCHANGED <<view, source>>
    BY <1>9 DEF User, Reload, ClickStart, ClickResume, ClickCancel, NextFree, vars, sourceVars
  <2>2. requests'[s].kind = kind /\ \A t \in Slots \ {s} : requests'[t] = requests[t]
    BY <1>1, <2>1, PutChanges DEF Request
  <2>3. requests[s].kind = "none"
    BY <2>1 DEF Free, NoRequest
  <2>4. QED
    BY <1>2, <1>3, <2>1, <2>2, <2>3
<1>10. ASSUME NEW s \in Slots, Serve(s)
       PROVE  /\ \A t \in Slots : requests'[t].kind # "poll"
              /\ view'.phase = "running" /\ source' = "closed" => \E t \in Slots : Loads(requests'[t].kind)
  <2>1. view' = view /\ source' = source
    BY <1>1, <1>10, ServingChanges
  <2>2. \A t \in Slots : requests'[t].kind = requests[t].kind \/ (t = s /\ ~Loads(requests[s].kind) /\ requests'[s].kind = "none")
    <3>1. NoRequest.kind = "none"
      BY DEF NoRequest
    <3>2. QED
      BY <1>1, <1>3, <1>10, <3>1, ServingChanges DEF Unserved
  <2>3. QED
    BY <1>2, <1>3, <2>1, <2>2
<1>11. ASSUME NEW s \in Slots, Receive(s)
       PROVE  /\ \A t \in Slots : requests'[t].kind # "poll"
              /\ view'.phase = "running" /\ source' = "closed" => \E t \in Slots : Loads(requests'[t].kind)
  <2>1. NoRequest.kind = "none" /\ Request("list", NoRun).kind = "list" /\ NoView.phase = "none"
        /\ \A r : Request("detail", r).kind = "detail"
    BY DEF NoRequest, Request, NoView
  <2>2. CASE ReceiveList(s)
    BY <1>1, <1>2, <1>3, <2>1, <2>2, PutChanges DEF ReceiveList
  <2>3. CASE ReceiveDetail(s)
    <3>1. view'.phase = "running" => source' = "connecting"
      BY <2>3 DEF ReceiveDetail, OpenSource
    <3>2. \A t \in Slots : requests'[t].kind # "poll"
      BY <1>1, <1>2, <2>1, <2>3, PutChanges DEF ReceiveDetail
    <3>3. QED
      BY <3>1, <3>2
  <2>4. ~ReceivePoll(s)
    BY <1>2 DEF ReceivePoll, Answered
  <2>5. CASE ReceiveLaunch(s)
    <3>1. source' = "connecting"
      BY <2>5 DEF ReceiveLaunch, OpenSource
    <3>2. \A t \in Slots : requests'[t].kind # "poll"
      BY <1>1, <1>2, <2>1, <2>5, PutChanges DEF ReceiveLaunch
    <3>3. QED
      BY <3>1, <3>2
  <2>6. CASE ReceiveCancel(s)
    BY <1>1, <1>2, <1>3, <2>1, <2>6, PutChanges DEF ReceiveCancel
  <2>7. QED
    BY <1>11, <2>2, <2>3, <2>4, <2>5, <2>6 DEF Receive
<1>12. CASE Show
  <2>1. source = "open" /\ source' = source /\ requests' = requests
    BY <1>12 DEF Show, TakeFrame, TabInv, BusInv, SourceOK
  <2>2. QED
    BY <1>2, <2>1
<1>13. CASE HangUp
  <2>1. PICK s \in Slots : Put(s, Request("list", NoRun))
    BY <1>13 DEF HangUp
  <2>2. requests'[s].kind = "list" /\ \A t \in Slots \ {s} : requests'[t] = requests[t]
    BY <1>1, <2>1, PutChanges DEF Request
  <2>3. QED
    BY <1>2, <1>3, <2>2
<1>14. QED
  BY <1>5, <1>6, <1>7, <1>8, <1>9, <1>10, <1>11, <1>12, <1>13 DEF StoreNext, StoreStep, OtherTabs

\* A tab that shows a run as running has a stream or a request that will tell
\* how it goes on, if the connection holds and the process lives.
THEOREM ProgressIsFollowed ==
  ASSUME ~Drops, ~Crashes
  PROVE  StoreSpec => []RunningIsFollowed
<1>1. StoreInit => Followed
  <2>1. NoRequest.kind # "poll" /\ NoView.phase # "running"
    BY DEF NoRequest, NoView
  <2>2. QED
    BY <2>1 DEF StoreInit, Init, Followed
<1>2. TabInv /\ Followed /\ [StoreNext]_allVars => Followed'
  BY FollowedStep
<1>3. TabInv /\ Followed => RunningIsFollowed
  <2>1. NoRequest.kind = "none"
    BY DEF NoRequest
  <2>2. QED
    BY <2>1 DEF Followed, RunningIsFollowed, InFlight, Free, TabInv, BusInv, SourceOK
<1>4. StoreSpec => []Followed
  BY <1>1, <1>2, TabInvariant, PTL DEF StoreSpec
<1>5. QED
  BY <1>3, <1>4, TabInvariant, PTL

-------------------------------------------------------------------------------
(* A tab with one request at a time.                                         *)

LEMMA ActiveIs ==
  ASSUME Lined, RowsTyped
  PROVE  /\ \A r \in Runs : phase[r] \in Open => ActiveRow = RowOf(r)
         /\ (\A r \in Runs : phase[r] \notin Open) => ActiveRow = NoView
         /\ OnlyOpen(ActiveRow.run, phase)
<1>1. ASSUME NEW q \in Runs, NEW r \in Runs, phase[q] \in Open, phase[r] \in Open PROVE q = r
  <2>1. q \in Int /\ r \in Int
    BY DEF Runs
  <2>2. phase[q] # "none" /\ phase[q] \notin Closed /\ phase[r] # "none" /\ phase[r] \notin Closed
    BY <1>1 DEF Open, Closed
  <2>3. ~(q < r) /\ ~(r < q)
    BY <2>2 DEF Lined
  <2>4. QED
    BY <2>1, <2>3
<1>2. ASSUME NEW r \in Runs, phase[r] \in Open PROVE ActiveRow = RowOf(r)
  <2> DEFINE p == CHOOSE q \in Runs : phase[q] \in Open
  <2>1. p \in Runs /\ phase[p] \in Open /\ ActiveRow = RowOf(p)
    BY <1>2 DEF ActiveRow
  <2> HIDE DEF p
  <2>2. p = r
    BY <1>1, <1>2, <2>1
  <2>3. QED
    BY <2>1, <2>2
<1>3. (\A r \in Runs : phase[r] \notin Open) => ActiveRow = NoView
  BY DEF ActiveRow
<1>4. ASSUME NEW r \in Runs, phase[r] \in Open PROVE r = ActiveRow.run
  <2>1. r # NoRun
    BY DEF Runs, NoRun
  <2>2. QED
    BY <1>2, <1>4, <2>1 DEF RowOf
<1>5. QED
  BY <1>2, <1>3, <1>4 DEF OnlyOpen

LEMMA ActiveKept ==
  ASSUME phase' = phase, done' = done
  PROVE  ActiveRow' = ActiveRow
BY DEF ActiveRow, RowOf

\* At most one request is in flight, if they are counted so.
LEMMA CountedAlone ==
  ASSUME NEW inFlight, Cardinality({s \in Slots : inFlight[s] # NoRequest}) <= 1
  PROVE  Alone(inFlight)
<1> DEFINE busy == {s \in Slots : inFlight[s] # NoRequest}
<1>1. IsFiniteSet(Slots)
  BY FS_Interval DEF Slots
<1>2. IsFiniteSet(busy)
  BY <1>1, FS_Subset
<1>3. ASSUME NEW s \in busy, NEW t \in busy, s # t PROVE FALSE
  <2>1. IsFiniteSet({s}) /\ Cardinality({s}) = 1
    BY FS_Singleton
  <2>2. Cardinality({s} \cup {t}) = 2
    <3>1. t \notin {s} /\ 1 + 1 = 2
      BY <1>3
    <3>2. Cardinality({s} \cup {t}) = Cardinality({s}) + 1
      BY <2>1, <3>1, FS_AddElement, Zenon
    <3>3. QED
      BY <2>1, <3>1, <3>2
  <2>3. {s} \cup {t} \subseteq busy
    OBVIOUS
  <2>4. Cardinality({s} \cup {t}) <= Cardinality(busy)
    BY <1>2, <2>3, FS_Subset
  <2>5. Cardinality(busy) \in Nat /\ Cardinality(busy) <= 1
    BY <1>2, FS_CardinalityType
  <2>6. QED
    BY <2>2, <2>4, <2>5
<1>4. QED
  BY <1>3 DEF Alone

\* What is in flight alone is all there is.
LEMMA OthersFree ==
  ASSUME NEW inFlight, Alone(inFlight), NEW s \in Slots, inFlight[s] # NoRequest
  PROVE  \A t \in Slots \ {s} : inFlight[t] = NoRequest
BY DEF Alone

LEMMA NothingRead ==
  ASSUME NEW request, NEW active, NEW rows,
         request.kind # "detail" /\ (request.kind = "list" => request.state # "answered")
  PROVE  ReadOK(request, active, rows)
BY DEF ReadOK

LEMMA NoRequestRead == \A active, rows : ReadOK(NoRequest, active, rows)
BY DEF ReadOK, NoRequest

\* The rows of the server as they are: what is read of them is true.
LEMMA ReadIsTrue ==
  ASSUME TabInv, NEW r, Exists(r, phase), OnlyOpen(r, phase), RowOf(r).phase # "running"
  PROVE  Settled(RowOf(r), ActiveRow, phase)
<1>1. Lined /\ RowsTyped /\ r \in Runs /\ phase[r] # "none" /\ r # NoRun
  BY DEF TabInv, BusInv, Exists, Runs, NoRun
<1>2. RowOf(r).phase = phase[r] /\ phase[r] \in Phases
  BY <1>1 DEF RowOf, RowsTyped
<1>3. \A q \in Runs : phase[q] # "running"
  BY <1>2 DEF OnlyOpen, Open
<1>4. CASE phase[r] \in Open
  BY <1>1, <1>3, <1>4, ActiveIs DEF Settled
<1>5. CASE phase[r] \notin Open
  <2>1. phase[r] \in Closed
    BY <1>2, <1>5 DEF Phases, Open, Closed
  <2>2. ActiveRow = NoView
    BY <1>1, <1>5, ActiveIs DEF OnlyOpen
  <2>3. QED
    BY <1>2, <1>3, <2>1, <2>2 DEF Settled
<1>6. QED
  BY <1>4, <1>5

LEMMA OrderlyStep ==
  ASSUME TabInv, Followed, Orderly, ~Drops, ~Crashes, [StoreNext]_allVars
  PROVE  Orderly'
<1> DEFINE Before == source = "closed" /\ (\A s \in Slots : Free(s) \/ Unserved(requests[s]))
           After == source' = "closed" /\ (\A s \in Slots : requests'[s] = NoRequest \/ Unserved(requests'[s]))
           Active == ActiveRow'
           Goal == /\ After => Settled(view', Active, phase')
                   /\ \A s \in Slots : ReadOK(requests'[s], Active, phase')
<1>1. SUFFICES ASSUME orderly' PROVE Alone(requests') /\ Goal
  BY DEF Orderly, Free
<1>2. TabTyped /\ BusInv /\ Lined /\ RowsTyped /\ up = TRUE
  BY DEF TabInv, BusInv, Followed
<1>3. orderly
  BY <1>1 DEF StoreNext, Track, allVars, storeVars
<1>4. /\ Alone(requests)
      /\ Before => Settled(view, ActiveRow, phase)
      /\ \A s \in Slots : ReadOK(requests[s], ActiveRow, phase)
  BY <1>3 DEF Orderly
<1>5. CASE UNCHANGED allVars
  <2>1. UNCHANGED <<phase, done, view, requests, source>>
    BY <1>5 DEF allVars, vars, serverVars, runVars, sourceVars, storeVars
  <2>2. Active = ActiveRow
    BY <2>1, ActiveKept
  <2> HIDE DEF Active
  <2>3. QED
    BY <1>4, <2>1, <2>2 DEF Free
<1> SUFFICES ASSUME StoreStep, Track PROVE Alone(requests') /\ Goal
  BY <1>1, <1>5 DEF StoreNext
<1>6. Alone(requests')
  BY <1>1, CountedAlone DEF Track
<1> SUFFICES Goal
  BY <1>6
<1>7. NoRequest.kind = "none" /\ ~Unserved(NoRequest)
  BY DEF NoRequest, Unserved
<1>8. \A kind, r : /\ Request(kind, r).kind = kind /\ Request(kind, r).run = r
                   /\ Request(kind, r).state = "sent"
  BY DEF Request
<1>9. UNCHANGED <<phase, done>> => Active = ActiveRow
  BY ActiveKept
<1>10. UNCHANGED vars => UNCHANGED <<phase, done, source>>
  BY DEF vars, serverVars, runVars, sourceVars
<1>11. UNCHANGED serverVars => UNCHANGED <<phase, done>>
  BY DEF serverVars, runVars
<1> HIDE DEF Active
\* Another request than a load is in flight, and nothing else.
<1>12. ASSUME NEW s \in Slots, requests'[s] # NoRequest,
              requests'[s].kind # "detail" /\ (requests'[s].kind = "list" => requests'[s].state # "answered")
       PROVE  \A t \in Slots : ReadOK(requests'[t], Active, phase')
  <2>1. \A t \in Slots \ {s} : requests'[t] = NoRequest
    BY <1>6, <1>12, OthersFree
  <2>2. QED
    BY <1>12, <2>1, NothingRead, NoRequestRead
<1>13. ~Crash /\ ~Boot /\ ~DropAndPoll /\ ~ConnectFails
  BY <1>2 DEF Crash, Boot, DropAndPoll, Drop, ConnectFails
<1>14. CASE User
  <2>1. PICK s \in Slots, kind \in {"list", "start", "resume", "cancel"}, r \in {NoRun, view.run} :
          Free(s) /\ Put(s, Request(kind, r)) /\ UNCHANGED <<vars, view>>
    BY <1>14 DEF User, Reload, ClickStart, ClickResume, ClickCancel, NextFree
  <2>2. requests'[s] = Request(kind, r) /\ \A t \in Slots \ {s} : requests'[t] = requests[t]
    BY <1>2, <2>1, PutChanges
  <2>3. requests'[s] # NoRequest
    BY <1>7, <1>8, <2>2
  <2>4. \A t \in Slots : ReadOK(requests'[t], Active, phase')
    BY <1>8, <1>12, <2>2, <2>3
  <2>5. \A t \in Slots : Free(t)
    BY <1>6, <2>1, <2>2, <2>3, OthersFree DEF Free
  <2>6. After => Settled(view', Active, phase')
    BY <1>4, <1>9, <1>10, <2>1, <2>5
  <2>7. QED
    BY <2>4, <2>6
<1>15. ASSUME NEW s \in Slots, Serve(s) PROVE Goal
  <2>1. /\ view' = view /\ \A t \in Slots \ {s} : requests'[t] = requests[t]
        /\ requests[s] # NoRequest /\ RequestOK(requests[s], phase)
    BY <1>2, <1>15, ServingChanges DEF TabTyped
  <2>2. \A t \in Slots \ {s} : requests'[t] = NoRequest
    BY <1>4, <2>1, OthersFree
  <2>3. ASSUME ServeRead(s), UNCHANGED vars, requests[s].kind \in {"list", "detail", "poll"},
               requests'[s].kind = requests[s].kind, requests'[s].run = requests[s].run,
               requests'[s].answer = (IF requests[s].kind = "list" THEN ActiveRow ELSE RowOf(requests[s].run))
        PROVE  Goal
    <3>1. ~Unserved(requests'[s]) /\ requests'[s] # NoRequest
      BY <1>7, <2>3 DEF Unserved
    <3>2. Active = ActiveRow /\ phase' = phase
      BY <1>9, <1>10, <2>3
    <3>3. ReadOK(requests'[s], Active, phase')
      <4>1. CASE requests[s].kind = "list"
        BY <1>2, <2>3, <3>2, <4>1, ActiveIs DEF ReadOK
      <4>2. CASE requests[s].kind = "detail"
        <5>1. Exists(requests[s].run, phase) /\ OnlyOpen(requests[s].run, phase)
          BY <1>4, <2>1, <4>2 DEF RequestOK, ReadOK
        <5>2. requests'[s].answer = RowOf(requests[s].run)
          BY <2>3, <4>2
        <5>3. QED
          BY <2>3, <3>2, <4>2, <5>1, <5>2, ReadIsTrue DEF ReadOK
      <4>3. CASE requests[s].kind = "poll"
        BY <2>3, <4>3 DEF ReadOK
      <4>4. QED
        BY <2>3, <4>1, <4>2, <4>3
    <3>4. QED
      BY <2>2, <3>1, <3>3, NoRequestRead
  <2>4. ASSUME requests[s].kind \in {"start", "resume", "cancel"},
               requests'[s].kind = requests[s].kind, requests'[s].state \in {"waiting", "answered"}
        PROVE  Goal
    <3>1. ~Unserved(requests'[s]) /\ requests'[s] # NoRequest
      BY <1>7, <2>4 DEF Unserved
    <3>2. QED
      BY <1>12, <2>4, <3>1
  <2>5. ASSUME Unserved(requests[s]), requests'[s] = NoRequest, UNCHANGED vars
        PROVE  Goal
    <3>1. \A t \in Slots : requests'[t] = NoRequest /\ (Free(t) \/ Unserved(requests[t]))
      BY <2>1, <2>2, <2>5 DEF Free
    <3>2. QED
      BY <1>4, <1>9, <1>10, <2>1, <2>5, <3>1, NoRequestRead
  <2>6. QED
    BY <1>2, <1>15, <2>3, <2>4, <2>5, ServingChanges
<1>16. ASSUME NEW s \in Slots, Receive(s) PROVE Goal
  <2>1. /\ view' = requests[s].answer /\ requests[s].state = "answered" /\ requests[s] # NoRequest
        /\ RequestOK(requests[s], phase) /\ ReadOK(requests[s], ActiveRow, phase)
    BY <1>2, <1>4, <1>7, <1>16 DEF Receive, ReceiveList, ReceiveDetail, ReceivePoll, ReceiveLaunch, ReceiveCancel, Answered, TabTyped
  <2>2. \A t \in Slots \ {s} : requests[t] = NoRequest
    BY <1>4, <2>1, OthersFree
  <2>3. ASSUME NEW request, Put(s, request)
        PROVE  requests'[s] = request /\ \A t \in Slots \ {s} : requests'[t] = NoRequest
    BY <1>2, <2>2, <2>3, PutChanges
  <2>4. ASSUME Put(s, NoRequest) PROVE \A t \in Slots : ReadOK(requests'[t], Active, phase')
    BY <2>3, <2>4, NoRequestRead
  <2>5. CASE ReceiveList(s)
    <3>1. requests[s].kind = "list" /\ UNCHANGED vars /\ OnlyOpen(view'.run, phase)
      BY <2>1, <2>5 DEF ReceiveList, Answered, ReadOK
    <3>2. CASE view' = NoView
      <4>1. Put(s, NoRequest)
        BY <2>5, <3>2 DEF ReceiveList
      <4>2. \A r \in Runs : phase[r] \notin Open
        BY <3>1, <3>2 DEF OnlyOpen, NoView, Runs, NoRun
      <4>3. ActiveRow = NoView /\ \A r \in Runs : phase[r] # "running"
        BY <1>2, <4>2, ActiveIs DEF Open
      <4>4. Settled(view', Active, phase')
        BY <1>9, <1>10, <3>1, <3>2, <4>3 DEF Settled
      <4>5. QED
        BY <2>4, <4>1, <4>4
    <3>3. CASE view' # NoView
      <4>1. requests'[s] = Request("detail", view'.run) /\ \A t \in Slots \ {s} : requests'[t] = NoRequest
        BY <2>3, <2>5, <3>3 DEF ReceiveList
      <4>2. ~Unserved(requests'[s]) /\ requests'[s] # NoRequest
        BY <1>7, <1>8, <4>1 DEF Unserved
      <4>3. ReadOK(requests'[s], Active, phase')
        BY <1>8, <1>10, <3>1, <4>1 DEF ReadOK
      <4>4. QED
        BY <4>1, <4>2, <4>3, NoRequestRead
    <3>4. QED
      BY <3>2, <3>3
  <2>6. CASE ReceiveDetail(s)
    <3>1. requests[s].kind = "detail" /\ Put(s, NoRequest)
      BY <2>6 DEF ReceiveDetail, Answered
    <3>2. CASE view'.phase = "running"
      <4>1. source' = "connecting"
        BY <2>6, <3>2 DEF ReceiveDetail, OpenSource
      <4>2. QED
        BY <2>4, <3>1, <4>1
    <3>3. CASE view'.phase # "running"
      <4>1. UNCHANGED vars
        BY <2>6, <3>3 DEF ReceiveDetail
      <4>2. Settled(view', ActiveRow, phase)
        BY <2>1, <3>1, <3>3 DEF ReadOK
      <4>3. QED
        BY <1>9, <1>10, <2>4, <3>1, <4>1, <4>2
    <3>4. QED
      BY <3>2, <3>3
  <2>7. ~ReceivePoll(s)
    BY DEF ReceivePoll, Answered, Followed
  <2>8. CASE ReceiveLaunch(s)
    <3>1. source' = "connecting" /\ Put(s, NoRequest)
      BY <2>8 DEF ReceiveLaunch, OpenSource
    <3>2. QED
      BY <2>4, <3>1
  <2>9. CASE ReceiveCancel(s)
    <3>1. requests'[s] = Request("list", NoRun)
      BY <2>3, <2>9 DEF ReceiveCancel
    <3>2. ~Unserved(requests'[s]) /\ requests'[s] # NoRequest
      BY <1>7, <1>8, <3>1 DEF Unserved
    <3>3. QED
      BY <1>8, <1>12, <3>1, <3>2
  <2>10. QED
    BY <1>16, <2>5, <2>6, <2>7, <2>8, <2>9 DEF Receive
<1>17. CASE Show
  <2>1. source' = "open" /\ requests' = requests /\ UNCHANGED serverVars
    BY <1>2, <1>17 DEF Show, TakeFrame, BusInv, SourceOK
  <2>2. QED
    BY <1>4, <1>9, <1>11, <2>1
<1>18. CASE HangUp
  <2>1. PICK s \in Slots : Put(s, Request("list", NoRun))
    BY <1>18 DEF HangUp
  <2>2. requests'[s] = Request("list", NoRun)
    BY <1>2, <2>1, PutChanges
  <2>3. ~Unserved(requests'[s]) /\ requests'[s] # NoRequest
    BY <1>7, <1>8, <2>2 DEF Unserved
  <2>4. QED
    BY <1>8, <1>12, <2>2, <2>3
<1>19. CASE Connect /\ UNCHANGED <<view, requests>>
  <2>1. source' = "open" /\ UNCHANGED serverVars
    BY <1>19 DEF Connect
  <2>2. QED
    BY <1>4, <1>9, <1>11, <1>19, <2>1
<1>20. CASE Executor /\ UNCHANGED <<view, requests>>
  <2>1. PICK r \in Runs : /\ phase[r] = "running" /\ source' = source
                          /\ \A q \in Runs \ {r} : phase'[q] = phase[q]
    BY <1>2, <1>20, ExecutorMoves
  <2>2. \A row : ~Settled(row, ActiveRow, phase)
    BY <2>1 DEF Settled
  <2>3. ASSUME NEW q, OnlyOpen(q, phase) PROVE OnlyOpen(q, phase')
    BY <2>1, <2>3 DEF OnlyOpen, Open
  <2>4. ~After
    BY <1>4, <1>20, <2>1, <2>2 DEF Free
  <2>5. ASSUME NEW s \in Slots PROVE ReadOK(requests'[s], Active, phase')
    <3>1. ReadOK(requests[s], ActiveRow, phase) /\ requests'[s] = requests[s]
      BY <1>4, <1>20
    <3>2. QED
      BY <2>2, <2>3, <3>1 DEF ReadOK
  <2>6. QED
    BY <2>4, <2>5
<1>21. QED
  BY <1>13, <1>14, <1>15, <1>16, <1>17, <1>18, <1>19, <1>20 DEF StoreStep

\* A tab that was alone, and had one request at a time, shows the open run as
\* the server has it when nothing more will be told it, or none if there is
\* none, if the connection holds and the process lives.
THEOREM ViewAtRest ==
  ASSUME ~Drops, ~Crashes
  PROVE  StoreSpec => []AtRestTheViewIsTrue
<1>1. StoreInit => Followed /\ Orderly
  <2>1. NoRequest.kind # "poll" /\ NoView.phase # "running"
    BY DEF NoRequest, NoView
  <2>2. ASSUME StoreInit PROVE Followed
    BY <2>1, <2>2 DEF StoreInit, Init, Followed
  <2>3. ASSUME StoreInit PROVE Orderly
    <3>1. view = NoView /\ \A r \in Runs : phase[r] = "none"
      BY <2>3 DEF StoreInit, Init
    <3>2. ActiveRow = NoView
      BY <3>1 DEF ActiveRow, Open
    <3>3. Settled(view, ActiveRow, phase)
      BY <3>1, <3>2 DEF Settled
    <3>4. \A s \in Slots : requests[s] = NoRequest
      BY <2>3 DEF StoreInit
    <3>5. QED
      BY <3>3, <3>4, NoRequestRead DEF Orderly, Alone
  <2>4. QED
    BY <2>2, <2>3
<1>2. TabInv /\ Followed /\ Orderly /\ [StoreNext]_allVars => Followed' /\ Orderly'
  BY FollowedStep, OrderlyStep
<1>3. Orderly => AtRestTheViewIsTrue
  BY DEF Orderly, Settled, AtRestTheViewIsTrue, InFlight
<1>4. QED
  BY <1>1, <1>2, <1>3, TabInvariant, PTL DEF StoreSpec

=================================================================================
