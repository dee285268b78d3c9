-------------------------- MODULE QueueExecutorProofs --------------------------
(***************************************************************************)
(* Proofs about QueueExecutor for every number of items and runs.          *)
(***************************************************************************)
EXTENDS QueueExecutor, FiniteSetTheorems, TLAPS

USE BoundsAssumption, DiskAssumption, RunBoundsAssumption, PoliciesAssumption

\* A count of items is a natural number.
LEMMA CountType ==
  ASSUME NEW S \in SUBSET Items
  PROVE  IsFiniteSet(S) /\ Cardinality(S) \in Nat
<1>1. IsFiniteSet(Items)
  BY FS_Interval DEF Items
<1>2. QED
  BY <1>1, FS_Subset, FS_CardinalityType

\* A numbered batch keeps types: push only fills in the parent link.
LEMMA BatchType ==
  ASSUME NEW b \in Batches
  PROVE  Len(b) \in Nat /\ \A k \in 1 .. Len(b) : b[k] \in NewItem
<1>1. PICK n \in 1 .. MaxBatch : b \in [1 .. n -> NewItem]
  BY DEF Batches
<1>2. b \in Seq(NewItem) /\ Len(b) = n
  BY <1>1
<1>3. QED
  BY <1>1, <1>2

-------------------------------------------------------------------------------
(* The staging requests.                                                     *)

\* A row that does not exist belongs to no run, and ids above lastItem are
\* unused: what makes a pushed item start outside every run.
UnusedRows ==
  \A i \in Items : /\ status[i] = "absent" => runId[i] = NoRun
                   /\ i > lastItem => status[i] = "absent"

\* All a staging request does to an item: nothing, delete it, or put it in
\* line outside every run.
ItemStaged(i) ==
  \/ status'[i] = status[i] /\ runId'[i] = runId[i]
  \/ status'[i] \in {"absent", "pending"} /\ runId'[i] = NoRun

\* Deleting a row, with its dependents, leaves every other row staged or taken as it was.
LEMMA DeleteRowsStages ==
  ASSUME StoreTypeOK, UnusedRows, NEW S, DeleteRows(S), instances' \subseteq instances
  PROVE  StoreTypeOK' /\ UnusedRows' /\ \A i \in Items : ItemStaged(i)
<1> DEFINE gone == Cascade(S)
<1> HIDE DEF gone
<1>1. /\ status' = [i \in Items |-> IF i \in gone THEN "absent" ELSE status[i]]
      /\ runId' = [i \in Items |-> IF i \in gone THEN NoRun ELSE runId[i]]
      /\ dependsOn' = [i \in Items |-> IF i \in gone THEN NoItem ELSE dependsOn[i]]
      /\ sortOrder' = [i \in Items |-> IF i \in gone THEN 0 ELSE sortOrder[i]]
      /\ instance' = [i \in Items |-> IF i \in gone THEN Disk ELSE instance[i]]
      /\ lastItem' = lastItem
  BY DEF DeleteRows, gone
<1>2. StoreTypeOK'
  BY <1>1 DEF StoreTypeOK, NoRun, NoItem
<1>3. UnusedRows'
  BY <1>1 DEF UnusedRows, StoreTypeOK
<1>4. \A i \in Items : ItemStaged(i)
  BY <1>1 DEF ItemStaged
<1>5. QED
  BY <1>2, <1>3, <1>4

\* push adds fresh pending rows, each linked to an older row of the queue.
LEMMA PushStages ==
  ASSUME StoreTypeOK, UnusedRows, NEW b \in Batches, Push(b)
  PROVE  StoreTypeOK' /\ UnusedRows' /\ \A i \in Items : ItemStaged(i)
<1> DEFINE new == lastItem + 1 .. lastItem + Len(b)
<1>1. Len(b) \in Nat /\ \A k \in 1 .. Len(b) : b[k] \in NewItem
  BY BatchType
<1>2. PICK top \in 0 .. MaxItems :
        sortOrder' = [i \in Items |-> IF i \in new THEN top + i - lastItem ELSE sortOrder[i]]
  BY DEF Push
<1>3. /\ lastItem + Len(b) <= MaxItems
      /\ status' = [i \in Items |-> IF i \in new THEN "pending" ELSE status[i]]
      /\ dependsOn' = [i \in Items |-> IF i \in new THEN b[i - lastItem].dependsOn ELSE dependsOn[i]]
      /\ instance' = [i \in Items |-> IF i \in new THEN b[i - lastItem].instance ELSE instance[i]]
      /\ lastItem' = lastItem + Len(b)
      /\ runId' = runId /\ instances' = instances
  BY DEF Push
<1>4. lastItem \in Nat /\ lastItem <= MaxItems
  BY DEF StoreTypeOK
<1>5. \A i \in new : i - lastItem \in 1 .. Len(b)
  BY <1>1, <1>4
<1>6. \A i \in new : /\ b[i - lastItem].dependsOn \in Items \cup {NoItem}
                     /\ b[i - lastItem].instance \in Instances \cup {Disk}
  BY <1>1, <1>5 DEF NewItem
<1> HIDE DEF new
<1>7. StoreTypeOK'
  <2>1. \A i \in Items : i \in new => top + i - lastItem \in Nat
    BY <1>1, <1>4 DEF new, Items
  <2>2. sortOrder' \in [Items -> Nat]
    BY <1>2, <2>1 DEF StoreTypeOK
  <2>3. dependsOn' \in [Items -> Items \cup {NoItem}] /\ instance' \in [Items -> Instances \cup {Disk}]
    BY <1>3, <1>6 DEF StoreTypeOK
  <2>4. status' \in [Items -> ItemStatus \cup {"absent"}]
    BY <1>3 DEF StoreTypeOK, ItemStatus
  <2>5. QED
    BY <1>1, <1>3, <1>4, <2>2, <2>3, <2>4 DEF StoreTypeOK
<1>8. \A i \in Items : i \in new => status[i] = "absent" /\ runId[i] = NoRun
  BY <1>1, <1>4 DEF new, UnusedRows, Items
<1>9. UnusedRows'
  BY <1>1, <1>3, <1>4, <1>8 DEF new, UnusedRows, Items
<1>10. \A i \in Items : ItemStaged(i)
  BY <1>3, <1>8 DEF ItemStaged, StoreTypeOK
<1>11. QED
  BY <1>7, <1>9, <1>10

\* reorder permutes positions and touches no status, run or link.
LEMMA ReorderStages ==
  ASSUME StoreTypeOK, UnusedRows, NEW ids, Reorder(ids)
  PROVE  StoreTypeOK' /\ UnusedRows' /\ \A i \in Items : ItemStaged(i)
<1> DEFINE listed == {ids[k] : k \in DOMAIN ids}
<1>1. PICK place \in [listed -> DOMAIN ids] :
        sortOrder' = [i \in Items |-> IF i \in listed THEN place[i] ELSE sortOrder[i]]
  BY DEF Reorder
<1>2. Cardinality(Pending) \in Nat /\ DOMAIN ids = 1 .. Cardinality(Pending)
  BY CountType DEF Reorder, Pending
<1>3. /\ status' = status /\ runId' = runId /\ dependsOn' = dependsOn
      /\ instance' = instance /\ lastItem' = lastItem /\ instances' = instances
  BY DEF Reorder
<1>4. \A i \in listed : place[i] \in Nat
  BY <1>1, <1>2
<1>5. sortOrder' \in [Items -> Nat]
  BY <1>1, <1>4 DEF StoreTypeOK
<1>6. QED
  BY <1>3, <1>5 DEF StoreTypeOK, UnusedRows, ItemStaged

\* retry puts one failed row back to pending and off its run.
LEMMA RetryStages ==
  ASSUME StoreTypeOK, UnusedRows, NEW i \in Items, Retry(i)
  PROVE  StoreTypeOK' /\ UnusedRows' /\ \A j \in Items : ItemStaged(j)
BY DEF Retry, StoreTypeOK, UnusedRows, ItemStaged, ItemStatus, NoRun

\* Every staging request acts on rows no run holds.
LEMMA StagingStages ==
  ASSUME StoreTypeOK, UnusedRows, StagingRequest
  PROVE  StoreTypeOK' /\ UnusedRows' /\ \A i \in Items : ItemStaged(i)
<1>1. CASE \E b \in Batches : Push(b)
  BY <1>1, PushStages
<1>2. CASE \E ids \in [1 .. Cardinality(Pending) -> Pending] : Reorder(ids)
  BY <1>2, ReorderStages
<1>3. ASSUME NEW i \in Items, Remove(i)
      PROVE  StoreTypeOK' /\ UnusedRows' /\ \A j \in Items : ItemStaged(j)
  BY <1>3, DeleteRowsStages DEF Remove
<1>4. CASE \E i \in Items : Retry(i)
  BY <1>4, RetryStages
<1>5. CASE \E statuses \in ClearChoices : Clear(statuses)
  BY <1>5, DeleteRowsStages DEF Clear
<1>6. CASE \E x \in Instances : RemoveInstance(x)
  BY <1>6, DeleteRowsStages DEF RemoveInstance
<1>7. QED
  BY <1>1, <1>2, <1>3, <1>4, <1>5, <1>6 DEF StagingRequest

-------------------------------------------------------------------------------
(* Types.                                                                    *)

\* The counters read off the rows are a record of three naturals.
LEMMA CountRecord ==
  ASSUME NEW st, NEW r
  PROVE  Count(st, r) \in [succeeded : Nat, failed : Nat, skipped : Nat]
<1>1. \A S \in SUBSET Items : Cardinality(S) \in Nat
  BY CountType
<1>2. QED
  BY <1>1 DEF Count

\* syncCounters keeps the type of the counters.
LEMMA SyncType ==
  ASSUME NEW r, SyncCounters(r), counters \in [Runs -> [succeeded : Nat, failed : Nat, skipped : Nat]]
  PROVE  counters' \in [Runs -> [succeeded : Nat, failed : Nat, skipped : Nat]]
BY CountRecord DEF SyncCounters

\* The empty database is well typed.
LEMMA TypeInit == Init => TypeOK
<1> SUFFICES ASSUME Init PROVE TypeOK
  OBVIOUS
<1>1. StoreTypeOK
  BY DEF Init, StoreInit, StoreTypeOK, NoRun, NoItem
<1>2. /\ runStatus \in [Runs -> Open \cup Closed \cup {"none"}]
      /\ onError \in [Runs -> {"pause", "continue", "abort"}]
      /\ died \in [Runs -> BOOLEAN]
  BY DEF Init
<1>3. /\ totalItems \in [Runs -> Nat]
      /\ counters \in [Runs -> [succeeded : Nat, failed : Nat, skipped : Nat]]
      /\ lastRun \in 0 .. MaxRuns
  BY DEF Init, ZeroCount
<1>4. pc \in Places /\ execRun \in Runs \cup {NoRun} /\ execItem \in Items \cup {NoItem}
  BY DEF Init, Places
<1>5. batch \subseteq Items /\ aborted \in BOOLEAN /\ stopping \in BOOLEAN /\ begun \subseteq Items
  BY DEF Init
<1>6. QED
  BY <1>1, <1>2, <1>3, <1>4, <1>5 DEF TypeOK, RunTypeOK, ProcessTypeOK

-------------------------------------------------------------------------------
(* The inductive invariant.                                                  *)

\* Runs are numbered in the order they open, and all but the newest are over.
RunsInOrder ==
  /\ \A r \in Runs : /\ r > lastRun => runStatus[r] = "none"
                     /\ r < lastRun => runStatus[r] \in Closed
                     /\ r = lastRun => runStatus[r] # "none"
  /\ \A i \in Items : runId[i] <= lastRun

\* What each place of the process means for the run it works on.
PlaceMatchesRun ==
  /\ pc \in {"claim", "loop", "handler", "halt", "standDown", "closeFailed"} =>
       execRun \in Runs /\ runStatus[execRun] = "running"
  /\ pc \in {"reset", "skip", "relaunch"} => execRun \in Runs /\ runStatus[execRun] = "paused"
  /\ pc = "closeCancelled" => execRun \in Runs /\ runStatus[execRun] \in Open
  /\ pc \in {"boot", "idle"} => execRun = NoRun
  /\ pc \in {"boot", "idle", "claim", "reset", "skip", "relaunch"} => begun = {}
  /\ pc \in {"handler", "halt"} => execItem \in Items

\* While a run that pauses goes on, nothing begun since its launch has failed.
NoFailureSoFar ==
  pc \in {"loop", "handler"} /\ onError[execRun] = "pause" => \A i \in begun : status[i] # "failed"

\* The items stand down before the run row says so.
StoodDown ==
  pc \in {"closeCancelled", "closeFailed"} =>
    \A i \in Items : runId[i] = execRun => status[i] \notin {"pending", "running"}

IInv ==
  /\ TypeOK
  /\ UnusedRows
  /\ RunsInOrder
  /\ PlaceMatchesRun
  /\ RunningMeansExecuting
  /\ NoFailureSoFar
  /\ StoodDown
  /\ NothingStranded

-------------------------------------------------------------------------------
(* Each action preserves the invariant.                                      *)

\* Claiming pending items for a run moves no row and touches no unused one.
LEMMA ClaimKeepsRows ==
  ASSUME StoreTypeOK, UnusedRows, execRun \in Nat, ClaimBatch, KeepRowsExceptRunId
  PROVE  StoreTypeOK' /\ UnusedRows'
<1>1. runId' = [i \in Items |-> IF i \in batch /\ status[i] = "pending" THEN execRun ELSE runId[i]]
  BY DEF ClaimBatch
<1>2. /\ status' = status /\ dependsOn' = dependsOn /\ sortOrder' = sortOrder
      /\ instance' = instance /\ lastItem' = lastItem /\ instances' = instances
  BY DEF KeepRowsExceptRunId
<1>3. StoreTypeOK'
  BY <1>1, <1>2 DEF StoreTypeOK
<1>4. UnusedRows'
  BY <1>1, <1>2 DEF UnusedRows, StoreTypeOK
<1>5. QED
  BY <1>3, <1>4

\* Staging requests come while the process is at rest or in a handler.
LEMMA InvStage ==
  ASSUME IInv, Stage
  PROVE  IInv'
<1>1. /\ StoreTypeOK' /\ UnusedRows'
      /\ \A i \in Items : ItemStaged(i)
  BY StagingStages DEF IInv, TypeOK, Stage
<1>2. UNCHANGED <<runVars, procVars>> /\ pc \in {"idle", "handler"}
  BY DEF Stage, Serving
<1>3. RunTypeOK' /\ ProcessTypeOK'
  BY <1>2 DEF IInv, TypeOK, RunTypeOK, ProcessTypeOK, runVars, procVars
<1>4. RunsInOrder'
  <2>1. \A i \in Items : runId'[i] <= lastRun
    BY <1>1 DEF IInv, TypeOK, StoreTypeOK, RunTypeOK, RunsInOrder, ItemStaged, NoRun
  <2>2. QED
    BY <1>2, <2>1 DEF IInv, RunsInOrder, runVars
<1>5. PlaceMatchesRun'
  BY <1>2 DEF IInv, PlaceMatchesRun, runVars, procVars
<1>6. RunningMeansExecuting'
  BY <1>1, <1>2 DEF IInv, RunningMeansExecuting, ItemStaged, runVars, procVars
<1>7. NoFailureSoFar' /\ StoodDown'
  BY <1>1, <1>2 DEF IInv, TypeOK, ProcessTypeOK, NoFailureSoFar, StoodDown, ItemStaged, runVars, procVars
<1>8. NothingStranded'
  BY <1>1, <1>2 DEF IInv, NothingStranded, ItemStaged, runVars, Runs, NoRun
<1>9. QED
  BY <1>1, <1>3, <1>4, <1>5, <1>6, <1>7, <1>8 DEF IInv, TypeOK

\* POST /run/start opens the newest run, and only when none is open.
LEMMA InvStart ==
  ASSUME IInv, NEW selected \in SUBSET Pending, NEW policy \in Policies, Start(selected, policy)
  PROVE  IInv'
<1>1. lastRun + 1 \in Runs /\ Cardinality(selected) \in Nat
  BY CountType DEF IInv, TypeOK, RunTypeOK, Start, CreateRun, Runs, Pending
<1>2. \A q \in Runs : runStatus[q] \notin Open
  BY DEF Start, OpenRuns
<1>3. StoreTypeOK' /\ UnusedRows'
  BY DEF IInv, TypeOK, StoreTypeOK, UnusedRows, Start, CreateRun, storeVars
<1>4. RunTypeOK' /\ ProcessTypeOK'
  BY <1>1 DEF IInv, TypeOK, RunTypeOK, ProcessTypeOK, Places, Pending, Open, Start, CreateRun
<1>5. RunsInOrder'
  <2>1. /\ lastRun' = lastRun + 1
        /\ runStatus' = [runStatus EXCEPT ![lastRun + 1] = "running"]
        /\ runId' = runId
    BY DEF Start, CreateRun, storeVars
  <2>2. \A q \in Runs :
          /\ q > lastRun' => runStatus'[q] = "none"
          /\ q < lastRun' => runStatus'[q] \in Closed
          /\ q = lastRun' => runStatus'[q] # "none"
    BY <1>1, <1>2, <2>1 DEF IInv, TypeOK, RunTypeOK, RunsInOrder, Runs, Open, Closed
  <2>3. \A i \in Items : runId'[i] <= lastRun'
    BY <2>1 DEF IInv, TypeOK, StoreTypeOK, RunTypeOK, RunsInOrder
  <2>4. QED
    BY <2>2, <2>3 DEF RunsInOrder
<1>6. PlaceMatchesRun'
  BY <1>1 DEF IInv, TypeOK, RunTypeOK, PlaceMatchesRun, Start, CreateRun
<1>7. RunningMeansExecuting'
  BY DEF IInv, RunningMeansExecuting, Open, Start, OpenRuns, CreateRun, storeVars
<1>8. NoFailureSoFar' /\ StoodDown'
  BY DEF NoFailureSoFar, StoodDown, Start, CreateRun
<1>9. NothingStranded'
  BY DEF IInv, NothingStranded, Closed, Start, CreateRun, storeVars
<1>10. QED
  BY <1>3, <1>4, <1>5, <1>6, <1>7, <1>8, <1>9 DEF IInv, TypeOK

\* The claim after a start fills the batch and enters the loop.
LEMMA InvStartClaim ==
  ASSUME IInv, StartClaim
  PROVE  IInv'
<1>1. StoreTypeOK' /\ UnusedRows'
  <2>1. execRun \in Nat
    BY DEF IInv, TypeOK, ProcessTypeOK, Runs, NoRun
  <2>2. QED
    BY <2>1, ClaimKeepsRows DEF IInv, TypeOK, StartClaim
<1>2. RunTypeOK' /\ ProcessTypeOK'
  BY DEF IInv, TypeOK, RunTypeOK, ProcessTypeOK, Places, StartClaim, runVars
<1>3. RunsInOrder'
  BY DEF IInv, TypeOK, RunTypeOK, RunsInOrder, PlaceMatchesRun, Runs, StartClaim, ClaimBatch,
    runVars
<1>4. PlaceMatchesRun'
  BY DEF IInv, PlaceMatchesRun, StartClaim, runVars
<1>5. RunningMeansExecuting'
  BY DEF IInv, RunningMeansExecuting, StartClaim, KeepRowsExceptRunId, runVars
<1>6. NoFailureSoFar' /\ StoodDown'
  BY DEF IInv, NoFailureSoFar, StoodDown, PlaceMatchesRun, StartClaim
<1>7. NothingStranded'
  BY DEF IInv, NothingStranded, PlaceMatchesRun, Closed, StartClaim, ClaimBatch,
    KeepRowsExceptRunId, runVars
<1>8. QED
  BY <1>1, <1>2, <1>3, <1>4, <1>5, <1>6, <1>7 DEF IInv, TypeOK

\* POST /run/resume acts on a paused run, no loop being at work.
LEMMA InvResume ==
  ASSUME IInv, NEW r \in Runs, NEW mode \in {"retryFailed", "skipFailed", "neither"}, Resume(r, mode)
  PROVE  IInv'
<1>1. StoreTypeOK' /\ UnusedRows'
  BY DEF IInv, TypeOK, StoreTypeOK, UnusedRows, Resume, storeVars
<1>2. RunTypeOK' /\ ProcessTypeOK'
  BY DEF IInv, TypeOK, RunTypeOK, ProcessTypeOK, Places, Resume, runVars
<1>3. RunsInOrder'
  BY DEF IInv, RunsInOrder, Resume, storeVars, runVars
<1>4. PlaceMatchesRun'
  BY DEF IInv, PlaceMatchesRun, Resume, runVars
<1>5. RunningMeansExecuting'
  BY DEF IInv, RunningMeansExecuting, PlaceMatchesRun, Runs, NoRun, Resume, storeVars, runVars
<1>6. NoFailureSoFar' /\ StoodDown'
  BY DEF NoFailureSoFar, StoodDown, Resume
<1>7. NothingStranded'
  BY DEF IInv, NothingStranded, Resume, storeVars, runVars
<1>8. QED
  BY <1>1, <1>2, <1>3, <1>4, <1>5, <1>6, <1>7 DEF IInv, TypeOK

\* Resume returns the failed item of the paused run to pending.
LEMMA InvResumeReset ==
  ASSUME IInv, NEW i \in Items, ResumeReset(i)
  PROVE  IInv'
<1>1. StoreTypeOK' /\ UnusedRows'
  BY DEF IInv, TypeOK, StoreTypeOK, UnusedRows, ItemStatus, NoRun, ResumeReset, Retry
<1>2. RunTypeOK' /\ ProcessTypeOK'
  BY DEF IInv, TypeOK, RunTypeOK, ProcessTypeOK, ResumeReset, runVars
<1>3. RunsInOrder'
  BY DEF IInv, TypeOK, StoreTypeOK, RunTypeOK, RunsInOrder, NoRun, ResumeReset, Retry, runVars
<1>4. PlaceMatchesRun'
  BY DEF IInv, PlaceMatchesRun, ResumeReset, runVars
<1>5. RunningMeansExecuting'
  BY DEF IInv, RunningMeansExecuting, ResumeReset, Retry, runVars
<1>6. NoFailureSoFar' /\ StoodDown'
  BY DEF NoFailureSoFar, StoodDown, ResumeReset
<1>7. NothingStranded'
  BY DEF IInv, NothingStranded, PlaceMatchesRun, Runs, Closed, NoRun, ResumeReset, IsFirst,
    FailedIn, Claimed, Retry, runVars
<1>8. QED
  BY <1>1, <1>2, <1>3, <1>4, <1>5, <1>6, <1>7 DEF IInv, TypeOK

\* Resume takes what was staged during the pause into the run.
LEMMA InvResumeClaim ==
  ASSUME IInv, ResumeClaim
  PROVE  IInv'
<1>1. StoreTypeOK' /\ UnusedRows'
  <2>1. execRun \in Nat
    BY DEF IInv, TypeOK, ProcessTypeOK, Runs, NoRun
  <2>2. QED
    BY <2>1, ClaimKeepsRows DEF IInv, TypeOK, ResumeClaim
<1>2. RunTypeOK' /\ ProcessTypeOK'
  BY DEF IInv, TypeOK, RunTypeOK, ProcessTypeOK, Places, ResumeClaim, runVars
<1>3. RunsInOrder'
  BY DEF IInv, TypeOK, RunTypeOK, RunsInOrder, PlaceMatchesRun, Runs, ResumeClaim, ClaimBatch,
    runVars
<1>4. PlaceMatchesRun'
  BY DEF IInv, PlaceMatchesRun, ResumeClaim, runVars
<1>5. RunningMeansExecuting'
  BY DEF IInv, RunningMeansExecuting, ResumeClaim, KeepRowsExceptRunId, runVars
<1>6. NoFailureSoFar' /\ StoodDown'
  BY DEF NoFailureSoFar, StoodDown, ResumeClaim
<1>7. NothingStranded'
  BY DEF IInv, NothingStranded, PlaceMatchesRun, Closed, ResumeClaim, ClaimBatch,
    KeepRowsExceptRunId, runVars
<1>8. QED
  BY <1>1, <1>2, <1>3, <1>4, <1>5, <1>6, <1>7 DEF IInv, TypeOK

\* Resume with skip marks the failed item skipped.
LEMMA InvResumeSkip ==
  ASSUME IInv, NEW i \in Items, ResumeSkip(i)
  PROVE  IInv'
<1>1. StoreTypeOK' /\ UnusedRows'
  BY DEF IInv, TypeOK, StoreTypeOK, UnusedRows, ItemStatus, ResumeSkip, IsFirst, FailedIn,
    SetStatus, KeepRowsExceptStatus
<1>2. RunTypeOK' /\ ProcessTypeOK'
  BY DEF IInv, TypeOK, RunTypeOK, ProcessTypeOK, ResumeSkip, runVars, procVars
<1>3. RunsInOrder'
  BY DEF IInv, RunsInOrder, ResumeSkip, KeepRowsExceptStatus, runVars
<1>4. PlaceMatchesRun'
  BY DEF IInv, PlaceMatchesRun, ResumeSkip, runVars, procVars
<1>5. RunningMeansExecuting'
  BY DEF IInv, RunningMeansExecuting, ResumeSkip, SetStatus, runVars, procVars
<1>6. NoFailureSoFar' /\ StoodDown'
  BY DEF NoFailureSoFar, StoodDown, ResumeSkip, procVars
<1>7. NothingStranded'
  BY DEF IInv, NothingStranded, ResumeSkip, SetStatus, KeepRowsExceptStatus, runVars
<1>8. QED
  BY <1>1, <1>2, <1>3, <1>4, <1>5, <1>6, <1>7 DEF IInv, TypeOK

\* Resume marks the run running as the loop starts over.
LEMMA InvResumeLaunch ==
  ASSUME IInv, ResumeLaunch
  PROVE  IInv'
<1>1. StoreTypeOK' /\ UnusedRows'
  BY DEF IInv, TypeOK, StoreTypeOK, UnusedRows, ResumeLaunch, storeVars
<1>2. RunTypeOK' /\ ProcessTypeOK'
  BY SyncType DEF IInv, TypeOK, RunTypeOK, ProcessTypeOK, Places, Open, ResumeLaunch, Goto
<1>3. RunsInOrder'
  BY DEF IInv, RunsInOrder, PlaceMatchesRun, Closed, ResumeLaunch, storeVars
<1>4. PlaceMatchesRun'
  BY DEF IInv, TypeOK, RunTypeOK, PlaceMatchesRun, ResumeLaunch, Goto
<1>5. RunningMeansExecuting'
  BY DEF IInv, RunningMeansExecuting, ResumeLaunch, storeVars, Goto
<1>6. NoFailureSoFar' /\ StoodDown'
  BY DEF IInv, NoFailureSoFar, StoodDown, PlaceMatchesRun, ResumeLaunch, Goto
<1>7. NothingStranded'
  BY DEF IInv, NothingStranded, Closed, ResumeLaunch, storeVars
<1>8. QED
  BY <1>1, <1>2, <1>3, <1>4, <1>5, <1>6, <1>7 DEF IInv, TypeOK

\* Cancel while a loop is at work only asks it to stop.
LEMMA InvCancelActive ==
  ASSUME IInv, CancelActive
  PROVE  IInv'
<1>1. StoreTypeOK' /\ UnusedRows'
  BY DEF IInv, TypeOK, StoreTypeOK, UnusedRows, CancelActive, storeVars
<1>2. RunTypeOK' /\ ProcessTypeOK'
  BY DEF IInv, TypeOK, RunTypeOK, ProcessTypeOK, CancelActive, runVars
<1>3. RunsInOrder'
  BY DEF IInv, RunsInOrder, CancelActive, storeVars, runVars
<1>4. PlaceMatchesRun'
  BY DEF IInv, PlaceMatchesRun, CancelActive, runVars
<1>5. RunningMeansExecuting'
  BY DEF IInv, RunningMeansExecuting, CancelActive, storeVars, runVars
<1>6. NoFailureSoFar' /\ StoodDown'
  BY DEF IInv, NoFailureSoFar, StoodDown, CancelActive, storeVars, runVars
<1>7. NothingStranded'
  BY DEF IInv, NothingStranded, CancelActive, storeVars, runVars
<1>8. QED
  BY <1>1, <1>2, <1>3, <1>4, <1>5, <1>6, <1>7 DEF IInv, TypeOK

\* Cancel of a paused run stands its items down at once.
LEMMA InvCancelIdle ==
  ASSUME IInv, NEW r \in Runs, CancelIdle(r)
  PROVE  IInv'
<1>1. StoreTypeOK' /\ UnusedRows'
  BY DEF IInv, TypeOK, StoreTypeOK, UnusedRows, ItemStatus, CancelIdle, StandDownItems,
    KeepRowsExceptStatus
<1>2. RunTypeOK' /\ ProcessTypeOK'
  BY DEF IInv, TypeOK, RunTypeOK, ProcessTypeOK, Places, CancelIdle, runVars
<1>3. RunsInOrder'
  BY DEF IInv, RunsInOrder, CancelIdle, KeepRowsExceptStatus, runVars
<1>4. PlaceMatchesRun'
  BY DEF PlaceMatchesRun, CancelIdle, runVars
<1>5. RunningMeansExecuting'
  BY DEF IInv, RunningMeansExecuting, PlaceMatchesRun, Runs, NoRun, CancelIdle,
    StandDownItems, runVars
<1>6. NoFailureSoFar' /\ StoodDown'
  BY DEF NoFailureSoFar, StoodDown, CancelIdle, StandDownItems, KeepRowsExceptStatus
<1>7. NothingStranded'
  BY DEF IInv, NothingStranded, CancelIdle, StandDownItems, KeepRowsExceptStatus, runVars
<1>8. QED
  BY <1>1, <1>2, <1>3, <1>4, <1>5, <1>6, <1>7 DEF IInv, TypeOK

\* The loop skips an item whose parent did not succeed.
LEMMA InvSkipBlocked ==
  ASSUME IInv, NEW i \in Items, SkipBlocked(i)
  PROVE  IInv'
<1>1. StoreTypeOK' /\ UnusedRows'
  BY DEF IInv, TypeOK, StoreTypeOK, UnusedRows, ItemStatus, SkipBlocked, NextItem, IsFirst,
    WaitingIn, SetStatus, KeepRowsExceptStatus
<1>2. RunTypeOK' /\ ProcessTypeOK'
  BY SyncType DEF IInv, TypeOK, RunTypeOK, ProcessTypeOK, SkipBlocked, procVars
<1>3. RunsInOrder'
  BY DEF IInv, RunsInOrder, SkipBlocked, KeepRowsExceptStatus
<1>4. PlaceMatchesRun'
  BY DEF IInv, PlaceMatchesRun, SkipBlocked, procVars
<1>5. RunningMeansExecuting'
  BY DEF IInv, RunningMeansExecuting, SkipBlocked, SetStatus, procVars
<1>6. NoFailureSoFar' /\ StoodDown'
  BY DEF IInv, NoFailureSoFar, StoodDown, SkipBlocked, SetStatus, procVars
<1>7. NothingStranded'
  BY DEF IInv, NothingStranded, SkipBlocked, SetStatus, KeepRowsExceptStatus
<1>8. QED
  BY <1>1, <1>2, <1>3, <1>4, <1>5, <1>6, <1>7 DEF IInv, TypeOK

\* The loop marks an item running before its handler starts.
LEMMA InvBeginItem ==
  ASSUME IInv, NEW i \in Items, BeginItem(i)
  PROVE  IInv'
<1>1. StoreTypeOK' /\ UnusedRows'
  BY DEF IInv, TypeOK, StoreTypeOK, UnusedRows, ItemStatus, BeginItem, NextItem, IsFirst,
    WaitingIn, SetStatus, KeepRowsExceptStatus
<1>2. RunTypeOK' /\ ProcessTypeOK'
  BY DEF IInv, TypeOK, RunTypeOK, ProcessTypeOK, Places, BeginItem
<1>3. RunsInOrder'
  BY DEF IInv, RunsInOrder, BeginItem, KeepRowsExceptStatus
<1>4. PlaceMatchesRun'
  BY DEF IInv, PlaceMatchesRun, BeginItem
<1>5. RunningMeansExecuting'
  BY DEF IInv, RunningMeansExecuting, BeginItem, NextItem, IsFirst, WaitingIn, Claimed,
    SetStatus, KeepRowsExceptStatus
<1>6. NoFailureSoFar' /\ StoodDown'
  BY DEF IInv, NoFailureSoFar, StoodDown, BeginItem, NextItem, IsFirst, WaitingIn, SetStatus
<1>7. NothingStranded'
  BY DEF IInv, NothingStranded, BeginItem, NextItem, IsFirst, WaitingIn, SetStatus,
    KeepRowsExceptStatus
<1>8. QED
  BY <1>1, <1>2, <1>3, <1>4, <1>5, <1>6, <1>7 DEF IInv, TypeOK

\* A loop out of items closes its run, by its failures.
LEMMA InvFinish ==
  ASSUME IInv, Finish
  PROVE  IInv'
<1>1. StoreTypeOK' /\ UnusedRows'
  BY DEF IInv, TypeOK, StoreTypeOK, UnusedRows, Finish, storeVars
<1>2. RunTypeOK' /\ ProcessTypeOK'
  BY SyncType DEF IInv, TypeOK, RunTypeOK, ProcessTypeOK, Places, Closed, Finish, Idle, Forget
<1>3. RunsInOrder'
  BY DEF IInv, RunsInOrder, PlaceMatchesRun, Closed, Finish, storeVars
<1>4. PlaceMatchesRun'
  BY DEF PlaceMatchesRun, Finish, Idle, Forget
<1>5. RunningMeansExecuting'
  BY DEF IInv, TypeOK, RunTypeOK, RunningMeansExecuting, Finish, storeVars
<1>6. NoFailureSoFar' /\ StoodDown'
  BY DEF NoFailureSoFar, StoodDown, Finish, Idle
<1>7. NothingStranded'
  BY DEF IInv, NothingStranded, RunningMeansExecuting, Finish, WaitingIn, Claimed, storeVars
<1>8. QED
  BY <1>1, <1>2, <1>3, <1>4, <1>5, <1>6, <1>7 DEF IInv, TypeOK

\* The loop sees the abort between two items.
LEMMA InvSeeAbort ==
  ASSUME IInv, SeeAbort
  PROVE  IInv'
<1>1. StoreTypeOK' /\ UnusedRows'
  BY DEF IInv, TypeOK, StoreTypeOK, UnusedRows, SeeAbort, storeVars
<1>2. RunTypeOK' /\ ProcessTypeOK'
  BY DEF IInv, TypeOK, RunTypeOK, ProcessTypeOK, Places, SeeAbort, Goto, runVars
<1>3. RunsInOrder'
  BY DEF IInv, RunsInOrder, SeeAbort, storeVars, runVars
<1>4. PlaceMatchesRun'
  BY DEF IInv, PlaceMatchesRun, SeeAbort, Goto, runVars
<1>5. RunningMeansExecuting'
  BY DEF IInv, RunningMeansExecuting, SeeAbort, Goto, storeVars, runVars
<1>6. NoFailureSoFar' /\ StoodDown'
  BY DEF NoFailureSoFar, StoodDown, SeeAbort, Goto
<1>7. NothingStranded'
  BY DEF IInv, NothingStranded, SeeAbort, storeVars, runVars
<1>8. QED
  BY <1>1, <1>2, <1>3, <1>4, <1>5, <1>6, <1>7 DEF IInv, TypeOK

\* A handler succeeds, its item with it.
LEMMA InvHandlerSucceeds ==
  ASSUME IInv, HandlerSucceeds
  PROVE  IInv'
<1>1. StoreTypeOK' /\ UnusedRows'
  BY DEF IInv, TypeOK, StoreTypeOK, UnusedRows, ItemStatus, HandlerSucceeds, RowThere,
    SetStatus, KeepRowsExceptStatus
<1>2. RunTypeOK' /\ ProcessTypeOK'
  BY SyncType DEF IInv, TypeOK, RunTypeOK, ProcessTypeOK, Places, HandlerSucceeds, Goto
<1>3. RunsInOrder'
  BY DEF IInv, RunsInOrder, HandlerSucceeds, KeepRowsExceptStatus
<1>4. PlaceMatchesRun'
  BY DEF IInv, PlaceMatchesRun, HandlerSucceeds, Goto
<1>5. RunningMeansExecuting'
  BY DEF IInv, TypeOK, StoreTypeOK, RunningMeansExecuting, HandlerSucceeds, SetStatus, Goto
<1>6. NoFailureSoFar' /\ StoodDown'
  BY DEF IInv, NoFailureSoFar, StoodDown, HandlerSucceeds, SetStatus, Goto
<1>7. NothingStranded'
  BY DEF IInv, NothingStranded, HandlerSucceeds, SetStatus, KeepRowsExceptStatus
<1>8. QED
  BY <1>1, <1>2, <1>3, <1>4, <1>5, <1>6, <1>7 DEF IInv, TypeOK

\* A handler fails, and its item with it, before the policy is looked at.
LEMMA InvHandlerFails ==
  ASSUME IInv, HandlerFails
  PROVE  IInv'
<1>1. StoreTypeOK' /\ UnusedRows'
  BY DEF IInv, TypeOK, StoreTypeOK, UnusedRows, ItemStatus, HandlerFails, RowThere, SetStatus,
    KeepRowsExceptStatus
<1>2. RunTypeOK' /\ ProcessTypeOK'
  BY SyncType DEF IInv, TypeOK, RunTypeOK, ProcessTypeOK, Places, HandlerFails, Goto
<1>3. RunsInOrder'
  BY DEF IInv, RunsInOrder, HandlerFails, KeepRowsExceptStatus
<1>4. PlaceMatchesRun'
  BY DEF IInv, PlaceMatchesRun, HandlerFails, Goto
<1>5. RunningMeansExecuting'
  BY DEF IInv, TypeOK, StoreTypeOK, RunningMeansExecuting, HandlerFails, SetStatus, Goto
<1>6. NoFailureSoFar' /\ StoodDown'
  BY DEF NoFailureSoFar, StoodDown, HandlerFails, Goto
<1>7. NothingStranded'
  BY DEF IInv, NothingStranded, HandlerFails, SetStatus, KeepRowsExceptStatus
<1>8. QED
  BY <1>1, <1>2, <1>3, <1>4, <1>5, <1>6, <1>7 DEF IInv, TypeOK

\* A handler gives up on the abort signal.
LEMMA InvHandlerAborted ==
  ASSUME IInv, HandlerAborted
  PROVE  IInv'
<1>1. StoreTypeOK' /\ UnusedRows'
  BY DEF IInv, TypeOK, StoreTypeOK, UnusedRows, ItemStatus, HandlerAborted, RowThere,
    SetStatus, KeepRowsExceptStatus
<1>2. RunTypeOK' /\ ProcessTypeOK'
  BY SyncType DEF IInv, TypeOK, RunTypeOK, ProcessTypeOK, Places, HandlerAborted, Goto
<1>3. RunsInOrder'
  BY DEF IInv, RunsInOrder, HandlerAborted, KeepRowsExceptStatus
<1>4. PlaceMatchesRun'
  BY DEF IInv, PlaceMatchesRun, HandlerAborted, Goto
<1>5. RunningMeansExecuting'
  BY DEF IInv, TypeOK, StoreTypeOK, RunningMeansExecuting, HandlerAborted, SetStatus, Goto
<1>6. NoFailureSoFar' /\ StoodDown'
  BY DEF NoFailureSoFar, StoodDown, HandlerAborted, Goto
<1>7. NothingStranded'
  BY DEF IInv, NothingStranded, HandlerAborted, SetStatus, KeepRowsExceptStatus
<1>8. QED
  BY <1>1, <1>2, <1>3, <1>4, <1>5, <1>6, <1>7 DEF IInv, TypeOK

\* The row of the item is gone when its handler settles.
LEMMA InvRowVanished ==
  ASSUME IInv, NEW threw \in BOOLEAN, RowVanished(threw)
  PROVE  IInv'
<1>1. StoreTypeOK' /\ UnusedRows'
  BY DEF IInv, TypeOK, StoreTypeOK, UnusedRows, RowVanished, storeVars
<1>2. RunTypeOK' /\ ProcessTypeOK'
  BY SyncType DEF IInv, TypeOK, RunTypeOK, ProcessTypeOK, Places, Closed, RowVanished, Idle,
    Forget
<1>3. RunsInOrder'
  BY DEF IInv, RunsInOrder, PlaceMatchesRun, Closed, RowVanished, storeVars
<1>4. PlaceMatchesRun'
  BY DEF PlaceMatchesRun, RowVanished, Idle, Forget
<1>5. RunningMeansExecuting'
  BY DEF IInv, TypeOK, RunTypeOK, RunningMeansExecuting, RowVanished, RowThere, storeVars
<1>6. NoFailureSoFar' /\ StoodDown'
  BY DEF NoFailureSoFar, StoodDown, RowVanished, Idle
<1>7. NothingStranded'
  BY DEF IInv, TypeOK, StoreTypeOK, RunTypeOK, NothingStranded, RowVanished, storeVars
<1>8. QED
  BY <1>1, <1>2, <1>3, <1>4, <1>5, <1>6, <1>7 DEF IInv, TypeOK

\* The policy "pause" parks the run after a failure.
LEMMA InvPause ==
  ASSUME IInv, Pause
  PROVE  IInv'
<1>1. StoreTypeOK' /\ UnusedRows'
  BY DEF IInv, TypeOK, StoreTypeOK, UnusedRows, Pause, storeVars
<1>2. RunTypeOK' /\ ProcessTypeOK'
  BY DEF IInv, TypeOK, RunTypeOK, ProcessTypeOK, Places, Open, Pause, Idle, Forget
<1>3. RunsInOrder'
  BY DEF IInv, RunsInOrder, PlaceMatchesRun, Closed, Pause, storeVars
<1>4. PlaceMatchesRun'
  BY DEF PlaceMatchesRun, Pause, Idle, Forget
<1>5. RunningMeansExecuting'
  BY DEF IInv, TypeOK, RunTypeOK, RunningMeansExecuting, Pause, storeVars
<1>6. NoFailureSoFar' /\ StoodDown'
  BY DEF NoFailureSoFar, StoodDown, Pause, Idle
<1>7. NothingStranded'
  BY DEF IInv, NothingStranded, Closed, Pause, storeVars
<1>8. QED
  BY <1>1, <1>2, <1>3, <1>4, <1>5, <1>6, <1>7 DEF IInv, TypeOK

\* The policy "abort" closes the run after a failure.
LEMMA InvAbort ==
  ASSUME IInv, Abort
  PROVE  IInv'
<1>1. StoreTypeOK' /\ UnusedRows'
  BY DEF IInv, TypeOK, StoreTypeOK, UnusedRows, ItemStatus, Abort, StandDownItems,
    KeepRowsExceptStatus
<1>2. RunTypeOK' /\ ProcessTypeOK'
  BY DEF IInv, TypeOK, RunTypeOK, ProcessTypeOK, Places, Abort, Goto, runVars
<1>3. RunsInOrder'
  BY DEF IInv, RunsInOrder, Abort, KeepRowsExceptStatus, runVars
<1>4. PlaceMatchesRun'
  BY DEF IInv, PlaceMatchesRun, Abort, Goto, runVars
<1>5. RunningMeansExecuting'
  BY DEF IInv, RunningMeansExecuting, Abort, StandDownItems, Goto, runVars
<1>6. NoFailureSoFar' /\ StoodDown'
  BY DEF NoFailureSoFar, StoodDown, Abort, StandDownItems, KeepRowsExceptStatus, Goto
<1>7. NothingStranded'
  BY DEF IInv, NothingStranded, Abort, StandDownItems, KeepRowsExceptStatus, runVars
<1>8. QED
  BY <1>1, <1>2, <1>3, <1>4, <1>5, <1>6, <1>7 DEF IInv, TypeOK

\* The policy "continue" goes on after a failure.
LEMMA InvContinue ==
  ASSUME IInv, Continue
  PROVE  IInv'
<1>1. StoreTypeOK' /\ UnusedRows'
  BY DEF IInv, TypeOK, StoreTypeOK, UnusedRows, Continue, storeVars
<1>2. RunTypeOK' /\ ProcessTypeOK'
  BY DEF IInv, TypeOK, RunTypeOK, ProcessTypeOK, Places, Continue, Goto, runVars
<1>3. RunsInOrder'
  BY DEF IInv, RunsInOrder, Continue, storeVars, runVars
<1>4. PlaceMatchesRun'
  BY DEF IInv, PlaceMatchesRun, Continue, Goto, runVars
<1>5. RunningMeansExecuting'
  BY DEF IInv, RunningMeansExecuting, Continue, Goto, storeVars, runVars
<1>6. NoFailureSoFar' /\ StoodDown'
  BY DEF NoFailureSoFar, StoodDown, Continue, Goto, runVars
<1>7. NothingStranded'
  BY DEF IInv, NothingStranded, Continue, storeVars, runVars
<1>8. QED
  BY <1>1, <1>2, <1>3, <1>4, <1>5, <1>6, <1>7 DEF IInv, TypeOK

\* Standing down leaves no item of the run to apply.
LEMMA InvStandDown ==
  ASSUME IInv, StandDown
  PROVE  IInv'
<1>1. StoreTypeOK' /\ UnusedRows'
  BY DEF IInv, TypeOK, StoreTypeOK, UnusedRows, ItemStatus, StandDown, StandDownItems,
    KeepRowsExceptStatus
<1>2. RunTypeOK' /\ ProcessTypeOK'
  BY DEF IInv, TypeOK, RunTypeOK, ProcessTypeOK, Places, StandDown, Goto, runVars
<1>3. RunsInOrder'
  BY DEF IInv, RunsInOrder, StandDown, KeepRowsExceptStatus, runVars
<1>4. PlaceMatchesRun'
  BY DEF IInv, PlaceMatchesRun, Open, StandDown, Goto, runVars
<1>5. RunningMeansExecuting'
  BY DEF IInv, RunningMeansExecuting, StandDown, StandDownItems, Goto, runVars
<1>6. NoFailureSoFar' /\ StoodDown'
  BY DEF NoFailureSoFar, StoodDown, StandDown, StandDownItems, KeepRowsExceptStatus, Goto
<1>7. NothingStranded'
  BY DEF IInv, NothingStranded, StandDown, StandDownItems, KeepRowsExceptStatus, runVars
<1>8. QED
  BY <1>1, <1>2, <1>3, <1>4, <1>5, <1>6, <1>7 DEF IInv, TypeOK

\* The run row is closed once its items stand down.
LEMMA InvClose ==
  ASSUME IInv, Close
  PROVE  IInv'
<1>1. StoreTypeOK' /\ UnusedRows'
  BY DEF IInv, TypeOK, StoreTypeOK, UnusedRows, Close, storeVars
<1>2. RunTypeOK' /\ ProcessTypeOK'
  BY SyncType DEF IInv, TypeOK, RunTypeOK, ProcessTypeOK, Places, Closed, Close, Idle, Forget
<1>3. RunsInOrder'
  BY DEF IInv, RunsInOrder, PlaceMatchesRun, Open, Closed, Close, storeVars
<1>4. PlaceMatchesRun'
  BY DEF PlaceMatchesRun, Close, Idle, Forget
<1>5. RunningMeansExecuting'
  BY DEF IInv, TypeOK, RunTypeOK, RunningMeansExecuting, Close, storeVars
<1>6. NoFailureSoFar' /\ StoodDown'
  BY DEF NoFailureSoFar, StoodDown, Close, Idle
<1>7. NothingStranded'
  BY DEF IInv, NothingStranded, StoodDown, Close, storeVars
<1>8. QED
  BY <1>1, <1>2, <1>3, <1>4, <1>5, <1>6, <1>7 DEF IInv, TypeOK

\* A crash loses the process and no row.
LEMMA InvCrash ==
  ASSUME IInv, Crash
  PROVE  IInv'
<1>1. StoreTypeOK' /\ UnusedRows'
  BY DEF IInv, TypeOK, StoreTypeOK, UnusedRows, Crash, storeVars
<1>2. RunTypeOK' /\ ProcessTypeOK'
  BY DEF IInv, TypeOK, RunTypeOK, ProcessTypeOK, Places, Crash, Forget, runVars
<1>3. RunsInOrder'
  BY DEF IInv, RunsInOrder, Crash, storeVars, runVars
<1>4. PlaceMatchesRun'
  BY DEF PlaceMatchesRun, Crash, Forget
<1>5. RunningMeansExecuting'
  BY DEF IInv, RunningMeansExecuting, PlaceMatchesRun, Crash, storeVars, runVars
<1>6. NoFailureSoFar' /\ StoodDown'
  BY DEF NoFailureSoFar, StoodDown, Crash
<1>7. NothingStranded'
  BY DEF IInv, NothingStranded, Crash, storeVars, runVars
<1>8. QED
  BY <1>1, <1>2, <1>3, <1>4, <1>5, <1>6, <1>7 DEF IInv, TypeOK

\* A shutdown only asks the loop to stop.
LEMMA InvShutdown ==
  ASSUME IInv, Shutdown
  PROVE  IInv'
<1>1. StoreTypeOK' /\ UnusedRows'
  BY DEF IInv, TypeOK, StoreTypeOK, UnusedRows, Shutdown, storeVars
<1>2. RunTypeOK' /\ ProcessTypeOK'
  BY DEF IInv, TypeOK, RunTypeOK, ProcessTypeOK, Shutdown, runVars
<1>3. RunsInOrder'
  BY DEF IInv, RunsInOrder, Shutdown, storeVars, runVars
<1>4. PlaceMatchesRun'
  BY DEF IInv, PlaceMatchesRun, Shutdown, runVars
<1>5. RunningMeansExecuting'
  BY DEF IInv, RunningMeansExecuting, Shutdown, storeVars, runVars
<1>6. NoFailureSoFar' /\ StoodDown'
  BY DEF IInv, NoFailureSoFar, StoodDown, Shutdown, storeVars, runVars
<1>7. NothingStranded'
  BY DEF IInv, NothingStranded, Shutdown, storeVars, runVars
<1>8. QED
  BY <1>1, <1>2, <1>3, <1>4, <1>5, <1>6, <1>7 DEF IInv, TypeOK

\* The process ends after the shutdown, a loop possibly cut off.
LEMMA InvExit ==
  ASSUME IInv, Exit
  PROVE  IInv'
<1>1. StoreTypeOK' /\ UnusedRows'
  BY DEF IInv, TypeOK, StoreTypeOK, UnusedRows, Exit, storeVars
<1>2. RunTypeOK' /\ ProcessTypeOK'
  BY DEF IInv, TypeOK, RunTypeOK, ProcessTypeOK, Places, Exit, Forget, runVars
<1>3. RunsInOrder'
  BY DEF IInv, RunsInOrder, Exit, storeVars, runVars
<1>4. PlaceMatchesRun'
  BY DEF PlaceMatchesRun, Exit, Forget
<1>5. RunningMeansExecuting'
  BY DEF IInv, RunningMeansExecuting, Exit, storeVars
<1>6. NoFailureSoFar' /\ StoodDown'
  BY DEF NoFailureSoFar, StoodDown, Exit
<1>7. NothingStranded'
  BY DEF IInv, NothingStranded, Exit, storeVars, runVars
<1>8. QED
  BY <1>1, <1>2, <1>3, <1>4, <1>5, <1>6, <1>7 DEF IInv, TypeOK

\* Recovery fails an item that a dead process left running.
LEMMA InvRecoverItem ==
  ASSUME IInv, NEW r \in Runs, NEW i \in Items, RecoverItem(r, i)
  PROVE  IInv'
<1>1. StoreTypeOK' /\ UnusedRows'
  BY DEF IInv, TypeOK, StoreTypeOK, UnusedRows, ItemStatus, RecoverItem, SetStatus,
    KeepRowsExceptStatus
<1>2. RunTypeOK' /\ ProcessTypeOK'
  BY DEF IInv, TypeOK, RunTypeOK, ProcessTypeOK, RecoverItem, runVars, procVars
<1>3. RunsInOrder'
  BY DEF IInv, RunsInOrder, RecoverItem, KeepRowsExceptStatus, runVars
<1>4. PlaceMatchesRun'
  BY DEF IInv, PlaceMatchesRun, RecoverItem, procVars
<1>5. RunningMeansExecuting'
  BY DEF IInv, RunningMeansExecuting, RecoverItem, SetStatus, KeepRowsExceptStatus, runVars,
    procVars
<1>6. NoFailureSoFar' /\ StoodDown'
  BY DEF NoFailureSoFar, StoodDown, RecoverItem, procVars
<1>7. NothingStranded'
  BY DEF IInv, NothingStranded, RecoverItem, SetStatus, KeepRowsExceptStatus, runVars
<1>8. QED
  BY <1>1, <1>2, <1>3, <1>4, <1>5, <1>6, <1>7 DEF IInv, TypeOK

\* Recovery parks a run that a dead process left running.
LEMMA InvRecoverRun ==
  ASSUME IInv, NEW r \in Runs, RecoverRun(r)
  PROVE  IInv'
<1>1. StoreTypeOK' /\ UnusedRows'
  BY DEF IInv, TypeOK, StoreTypeOK, UnusedRows, RecoverRun, storeVars
<1>2. RunTypeOK' /\ ProcessTypeOK'
  BY SyncType DEF IInv, TypeOK, RunTypeOK, ProcessTypeOK, Open, RecoverRun, procVars
<1>3. RunsInOrder'
  BY DEF IInv, RunsInOrder, Closed, RecoverRun, Interrupted, storeVars
<1>4. PlaceMatchesRun'
  BY DEF IInv, PlaceMatchesRun, RecoverRun, procVars
<1>5. RunningMeansExecuting'
  BY DEF IInv, RunningMeansExecuting, RecoverRun, Claimed, storeVars, procVars
<1>6. NoFailureSoFar' /\ StoodDown'
  BY DEF NoFailureSoFar, StoodDown, RecoverRun, procVars
<1>7. NothingStranded'
  BY DEF IInv, NothingStranded, Closed, RecoverRun, storeVars
<1>8. QED
  BY <1>1, <1>2, <1>3, <1>4, <1>5, <1>6, <1>7 DEF IInv, TypeOK

\* The server listens once recovery found nothing left over.
LEMMA InvListen ==
  ASSUME IInv, Listen
  PROVE  IInv'
<1>1. \A r \in Runs : runStatus[r] # "running"
  <2>1. SUFFICES ASSUME NEW r \in Runs, runStatus[r] = "running" PROVE FALSE
    OBVIOUS
  <2>2. r = lastRun /\ r \in Nat
    <3>1. r \in Nat /\ lastRun \in Nat
      BY DEF IInv, TypeOK, RunTypeOK, Runs
    <3>2. ~(r > lastRun) /\ ~(r < lastRun)
      BY <2>1 DEF IInv, RunsInOrder, Closed
    <3>3. QED
      BY <3>1, <3>2
  <2>3. r \in Interrupted
    BY <2>1, <2>2 DEF Interrupted
  <2>4. QED
    BY <2>3 DEF Listen
<1>2. StoreTypeOK' /\ UnusedRows'
  BY DEF IInv, TypeOK, StoreTypeOK, UnusedRows, Listen, storeVars
<1>3. RunTypeOK' /\ ProcessTypeOK'
  BY DEF IInv, TypeOK, RunTypeOK, ProcessTypeOK, Places, Listen, Goto, runVars
<1>4. RunsInOrder'
  BY DEF IInv, RunsInOrder, Listen, storeVars, runVars
<1>5. PlaceMatchesRun'
  BY DEF IInv, PlaceMatchesRun, Listen, Goto
<1>6. RunningMeansExecuting'
  BY <1>1 DEF IInv, RunningMeansExecuting, Listen, storeVars, runVars
<1>7. NoFailureSoFar' /\ StoodDown'
  BY DEF NoFailureSoFar, StoodDown, Listen, Goto
<1>8. NothingStranded'
  BY DEF IInv, NothingStranded, Listen, storeVars, runVars
<1>9. QED
  BY <1>2, <1>3, <1>4, <1>5, <1>6, <1>7, <1>8 DEF IInv, TypeOK

-------------------------------------------------------------------------------
(* The invariant holds.                                                      *)

\* The invariant holds of the empty database and the process that boots.
LEMMA InvInit == Init => IInv
<1> SUFFICES ASSUME Init PROVE IInv
  OBVIOUS
<1>1. TypeOK
  BY TypeInit
<1>2. UnusedRows /\ RunningMeansExecuting /\ NothingStranded
  BY DEF Init, StoreInit, UnusedRows, RunningMeansExecuting, NothingStranded, Closed
<1>3. RunsInOrder
  BY DEF Init, StoreInit, RunsInOrder, Runs, NoRun
<1>4. PlaceMatchesRun /\ NoFailureSoFar /\ StoodDown
  BY DEF Init, PlaceMatchesRun, NoFailureSoFar, StoodDown
<1>5. QED
  BY <1>1, <1>2, <1>3, <1>4 DEF IInv

\* A step that changes nothing keeps the invariant.
LEMMA InvStutter ==
  ASSUME IInv, UNCHANGED vars
  PROVE  IInv'
<1>1. TypeOK' /\ UnusedRows'
  BY DEF IInv, TypeOK, StoreTypeOK, RunTypeOK, ProcessTypeOK, UnusedRows, vars, storeVars, runVars, procVars
<1>2. RunsInOrder' /\ PlaceMatchesRun' /\ RunningMeansExecuting'
  BY DEF IInv, RunsInOrder, PlaceMatchesRun, RunningMeansExecuting, vars, storeVars, runVars, procVars
<1>3. NoFailureSoFar' /\ StoodDown' /\ NothingStranded'
  BY DEF IInv, NoFailureSoFar, StoodDown, NothingStranded, vars, storeVars, runVars, procVars
<1>4. QED
  BY <1>1, <1>2, <1>3 DEF IInv

\* Every step of the system preserves the invariant.
LEMMA InvNext ==
  ASSUME IInv, [Next]_vars
  PROVE  IInv'
<1>1. CASE Stage
  BY <1>1, InvStage
<1>2. CASE RunRequest
  BY <1>2, InvStart, InvResume, InvCancelIdle, InvCancelActive DEF RunRequest
<1>3. CASE HandlerSettles
  BY <1>3, InvHandlerSucceeds, InvHandlerFails, InvHandlerAborted, InvRowVanished DEF HandlerSettles
<1>4. CASE ExecutorStep
  <2>1. CASE StartClaim \/ ResumeClaim \/ ResumeLaunch
    BY <2>1, InvStartClaim, InvResumeClaim, InvResumeLaunch
  <2>2. CASE \E i \in Items : ResumeReset(i) \/ ResumeSkip(i) \/ SkipBlocked(i) \/ BeginItem(i)
    BY <2>2, InvResumeReset, InvResumeSkip, InvSkipBlocked, InvBeginItem
  <2>3. CASE Finish \/ SeeAbort \/ Pause \/ Abort \/ Continue \/ StandDown \/ Close
    BY <2>3, InvFinish, InvSeeAbort, InvPause, InvAbort, InvContinue, InvStandDown, InvClose
  <2>4. QED
    BY <1>4, <2>1, <2>2, <2>3 DEF ExecutorStep
<1>5. CASE Recovery
  BY <1>5, InvRecoverItem, InvRecoverRun, InvListen DEF Recovery
<1>6. CASE Process
  BY <1>6, InvCrash, InvShutdown, InvExit DEF Process
<1>7. CASE UNCHANGED vars
  BY <1>7, InvStutter
<1>8. QED
  BY <1>1, <1>2, <1>3, <1>4, <1>5, <1>6, <1>7 DEF Next

\* The inductive invariant holds in every reachable state, however many rows,
\* runs and instances there are and wherever the process dies.
THEOREM Invariance == Spec => []IInv
<1>1. Init => IInv
  BY InvInit
<1>2. IInv /\ [Next]_vars => IInv'
  BY InvNext
<1>3. QED
  BY <1>1, <1>2, PTL DEF Spec

-------------------------------------------------------------------------------
(* What follows from the invariant.                                          *)

\* The three parts of the state keep their types.
THEOREM TypeCorrect == Spec => []TypeOK
<1>1. IInv => TypeOK
  BY DEF IInv
<1>2. QED
  BY <1>1, Invariance, PTL

\* Whatever crashes, recoveries, cancels and resumes come, at most one run is
\* open and it is the newest one.
THEOREM OneOpenRunHolds == Spec => []OneOpenRun
<1>1. IInv => OneOpenRun
  <2>1. SUFFICES ASSUME IInv, NEW r \in OpenRuns PROVE r = lastRun
    BY DEF OneOpenRun
  <2>2. r \in Runs /\ runStatus[r] \in Open
    BY DEF OpenRuns
  <2>3. r \in Nat /\ lastRun \in Nat
    BY <2>1, <2>2 DEF IInv, TypeOK, RunTypeOK, Runs
  <2>4. ~(r > lastRun) /\ ~(r < lastRun)
    BY <2>1, <2>2 DEF IInv, RunsInOrder, Open, Closed
  <2>5. QED
    BY <2>3, <2>4
<1>2. QED
  BY <1>1, Invariance, PTL

\* After any crash, boot and request, a row that says "running" is being
\* executed, or the server is not listening yet.
THEOREM RunningMeansExecutingHolds == Spec => []RunningMeansExecuting
<1>1. IInv => RunningMeansExecuting
  BY DEF IInv
<1>2. QED
  BY <1>1, Invariance, PTL

\* With onError "pause" nothing runs after a failed step.
THEOREM SafetyHaltHolds == Spec => []SafetyHalt
<1>1. IInv => SafetyHalt
  BY DEF IInv, NoFailureSoFar, SafetyHalt
<1>2. QED
  BY <1>1, Invariance, PTL

\* A run that ended, unless its row vanished under it, leaves no item behind.
THEOREM NothingStrandedHolds == Spec => []NothingStranded
<1>1. IInv => NothingStranded
  BY DEF IInv
<1>2. QED
  BY <1>1, Invariance, PTL

-------------------------------------------------------------------------------
(* QueueExecutor implements RunLifecycle.                                    *)

\* The process is in the handler of no run, before and after, and no run row
\* changes its status: the abstract run does not move.
LEMMA Stutters ==
  ASSUME runStatus' = runStatus, ApplyingRun' = ApplyingRun
  PROVE  [Lifecycle!Next]_(Lifecycle!vars)
BY DEF Lifecycle!vars

\* Staging stutters; a start, resume or cancel is the life cycle's own.
LEMMA StagingAndRequestsRefine ==
  ASSUME IInv, Stage \/ RunRequest
  PROVE  [Lifecycle!Next]_(Lifecycle!vars)
<1>1. CASE Stage \/ CancelActive
  <2>1. runStatus' = runStatus /\ ApplyingRun' = ApplyingRun
    BY <1>1 DEF Stage, CancelActive, runVars, procVars, ApplyingRun
  <2>2. QED
    BY <2>1, Stutters
<1>2. ASSUME NEW selected \in SUBSET Pending, NEW policy \in Policies, Start(selected, policy)
      PROVE  [Lifecycle!Next]_(Lifecycle!vars)
  <2> DEFINE r == lastRun + 1
  <2>1. r \in Runs
    BY <1>2 DEF IInv, TypeOK, RunTypeOK, Start, CreateRun, Runs
  <2>2. runStatus' = [runStatus EXCEPT ![r] = "running"] /\ ApplyingRun' = ApplyingRun
    BY <1>2 DEF Start, CreateRun, ApplyingRun
  <2>3. \A q \in Runs : runStatus[q] \notin Open
    BY <1>2 DEF Start, OpenRuns
  <2>4. runStatus[r] = "none"
    BY <2>1 DEF IInv, TypeOK, RunTypeOK, RunsInOrder, Runs
  <2>5. \A q \in Runs : q > r => runStatus[q] = "none"
    BY <2>1 DEF IInv, TypeOK, RunTypeOK, RunsInOrder, Runs
  <2>6. \A q \in Runs : q < r => runStatus[q] \in Closed
    BY <2>1, <2>3 DEF IInv, TypeOK, RunTypeOK, RunsInOrder, Runs, Open, Closed
  <2> HIDE DEF r
  <2>7. Lifecycle!OpenRun(r)
    BY <2>2, <2>4, <2>5, <2>6 DEF Lifecycle!OpenRun, Lifecycle!Runs, Lifecycle!Closed, Runs, Closed
  <2>8. QED
    BY <2>1, <2>7 DEF Lifecycle!Next, Lifecycle!Runs, Runs
<1>3. ASSUME NEW r \in Runs, NEW mode \in {"retryFailed", "skipFailed", "neither"}, Resume(r, mode)
      PROVE  [Lifecycle!Next]_(Lifecycle!vars)
  <2>1. runStatus' = runStatus /\ ApplyingRun' = ApplyingRun
    BY <1>3 DEF Resume, runVars, ApplyingRun
  <2>2. QED
    BY <2>1, Stutters
<1>4. ASSUME NEW r \in Runs, CancelIdle(r)
      PROVE  [Lifecycle!Next]_(Lifecycle!vars)
  <2>1. runStatus' = runStatus /\ ApplyingRun' = ApplyingRun
    BY <1>4 DEF CancelIdle, runVars, ApplyingRun
  <2>2. QED
    BY <2>1, Stutters
<1>5. QED
  BY <1>1, <1>2, <1>3, <1>4 DEF RunRequest

\* The step of a handler ends, with or without its run.
LEMMA HandlerRefines ==
  ASSUME IInv, HandlerSettles
  PROVE  [Lifecycle!Next]_(Lifecycle!vars)
<1>1. pc = "handler" /\ pc' # "handler" /\ execRun \in Runs /\ runStatus[execRun] = "running"
  BY DEF IInv, PlaceMatchesRun, HandlerSettles, HandlerSucceeds, HandlerFails, HandlerAborted,
         RowVanished, Goto, Idle
<1>2. ApplyingRun = execRun /\ ApplyingRun' = NoRun /\ execRun # NoRun
  BY <1>1 DEF ApplyingRun, Runs, NoRun
<1>3. CASE HandlerSucceeds \/ HandlerFails \/ HandlerAborted
  <2>1. runStatus' = runStatus
    BY <1>3 DEF HandlerSucceeds, HandlerFails, HandlerAborted
  <2>2. Lifecycle!EndStep
    BY <1>2, <2>1 DEF Lifecycle!EndStep, Lifecycle!NoRun, NoRun
  <2>3. QED
    BY <2>2 DEF Lifecycle!Next
<1>4. CASE \E threw \in BOOLEAN : RowVanished(threw)
  <2>1. runStatus' = [runStatus EXCEPT ![execRun] = "failed"]
    BY <1>4 DEF RowVanished
  <2>2. Lifecycle!CloseRun(execRun, "failed")
    BY <1>1, <1>2, <2>1 DEF Lifecycle!CloseRun, Lifecycle!Closed, Lifecycle!NoRun, NoRun
  <2>3. QED
    BY <1>1, <2>2 DEF Lifecycle!Next, Lifecycle!Runs, Lifecycle!Closed, Runs
<1>5. QED
  BY <1>3, <1>4 DEF HandlerSettles

\* The loop applies one item at a time and ends its run at rest.
LEMMA ExecutorRefines ==
  ASSUME IInv, ExecutorStep
  PROVE  [Lifecycle!Next]_(Lifecycle!vars)
<1>1. CASE StartClaim \/ ResumeClaim \/ SeeAbort \/ Abort \/ Continue \/ StandDown
  <2>1. runStatus' = runStatus /\ ApplyingRun' = ApplyingRun
    BY <1>1 DEF StartClaim, ResumeClaim, SeeAbort, Abort, Continue, StandDown, Goto, runVars, ApplyingRun
  <2>2. QED
    BY <2>1, Stutters
<1>2. ASSUME NEW i \in Items, ResumeReset(i) \/ ResumeSkip(i) \/ SkipBlocked(i)
      PROVE  [Lifecycle!Next]_(Lifecycle!vars)
  <2>1. runStatus' = runStatus /\ ApplyingRun' = ApplyingRun
    BY <1>2 DEF ResumeReset, ResumeSkip, SkipBlocked, runVars, procVars, ApplyingRun
  <2>2. QED
    BY <2>1, Stutters
<1>3. CASE ResumeLaunch
  <2>1. execRun \in Runs /\ runStatus[execRun] = "paused" /\ ApplyingRun = NoRun /\ ApplyingRun' = NoRun
    BY <1>3 DEF IInv, PlaceMatchesRun, ResumeLaunch, Goto, ApplyingRun
  <2>2. runStatus' = [runStatus EXCEPT ![execRun] = "running"]
    BY <1>3 DEF ResumeLaunch
  <2>3. Lifecycle!ResumeRun(execRun)
    BY <2>1, <2>2 DEF Lifecycle!ResumeRun, Lifecycle!NoRun, NoRun
  <2>4. QED
    BY <2>1, <2>3 DEF Lifecycle!Next, Lifecycle!Runs, Runs
<1>4. ASSUME NEW i \in Items, BeginItem(i)
      PROVE  [Lifecycle!Next]_(Lifecycle!vars)
  <2>1. execRun \in Runs /\ runStatus[execRun] = "running" /\ ApplyingRun = NoRun /\ ApplyingRun' = execRun
    BY <1>4 DEF IInv, PlaceMatchesRun, BeginItem, ApplyingRun
  <2>2. runStatus' = runStatus
    BY <1>4 DEF BeginItem
  <2>3. Lifecycle!ApplyStep(execRun)
    BY <2>1, <2>2 DEF Lifecycle!ApplyStep, Lifecycle!NoRun, NoRun
  <2>4. QED
    BY <2>1, <2>3 DEF Lifecycle!Next, Lifecycle!Runs, Runs
<1>5. CASE Pause
  <2>1. execRun \in Runs /\ runStatus[execRun] = "running" /\ ApplyingRun = NoRun /\ ApplyingRun' = NoRun
    BY <1>5 DEF IInv, PlaceMatchesRun, Pause, Idle, ApplyingRun
  <2>2. runStatus' = [runStatus EXCEPT ![execRun] = "paused"]
    BY <1>5 DEF Pause
  <2>3. Lifecycle!PauseRun(execRun)
    BY <2>1, <2>2 DEF Lifecycle!PauseRun, Lifecycle!NoRun, NoRun
  <2>4. QED
    BY <2>1, <2>3 DEF Lifecycle!Next, Lifecycle!Runs, Runs
<1>6. CASE Finish \/ Close
  <2>1. PICK outcome \in Closed :
          /\ runStatus' = [runStatus EXCEPT ![execRun] = outcome]
          /\ runStatus[execRun] = "running" \/ (runStatus[execRun] = "paused" /\ outcome = "cancelled")
    <3>1. CASE Finish
      BY <3>1 DEF IInv, PlaceMatchesRun, Finish, Closed
    <3>2. CASE Close
      BY <3>2 DEF IInv, PlaceMatchesRun, Close, Open, Closed
    <3>3. QED
      BY <1>6, <3>1, <3>2
  <2>2. execRun \in Runs /\ ApplyingRun' = NoRun
    BY <1>6 DEF IInv, PlaceMatchesRun, Finish, Close, Idle, ApplyingRun
  <2>3. Lifecycle!CloseRun(execRun, outcome)
    BY <2>1, <2>2 DEF Lifecycle!CloseRun, Lifecycle!Closed, Lifecycle!NoRun, NoRun, Closed
  <2>4. QED
    BY <2>2, <2>3 DEF Lifecycle!Next, Lifecycle!Runs, Lifecycle!Closed, Runs, Closed
<1>7. QED
  BY <1>1, <1>2, <1>3, <1>4, <1>5, <1>6 DEF ExecutorStep

\* A crash, shutdown or recovery ends or parks the open run only.
LEMMA ProcessRefines ==
  ASSUME IInv, Recovery \/ Process
  PROVE  [Lifecycle!Next]_(Lifecycle!vars)
<1>1. CASE Listen \/ Shutdown \/ Exit
  <2>1. runStatus' = runStatus /\ ApplyingRun' = ApplyingRun
    BY <1>1 DEF Listen, Shutdown, Exit, Goto, runVars, ApplyingRun
  <2>2. QED
    BY <2>1, Stutters
<1>2. ASSUME NEW r \in Runs, NEW i \in Items, RecoverItem(r, i)
      PROVE  [Lifecycle!Next]_(Lifecycle!vars)
  <2>1. runStatus' = runStatus /\ ApplyingRun' = ApplyingRun
    BY <1>2 DEF RecoverItem, runVars, procVars, ApplyingRun
  <2>2. QED
    BY <2>1, Stutters
<1>3. ASSUME NEW r \in Runs, RecoverRun(r)
      PROVE  [Lifecycle!Next]_(Lifecycle!vars)
  <2>1. runStatus[r] = "running" /\ ApplyingRun = NoRun /\ ApplyingRun' = NoRun
    BY <1>3 DEF RecoverRun, Interrupted, procVars, ApplyingRun
  <2>2. runStatus' = [runStatus EXCEPT ![r] = "paused"]
    BY <1>3 DEF RecoverRun
  <2>3. Lifecycle!PauseRun(r)
    BY <2>1, <2>2 DEF Lifecycle!PauseRun, Lifecycle!NoRun, NoRun
  <2>4. QED
    BY <2>3 DEF Lifecycle!Next, Lifecycle!Runs, Runs
<1>4. CASE Crash
  <2>1. runStatus' = runStatus /\ ApplyingRun' = NoRun
    BY <1>4 DEF Crash, runVars, ApplyingRun
  <2>2. CASE ApplyingRun = NoRun
    BY <2>1, <2>2, Stutters
  <2>3. CASE ApplyingRun # NoRun
    <3>1. Lifecycle!EndStep
      BY <2>1, <2>3 DEF Lifecycle!EndStep, Lifecycle!NoRun, NoRun
    <3>2. QED
      BY <3>1 DEF Lifecycle!Next
  <2>4. QED
    BY <2>2, <2>3
<1>5. QED
  BY <1>1, <1>2, <1>3, <1>4 DEF Recovery, Process

\* The executor, crashes and staging requests included, takes its runs through
\* the stages a client of /queue/runs may rely on: one run open at a time,
\* halts and ends only between steps, closed runs for good.
THEOREM Refinement == Spec => ImplementsLifecycle
<1>1. Init => Lifecycle!Init
  BY DEF Init, Lifecycle!Init, Lifecycle!Runs, Lifecycle!NoRun, Runs, NoRun, ApplyingRun
<1>2. IInv /\ [Next]_vars => [Lifecycle!Next]_(Lifecycle!vars)
  <2>1. SUFFICES ASSUME IInv, [Next]_vars PROVE [Lifecycle!Next]_(Lifecycle!vars)
    OBVIOUS
  <2>2. CASE UNCHANGED vars
    <3>1. runStatus' = runStatus /\ ApplyingRun' = ApplyingRun
      BY <2>2 DEF vars, runVars, procVars, ApplyingRun
    <3>2. QED
      BY <3>1, Stutters
  <2>3. CASE Next
    BY <2>1, <2>3, StagingAndRequestsRefine, HandlerRefines, ExecutorRefines, ProcessRefines DEF Next
  <2>4. QED
    BY <2>1, <2>2, <2>3
<1>3. QED
  BY <1>1, <1>2, Invariance, PTL DEF Spec, ImplementsLifecycle, Lifecycle!Spec

-------------------------------------------------------------------------------
(* What a step may never do.                                                 *)

\* An item begun since the launch waits for the run no more: one that is put
\* back in line by a retry is out of the run.
BegunApart == \A i \in begun : status[i] = "pending" => runId[i] # execRun

\* Requests and the process: whatever puts an item back in line takes it out of
\* the run, and whatever claims items has begun none.
LEMMA BegunApartRequests ==
  ASSUME IInv, BegunApart, Stage \/ RunRequest \/ Recovery \/ Process
  PROVE  BegunApart'
<1>1. CASE Stage
  <2>1. \A i \in Items : ItemStaged(i)
    BY <1>1, StagingStages DEF IInv, TypeOK, Stage
  <2>2. UNCHANGED procVars /\ (pc = "handler" \/ begun = {})
    BY <1>1 DEF Stage, Serving, IInv, PlaceMatchesRun
  <2>3. pc = "handler" => execRun # NoRun
    BY DEF IInv, PlaceMatchesRun, Runs, NoRun
  <2>4. begun \subseteq Items
    BY DEF IInv, TypeOK, ProcessTypeOK
  <2>5. QED
    BY <2>1, <2>2, <2>3, <2>4 DEF BegunApart, ItemStaged, procVars
<1>2. CASE RunRequest
  <2>1. CASE CancelActive
    BY <2>1 DEF CancelActive, BegunApart, storeVars
  <2>2. CASE ~CancelActive
    BY <1>2, <2>2 DEF RunRequest, Start, CreateRun, Resume, CancelIdle, IInv, PlaceMatchesRun, BegunApart
  <2>3. QED
    BY <2>1, <2>2
<1>3. CASE Recovery
  BY <1>3 DEF Recovery, RecoverItem, RecoverRun, Listen, Goto, procVars, IInv, PlaceMatchesRun, BegunApart
<1>4. CASE Process
  BY <1>4 DEF Process, Crash, Shutdown, Exit, Forget, storeVars, BegunApart
<1>5. QED
  BY <1>1, <1>2, <1>3, <1>4

\* The executor: an item it begins is not in line, nor is one that has settled.
LEMMA BegunApartExecutor ==
  ASSUME IInv, BegunApart, HandlerSettles \/ ExecutorStep
  PROVE  BegunApart'
<1>1. CASE HandlerSettles
  <2>1. ASSUME NEW s \in {"succeeded", "failed", "cancelled"}, SetStatus(execItem, s),
               runId' = runId, execRun' = execRun, begun' = begun
        PROVE  BegunApart'
    BY <2>1 DEF SetStatus, BegunApart, IInv, TypeOK, StoreTypeOK, ProcessTypeOK
  <2>2. QED
    BY <1>1, <2>1 DEF HandlerSettles, HandlerSucceeds, HandlerFails, HandlerAborted, RowVanished,
                      KeepRowsExceptStatus, Goto, Idle, Forget, BegunApart
<1>2. ASSUME NEW i \in Items, BeginItem(i) PROVE BegunApart'
  BY <1>2 DEF BeginItem, SetStatus, KeepRowsExceptStatus, BegunApart, IInv, TypeOK, StoreTypeOK, ProcessTypeOK
<1>3. ASSUME NEW i \in Items, SkipBlocked(i) PROVE BegunApart'
  BY <1>3 DEF SkipBlocked, SetStatus, KeepRowsExceptStatus, procVars, BegunApart, IInv, TypeOK,
              StoreTypeOK, ProcessTypeOK
<1>4. CASE StartClaim \/ ResumeClaim \/ ResumeLaunch
  <2>1. begun' = {} \/ (begun' = begun /\ UNCHANGED <<status, runId, execRun>>)
    BY <1>4 DEF StartClaim, ResumeClaim, ResumeLaunch, Goto, storeVars, IInv, PlaceMatchesRun
  <2>2. QED
    BY <2>1 DEF BegunApart
<1>5. ASSUME NEW i \in Items, ResumeReset(i) \/ ResumeSkip(i) PROVE begun' = {}
  BY <1>5 DEF ResumeReset, ResumeSkip, procVars, IInv, PlaceMatchesRun
<1>6. CASE Abort \/ StandDown
  BY <1>6 DEF Abort, StandDown, StandDownItems, KeepRowsExceptStatus, Goto, BegunApart, IInv, TypeOK, ProcessTypeOK
<1>7. CASE Finish \/ Pause \/ Close
  BY <1>7 DEF Finish, Pause, Close, Idle, Forget, BegunApart
<1>8. CASE SeeAbort \/ Continue
  BY <1>8 DEF SeeAbort, Continue, Goto, storeVars, BegunApart
<1>9. QED
  BY <1>1, <1>2, <1>3, <1>4, <1>5, <1>6, <1>7, <1>8 DEF ExecutorStep, BegunApart

\* The executor begins an item at most once per launch, also when the user
\* retries it while the run goes on: the retry takes it out of the run, and
\* the loop only looks at the items of the run.
THEOREM BegunOnce == Spec => BegunOncePerLaunch
<1>1. Init => BegunApart
  BY DEF Init, BegunApart
<1>2. IInv /\ BegunApart /\ [Next]_vars => BegunApart'
  <2>1. CASE UNCHANGED vars
    BY <2>1 DEF vars, storeVars, procVars, BegunApart
  <2>2. QED
    BY <2>1, BegunApartRequests, BegunApartExecutor DEF Next
<1>3. ASSUME IInv, BegunApart, [Next]_vars
      PROVE  [\A i \in Items : pc = "loop" /\ status[i] = "pending" /\ status'[i] = "running"
                => i \notin begun]_vars
  <2>1. SUFFICES ASSUME Next, NEW i \in Items, pc = "loop", status[i] = "pending", status'[i] = "running"
                 PROVE  i \notin begun
    BY <1>3
  <2>2. status \in [Items -> ItemStatus \cup {"absent"}]
    BY <1>3 DEF IInv, TypeOK, StoreTypeOK
  <2>3. ~Stage /\ ~RunRequest /\ ~HandlerSettles /\ ~Recovery
    BY <2>1 DEF Stage, Serving, RunRequest, Start, CreateRun, Resume, CancelIdle, CancelActive, HandlerSettles,
                HandlerSucceeds, HandlerFails, HandlerAborted, RowVanished, Recovery, RecoverItem, RecoverRun, Listen
  <2>4. ~Process
    BY <2>1 DEF Process, Crash, Shutdown, Exit, Serving, storeVars
  <2>5. PICK j \in Items : BeginItem(j)
    <3>1. ASSUME NEW k \in Items PROVE ~ResumeReset(k) /\ ~ResumeSkip(k) /\ ~SkipBlocked(k)
      BY <2>1, <2>2, <3>1 DEF ResumeReset, ResumeSkip, SkipBlocked, SetStatus
    <3>2. ~StartClaim /\ ~ResumeClaim /\ ~ResumeLaunch /\ ~Finish /\ ~SeeAbort /\ ~Pause
          /\ ~Abort /\ ~Continue /\ ~StandDown /\ ~Close
      BY <2>1 DEF StartClaim, ResumeClaim, ResumeLaunch, Finish, SeeAbort, Pause, Abort, Continue,
                  StandDown, Close, storeVars
    <3>3. QED
      BY <2>1, <2>3, <2>4, <3>1, <3>2 DEF Next, ExecutorStep
  <2>6. i = j
    BY <2>1, <2>2, <2>5 DEF BeginItem, SetStatus
  <2>7. runId[i] = execRun
    BY <2>5, <2>6 DEF BeginItem, NextItem, IsFirst, WaitingIn, Claimed
  <2>8. QED
    BY <1>3, <2>1, <2>7 DEF BegunApart
<1>4. IInv /\ BegunApart /\ [Next]_vars =>
        [\A i \in Items : pc = "loop" /\ status[i] = "pending" /\ status'[i] = "running"
           => i \notin begun]_vars
  BY <1>3
<1>5. QED
  BY <1>1, <1>2, <1>4, Invariance, PTL DEF Spec, BegunOncePerLaunch

\* What a step that closes a run owes its row.
FreshCounts(r) ==
  /\ counters'[r] = Count(status', r)
  /\ runStatus'[r] = "completed" => counters'[r].failed = 0

\* The three ways a run ends write its row from the rows of its items, the
\* catch of launch() excepted.
LEMMA ClosesFresh ==
  ASSUME IInv, Next, NEW r \in Runs, runStatus[r] \in Open, runStatus'[r] \in Closed, ~died'[r]
  PROVE  FreshCounts(r)
<1>1. runStatus[r] # runStatus'[r]
  BY DEF Open, Closed
<1>2. /\ runStatus \in [Runs -> Open \cup Closed \cup {"none"}] /\ died \in [Runs -> BOOLEAN]
      /\ counters \in [Runs -> [succeeded : Nat, failed : Nat, skipped : Nat]]
  BY DEF IInv, TypeOK, RunTypeOK
<1>3. ~Stage /\ ~RunRequest /\ ~Recovery /\ ~Process
  <2>1. ~Stage /\ ~Process
    BY <1>1 DEF Stage, Process, Crash, Shutdown, Exit, runVars
  <2>2. ~RunRequest
    BY <1>1, <1>2 DEF RunRequest, Start, CreateRun, Resume, CancelIdle, CancelActive, runVars, Closed
  <2>3. ~Recovery
    BY <1>1, <1>2 DEF Recovery, RecoverItem, RecoverRun, Listen, runVars, Closed
  <2>4. QED
    BY <2>1, <2>2, <2>3
<1>4. ~HandlerSettles
  <2>1. ASSUME NEW threw \in BOOLEAN PROVE ~RowVanished(threw)
    BY <1>1, <1>2 DEF RowVanished
  <2>2. QED
    BY <1>1, <2>1 DEF HandlerSettles, HandlerSucceeds, HandlerFails, HandlerAborted
<1>5. Finish \/ Close
  <2>1. ASSUME NEW i \in Items PROVE ~ResumeReset(i) /\ ~ResumeSkip(i) /\ ~SkipBlocked(i) /\ ~BeginItem(i)
    BY <1>1 DEF ResumeReset, ResumeSkip, SkipBlocked, BeginItem, runVars
  <2>2. ~StartClaim /\ ~ResumeClaim /\ ~SeeAbort /\ ~Abort /\ ~Continue /\ ~StandDown
    BY <1>1 DEF StartClaim, ResumeClaim, SeeAbort, Abort, Continue, StandDown, runVars
  <2>3. ~ResumeLaunch /\ ~Pause
    BY <1>1, <1>2 DEF ResumeLaunch, Pause, Closed
  <2>4. QED
    BY <1>3, <1>4, <2>1, <2>2, <2>3 DEF Next, ExecutorStep
<1>6. SyncCounters(execRun) /\ r = execRun
  BY <1>1, <1>2, <1>5 DEF Finish, Close
<1>7. counters'[r] = Count(status', r)
  BY <1>2, <1>6 DEF SyncCounters
<1>8. counters'[r].failed \in Nat
  BY <1>7, CountRecord
<1>9. runStatus'[r] = "completed" => ~(counters'[r].failed > 0)
  BY <1>2, <1>5, <1>6 DEF Finish, Close
<1>10. QED
  BY <1>7, <1>8, <1>9 DEF FreshCounts

\* "The run row stays a cache": a run that ends ends with the counts of its
\* rows, whatever was retried or cleared while it was open, and is "completed"
\* only with no failed item.
THEOREM ClosingCounts == Spec => ClosingCountsAreFresh
<1>1. ASSUME IInv, [Next]_vars
      PROVE  [\A r \in Runs : runStatus[r] \in Open /\ runStatus'[r] \in Closed /\ ~died'[r] =>
                /\ counters'[r] = Count(status', r)
                /\ runStatus'[r] = "completed" => counters'[r].failed = 0]_vars
  BY <1>1, ClosesFresh DEF FreshCounts
<1>2. IInv /\ [Next]_vars =>
        [\A r \in Runs : runStatus[r] \in Open /\ runStatus'[r] \in Closed /\ ~died'[r] =>
           /\ counters'[r] = Count(status', r)
           /\ runStatus'[r] = "completed" => counters'[r].failed = 0]_vars
  BY <1>1
<1>3. QED
  BY <1>2, Invariance, PTL DEF Spec, ClosingCountsAreFresh
=============================================================================
