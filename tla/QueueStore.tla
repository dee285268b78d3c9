------------------------------ MODULE QueueStore ------------------------------
(***************************************************************************)
(* The staging queue: table queue_items and the requests that edit it,     *)
(* QueueRepository in apps/server/src/repositories/queue.repo.ts and the   *)
(* staging half of apps/server/src/routes/queue.routes.ts.                 *)
(*                                                                         *)
(* better-sqlite3 is synchronous and the server is one process, so each    *)
(* request is one atomic step.  Each column of the table is a function on  *)
(* Items; a row that does not exist has status "absent".  Payloads,        *)
(* labels, timestamps and the attempts counter are left out: no decision   *)
(* below reads them.                                                       *)
(***************************************************************************)
EXTENDS Integers, FiniteSets, Sequences

CONSTANTS
  MaxItems,    \* bound: ids handed out by AUTOINCREMENT (ids are never reused)
  MaxBatch,    \* bound: items in one POST /queue
  Instances,   \* the *Arr instances configured at the start
  Disk         \* instance_id NULL: an fs.* item, which belongs to the host

ASSUME BoundsAssumption == MaxItems \in Nat \ {0} /\ MaxBatch \in Nat \ {0}
ASSUME DiskAssumption == Disk \notin Instances

VARIABLES
  status,      \* status, or "absent" when there is no such row
  runId,       \* run_id: the run that claimed the item, or NoRun
  dependsOn,   \* depends_on_id, or NoItem
  sortOrder,   \* sort_order
  instance,    \* instance_id, or Disk
  lastItem,    \* highest id handed out
  instances    \* rows of table instances

storeVars == <<status, runId, dependsOn, sortOrder, instance, lastItem, instances>>

Items == 1 .. MaxItems
NoItem == 0
NoRun == 0

ItemStatus == {"pending", "running", "succeeded", "failed", "skipped", "cancelled"}
Finished == {"succeeded", "failed", "skipped", "cancelled"}

Rows == {i \in Items : status[i] # "absent"}
Pending == {i \in Items : status[i] = "pending"}

\* ORDER BY sort_order, id: does row i come before row j?
Before(i, j) == sortOrder[i] < sortOrder[j] \/ (sortOrder[i] = sortOrder[j] /\ i < j)

StoreInit ==
  /\ status = [i \in Items |-> "absent"]
  /\ runId = [i \in Items |-> NoRun]
  /\ dependsOn = [i \in Items |-> NoItem]
  /\ sortOrder = [i \in Items |-> 0]
  /\ instance = [i \in Items |-> Disk]
  /\ lastItem = 0
  /\ instances = Instances

-------------------------------------------------------------------------------
(* Deleting rows.  depends_on_id is ON DELETE CASCADE: a deleted producer    *)
(* takes its dependents with it, and theirs, whatever their status.          *)

\* The least set of rows that holds S and the dependents of its members.
Cascade(S) ==
  {i \in Rows : \A T \in SUBSET Rows :
     (S \subseteq T /\ \A j \in Rows : dependsOn[j] \in T => j \in T) => i \in T}

DeleteRows(S) ==
  LET gone == Cascade(S) IN
  /\ status' = [i \in Items |-> IF i \in gone THEN "absent" ELSE status[i]]
  /\ runId' = [i \in Items |-> IF i \in gone THEN NoRun ELSE runId[i]]
  /\ dependsOn' = [i \in Items |-> IF i \in gone THEN NoItem ELSE dependsOn[i]]
  /\ sortOrder' = [i \in Items |-> IF i \in gone THEN 0 ELSE sortOrder[i]]
  /\ instance' = [i \in Items |-> IF i \in gone THEN Disk ELSE instance[i]]
  /\ UNCHANGED lastItem

-------------------------------------------------------------------------------
(* The requests.                                                             *)

\* SELECT COALESCE(MAX(sort_order), 0)
IsHighestOrder(n) ==
  /\ \A i \in Rows : sortOrder[i] <= n
  /\ n = 0 \/ \E i \in Rows : sortOrder[i] = n

\* POST /queue.  The batch is one transaction: a bad item rejects all of it.
Push(batch) ==
  LET new == lastItem + 1 .. lastItem + Len(batch)
      Entry(i) == batch[i - lastItem]
  IN
  /\ lastItem + Len(batch) <= MaxItems
  /\ \A i \in new :
       /\ Entry(i).instance \in instances \cup {Disk}
       /\ Entry(i).dependsOn \in Rows \cup (lastItem + 1 .. i - 1) \cup {NoItem}
  /\ \E top \in 0 .. MaxItems :
       /\ IsHighestOrder(top)
       /\ sortOrder' = [i \in Items |-> IF i \in new THEN top + i - lastItem ELSE sortOrder[i]]
  /\ status' = [i \in Items |-> IF i \in new THEN "pending" ELSE status[i]]
  /\ dependsOn' = [i \in Items |-> IF i \in new THEN Entry(i).dependsOn ELSE dependsOn[i]]
  /\ instance' = [i \in Items |-> IF i \in new THEN Entry(i).instance ELSE instance[i]]
  /\ lastItem' = lastItem + Len(batch)
  /\ UNCHANGED <<runId, instances>>

\* PATCH /queue/reorder.  The code compares the length of the list with the
\* number of pending items and tests each id for membership, so a list that
\* names an item twice and another not at all passes.  "place" is the
\* `position` map, and the sort_order the two update passes leave: the last
\* occurrence wins.
Reorder(ids) ==
  LET listed == {ids[k] : k \in DOMAIN ids} IN
  /\ ids \in [1 .. Cardinality(Pending) -> Pending]
  /\ \E place \in [listed -> DOMAIN ids] :
       /\ \A i \in listed :
            /\ ids[place[i]] = i
            /\ \A k \in DOMAIN ids : k > place[i] => ids[k] # i
       /\ \A i \in listed : dependsOn[i] \in listed => place[dependsOn[i]] <= place[i]
       /\ sortOrder' = [i \in Items |-> IF i \in listed THEN place[i] ELSE sortOrder[i]]
  /\ UNCHANGED <<status, runId, dependsOn, instance, lastItem, instances>>

\* DELETE /queue/:id
Remove(i) ==
  /\ status[i] \notin {"absent", "running"}
  /\ DeleteRows({i})
  /\ UNCHANGED instances

\* DELETE /queue, for the statuses the query names (Finished by default).
Clear(statuses) ==
  /\ \E i \in Items : status[i] \in statuses
  /\ DeleteRows({i \in Items : status[i] \in statuses})
  /\ UNCHANGED instances

\* Mutated form of Retry: run_id is kept.
RetryKeepingRun(i) ==
  /\ status[i] \notin {"absent", "running"}
  /\ status' = [status EXCEPT ![i] = "pending"]
  /\ UNCHANGED <<runId, dependsOn, sortOrder, instance, lastItem, instances>>

\* POST /queue/:id/retry, resetToPending: every status but "running" is
\* accepted.  The item leaves its run and keeps its sort_order.
Retry(i) ==
  /\ status[i] \notin {"absent", "running"}
  /\ status' = [status EXCEPT ![i] = "pending"]
  /\ runId' = [runId EXCEPT ![i] = NoRun]
  /\ UNCHANGED <<dependsOn, sortOrder, instance, lastItem, instances>>

\* DELETE /instances/:id.  instance_id is ON DELETE CASCADE and nothing asks
\* whether a run is using the instance.
RemoveInstance(x) ==
  /\ x \in instances
  /\ instances' = instances \ {x}
  /\ DeleteRows({i \in Items : instance[i] = x})

\* One entry of a batch, and the batches of at most MaxBatch entries.
NewItem == [dependsOn : Items \cup {NoItem}, instance : Instances \cup {Disk}]
Batches == UNION {[1 .. n -> NewItem] : n \in 1 .. MaxBatch}

\* The default of DELETE /queue, and each single status: a list of several
\* statuses deletes what deleting them one after the other does.
ClearChoices == {Finished} \cup {{s} : s \in ItemStatus}

StagingRequest ==
  \/ \E batch \in Batches : Push(batch)
  \/ \E ids \in [1 .. Cardinality(Pending) -> Pending] : Reorder(ids)
  \/ \E i \in Items : Remove(i) \/ Retry(i)
  \/ \E statuses \in ClearChoices : Clear(statuses)
  \/ \E x \in Instances : RemoveInstance(x)

-------------------------------------------------------------------------------
(* Properties of the table alone.                                            *)

StoreTypeOK ==
  /\ status \in [Items -> ItemStatus \cup {"absent"}]
  /\ runId \in [Items -> Nat]
  /\ dependsOn \in [Items -> Items \cup {NoItem}]
  /\ sortOrder \in [Items -> Nat]
  /\ instance \in [Items -> Instances \cup {Disk}]
  /\ lastItem \in 0 .. MaxItems
  /\ instances \subseteq Instances

=============================================================================
