----------------------------- MODULE SnapshotCache -----------------------------
(***************************************************************************)
(* What the server remembers of the *Arr instances: the snapshots          *)
(* (repositories/snapshots.repo.ts, services/resources.service.ts) and the *)
(* two joined views memoised over them (services/path-index.service.ts,    *)
(* services/media-fleet.service.ts), with everybody who changes what they  *)
(* remember: runs, edits of instances, the refresh endpoint and the age of *)
(* a memo.                                                                 *)
(*                                                                         *)
(* The data of an *Arr server is a version, which each change of it        *)
(* increments.  The resources a view reads of one instance are read and    *)
(* invalidated together and are one entry here.  A read of one instance    *)
(* (GET /instances/:id/resources, .../media) is a fleet read without memo. *)
(***************************************************************************)
EXTENDS Naturals, FiniteSets

CONSTANTS
  Instances,    \* ids of instances; an id is used once
  Servers,      \* base URLs
  PathReads,    \* reads of the path index that may overlap
  FleetReads,   \* reads of the media fleet that may overlap
  MaxChanges,   \* bound: changes of the data of a server
  MaxEdits      \* bound: edits and removals of instances

ASSUME CacheBounds == MaxChanges \in Nat /\ MaxEdits \in Nat
ASSUME NamesApart == {"none", "gone"} \cap Servers = {}

VARIABLES
  server,     \* base_url of an instance, "none" before and "gone" after it exists
  enabled,    \* the instances with enabled = 1
  closing,    \* the instances whose edit waits for the agent to close
  version,    \* of the data of each server
  snapshot,   \* resource_snapshots
  memo,       \* PathIndexService.cache and MediaFleetService.cache
  reader,     \* the reads in progress
  item,       \* the item a run executes, or NoItem
  due,        \* history: the version at a server an instance was last told to have
  edits       \* edits so far

vars == <<server, enabled, closing, version, snapshot, memo, reader, item, due, edits>>

Views == {"path", "fleet"}
Readers == PathReads \cup FleetReads
ViewOf(r) == IF r \in PathReads THEN "path" ELSE "fleet"
Untold == [s \in Servers |-> 0]
Listed == {i \in Instances : server[i] \in Servers}

\* One instance as it was read.
Entry(s, v, reachable) == [server |-> s, version |-> v, reachable |-> reachable]
NoEntry == Entry("none", 0, FALSE)
Unreachable == Entry("gone", 0, FALSE)

\* raced (history): this, or something it was made of, was asked for before an
\* invalidation and arrived after it.
NoSnapshot == [entry |-> NoEntry, raced |-> FALSE]
NoMemo == [of |-> [i \in Instances |-> NoEntry], built |-> FALSE, raced |-> FALSE]
Covered(m) == {i \in Instances : m.of[i] # NoEntry}

\* A request in flight: to which server, over an agent that is still pooled?,
\* does the answer count as an answer of a reachable instance?
NoAsk == [server |-> "none", pooled |-> FALSE, reachable |-> FALSE, answered |-> FALSE, version |-> 0]
Ask(s, reachable) ==
  [server |-> s, pooled |-> TRUE, reachable |-> reachable, answered |-> FALSE, version |-> 0]

Idle == [busy |-> FALSE, refresh |-> FALSE, todo |-> {},
         got |-> [i \in Instances |-> NoEntry], asked |-> [i \in Instances |-> NoAsk],
         raced |-> FALSE]

NoItem == [instance |-> "none", server |-> "none"]

Init ==
  /\ server \in [Instances -> Servers \cup {"none"}]
  /\ \A i, j \in Listed : server[i] = server[j] => i = j
  /\ enabled = Listed /\ closing = {}
  /\ version = [s \in Servers |-> 0]
  /\ snapshot = [i \in Instances |-> NoSnapshot]
  /\ memo = [v \in Views |-> NoMemo]
  /\ reader = [r \in Readers |-> Idle]
  /\ item = NoItem
  /\ due = [i \in Instances |-> Untold]
  /\ edits = 0

-------------------------------------------------------------------------------
(* Reading a view.                                                           *)

Busy(r) == reader[r].busy
Pending(rec) == {i \in Instances : rec.asked[i] # NoAsk}

\* cached(): the snapshot serves, unless the read is a refresh.
Hit(rec, i) == i \in Listed /\ ~rec.refresh /\ snapshot[i] # NoSnapshot

\* rec goes on with the instances some: from the snapshot, or by a request.
Look(rec, some) ==
  [rec EXCEPT
     !.todo = @ \ some,
     !.got = [i \in Instances |->
                IF i \notin some THEN @[i]
                ELSE IF Hit(rec, i) THEN snapshot[i].entry
                ELSE IF i \in Listed THEN NoEntry ELSE Unreachable],
     !.asked = [i \in Instances |->
                  IF i \in some /\ i \in Listed /\ ~Hit(rec, i) THEN Ask(server[i], TRUE) ELSE @[i]],
     !.raced = @ \/ \E i \in some : Hit(rec, i) /\ snapshot[i].raced]

\* index(), when the memo does not serve.  The fleet view asks all instances
\* at once, the path view one after the other.
BeginRead(r, refresh) ==
  /\ ~Busy(r)
  /\ refresh \/ memo[ViewOf(r)] = NoMemo
  /\ LET rec == [Idle EXCEPT !.busy = TRUE, !.refresh = refresh, !.todo = enabled] IN
     reader' = [reader EXCEPT ![r] = IF r \in FleetReads THEN Look(rec, enabled) ELSE rec]
  /\ UNCHANGED <<server, enabled, closing, version, snapshot, memo, item, due, edits>>

\* The loop of PathIndexService.build.
NextInstance(r, i) ==
  /\ Busy(r) /\ i \in reader[r].todo /\ Pending(reader[r]) = {}
  /\ reader' = [reader EXCEPT ![r] = Look(@, {i})]
  /\ UNCHANGED <<server, enabled, closing, version, snapshot, memo, item, due, edits>>

\* The server answers; the answer travels.
Arrive(r, i) ==
  /\ reader[r].asked[i] # NoAsk /\ ~reader[r].asked[i].answered
  /\ reader' = [reader EXCEPT
       ![r].asked[i].answered = TRUE, ![r].asked[i].version = version[reader[r].asked[i].server]]
  /\ UNCHANGED <<server, enabled, closing, version, snapshot, memo, item, due, edits>>

\* snapshots.put, which the foreign key refuses for an instance that is gone.
Store(r, i) ==
  LET ask == reader[r].asked[i]
      entry == Entry(ask.server, ask.version, ask.reachable) IN
  /\ ask.answered
  /\ reader' = [reader EXCEPT
       ![r].asked[i] = NoAsk, ![r].got[i] = IF i \in Listed THEN entry ELSE Unreachable]
  /\ snapshot' = IF i \in Listed
                 THEN [snapshot EXCEPT ![i] =
                         [entry |-> [entry EXCEPT !.reachable = TRUE], raced |-> reader[r].raced]]
                 ELSE snapshot
  /\ UNCHANGED <<server, enabled, closing, version, memo, item, due, edits>>

\* A request fails.  A refresh of the fleet view then takes what is known, and
\* asks once more if nothing is, but the instance counts as not reachable.
FailRead(r, i) ==
  LET ask == reader[r].asked[i]
      again == r \in FleetReads /\ reader[r].refresh /\ ask.reachable /\ i \in Listed IN
  /\ ask # NoAsk /\ ~ask.answered
  /\ reader' = [reader EXCEPT
       ![r].asked[i] = IF again /\ snapshot[i] = NoSnapshot THEN Ask(server[i], FALSE) ELSE NoAsk,
       ![r].got[i] = IF ~again THEN Unreachable
                     ELSE IF snapshot[i] = NoSnapshot THEN NoEntry
                     ELSE [snapshot[i].entry EXCEPT !.reachable = FALSE],
       ![r].raced = @ \/ (again /\ snapshot[i].raced)]
  /\ UNCHANGED <<server, enabled, closing, version, snapshot, memo, item, due, edits>>

Complete(r) == Busy(r) /\ reader[r].todo = {} /\ Pending(reader[r]) = {}

\* The view is built, kept and returned.
EndRead(r) ==
  /\ Complete(r)
  /\ memo' = [memo EXCEPT ![ViewOf(r)] =
       [of |-> reader[r].got, built |-> TRUE, raced |-> reader[r].raced]]
  /\ reader' = [reader EXCEPT ![r] = Idle]
  /\ UNCHANGED <<server, enabled, closing, version, snapshot, item, due, edits>>

\* CACHE_MS and MEDIA_FLEET_CACHE_MS pass.
Expire(view) ==
  /\ memo[view] # NoMemo
  /\ memo' = [memo EXCEPT ![view] = NoMemo]
  /\ UNCHANGED <<server, enabled, closing, version, snapshot, reader, item, due, edits>>

-------------------------------------------------------------------------------
(* Invalidation.                                                             *)

DropMemos == memo' = [v \in Views |-> NoMemo]

\* History: whoever reads now may keep what was just dropped.
Overtake ==
  reader' = [r \in Readers |-> [reader[r] EXCEPT !.raced = reader[r].busy]]

DropSnapshot(i) == snapshot' = [snapshot EXCEPT ![i] = NoSnapshot]

\* Fleetarr learns that the data of i is as it is now.
Told(i, s) == due' = [due EXCEPT ![i][s] = version[s]]

\* POST /instances/:id/refresh
Refresh(i) ==
  /\ i \in Listed
  /\ DropSnapshot(i) /\ DropMemos /\ Overtake /\ Told(i, server[i])
  /\ UNCHANGED <<server, enabled, closing, version, item, edits>>

\* A run begins an item of instance i.  Bound: while its data may still change.
BeginItem(i) ==
  /\ item = NoItem /\ i \in Listed /\ version[server[i]] < MaxChanges
  /\ item' = [instance |-> i, server |-> server[i]]
  /\ UNCHANGED <<server, enabled, closing, version, snapshot, memo, reader, due, edits>>

\* The *Arr applies a request of the handler.
Apply ==
  /\ item # NoItem /\ version[item.server] < MaxChanges
  /\ version' = [version EXCEPT ![item.server] = @ + 1]
  /\ UNCHANGED <<server, enabled, closing, snapshot, memo, reader, item, due, edits>>

\* Mutated form of ItemSucceeds: only the snapshots are dropped.
ItemKeepsMemos ==
  /\ item # NoItem
  /\ item' = NoItem
  /\ item.instance \in Listed
  /\ DropSnapshot(item.instance) /\ Overtake
  /\ Told(item.instance, item.server)
  /\ UNCHANGED <<server, enabled, closing, version, memo, edits>>

\* The handler succeeds, while the instance still exists.
ItemSucceeds ==
  /\ item # NoItem /\ item.instance \in Listed
  /\ item' = NoItem
  /\ DropSnapshot(item.instance) /\ DropMemos /\ Overtake
  /\ Told(item.instance, item.server)
  /\ UNCHANGED <<server, enabled, closing, version, edits>>

\* It fails, or its row is gone: nothing is invalidated.
ItemFails ==
  /\ item # NoItem
  /\ item' = NoItem
  /\ UNCHANGED <<server, enabled, closing, version, snapshot, memo, reader, due, edits>>

-------------------------------------------------------------------------------
(* Editing the instances.                                                    *)

Unused(s) == \A i \in Listed : server[i] # s   \* idx_instances_url

\* create
Create(i, s) ==
  /\ server[i] = "none" /\ Unused(s) /\ edits < MaxEdits
  /\ edits' = edits + 1
  /\ server' = [server EXCEPT ![i] = s] /\ enabled' = enabled \cup {i}
  /\ DropMemos /\ Overtake
  /\ UNCHANGED <<closing, version, snapshot, item, due>>

\* update of enabled alone
Switch(i) ==
  /\ i \in Listed \ closing /\ edits < MaxEdits
  /\ edits' = edits + 1
  /\ enabled' = IF i \in enabled THEN enabled \ {i} ELSE enabled \cup {i}
  /\ DropMemos /\ Overtake
  /\ UNCHANGED <<server, closing, version, snapshot, item, due>>

\* The agent of i leaves the pool; requests in flight keep it.
Unpool(i) ==
  reader' = [r \in Readers |-> [reader[r] EXCEPT !.asked[i].pooled = FALSE]]

\* update of a connection field, up to its await: the row is committed.
\* Bound: one edit of an instance at a time.
Connect(i, s) ==
  /\ i \in Listed \ closing /\ edits < MaxEdits
  /\ s = server[i] \/ Unused(s)
  /\ edits' = edits + 1
  /\ server' = [server EXCEPT ![i] = s]
  /\ closing' = closing \cup {i}
  /\ Unpool(i)
  /\ UNCHANGED <<enabled, version, snapshot, memo, item, due>>

\* remove, up to its await: the snapshots of the instance go with the row.
Remove(i) ==
  /\ i \in Listed \ closing /\ edits < MaxEdits
  /\ edits' = edits + 1
  /\ server' = [server EXCEPT ![i] = "gone"] /\ enabled' = enabled \ {i}
  /\ closing' = closing \cup {i}
  /\ DropSnapshot(i)
  /\ Unpool(i)
  /\ UNCHANGED <<version, memo, item, due>>

\* The agent closes when its last request is answered.
Closed(i) ==
  \A r \in Readers :
    LET ask == reader[r].asked[i] IN ask = NoAsk \/ ask.pooled \/ ask.answered

\* Mutated form of EditDone: the snapshots of an edited instance stay.
EditKeepsSnapshot(i) ==
  /\ i \in closing /\ Closed(i)
  /\ closing' = closing \ {i}
  /\ DropMemos /\ Overtake
  /\ UNCHANGED <<server, enabled, version, snapshot, item, due, edits>>

\* update and remove go on.
EditDone(i) ==
  /\ i \in closing /\ Closed(i)
  /\ closing' = closing \ {i}
  /\ DropSnapshot(i) /\ DropMemos /\ Overtake
  /\ UNCHANGED <<server, enabled, version, item, due, edits>>

-------------------------------------------------------------------------------
Reading ==
  \/ \E r \in Readers : \/ \E refresh \in BOOLEAN : BeginRead(r, refresh)
                        \/ \E i \in Instances : NextInstance(r, i) \/ Arrive(r, i)
                                                  \/ Store(r, i) \/ FailRead(r, i)
                        \/ EndRead(r)
  \/ \E view \in Views : Expire(view)

Running == (\E i \in Instances : BeginItem(i)) \/ Apply \/ ItemSucceeds \/ ItemFails

Editing ==
  \E i \in Instances : \/ Refresh(i) \/ Switch(i) \/ Remove(i) \/ EditDone(i)
                       \/ \E s \in Servers : Create(i, s) \/ Connect(i, s)

Next == Reading \/ Running \/ Editing

Spec == Init /\ [][Next]_vars

-------------------------------------------------------------------------------
(* Properties.                                                               *)

\* e tells of the data of i as it was before Fleetarr was told of a change, or
\* of another server than that of the row.
Stale(i, e) ==
  /\ e.server \in Servers
  /\ e.server # server[i] \/ e.version < due[i][e.server]

\* A snapshot is outdated only while an edit of its instance is under way, or
\* if it was asked for before the invalidation that should have dropped it.
SnapshotsAreFresh ==
  \A i \in Listed \ closing : Stale(i, snapshot[i].entry) => snapshot[i].raced

\* The same of the joined views, which are made of snapshots and requests of
\* different ages: no outdated facet, no instance too many or too few.
ViewsAreFresh ==
  closing = {} => \A v \in Views : memo[v] # NoMemo /\ ~memo[v].raced =>
    /\ Covered(memo[v]) = enabled
    /\ \A i \in enabled : ~Stale(i, memo[v].of[i])

=============================================================================
