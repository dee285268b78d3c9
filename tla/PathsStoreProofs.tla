--------------------------- MODULE PathsStoreProofs ---------------------------
(***************************************************************************)
(* Proofs about PathsStore, for whatever is on disk, any fleet, any        *)
(* filters and any number of requests in flight: that the cache of the     *)
(* tree is of one reading.                                                 *)
(***************************************************************************)
EXTENDS PathsStore, TLAPS

-------------------------------------------------------------------------------
(* The inductive invariant.                                                  *)

Slotted == requests = [s \in Slots |-> requests[s]]

\* What a request that is sent now is to be an answer to.
Current == [since |-> world, filter |-> asked.filter, scope |-> asked.scope]

\* Since the last reading of the tree was begun alone: it is the only one, every
\* request of the tree asks what it asks, and once it is answered there is
\* nothing else in the cache.
OneSpine == \A s, t \in Slots : requests[s].kind = "spine" /\ requests[t].kind = "spine" => s = t
TreeAsks == \A s \in Slots : TreeRequest(requests[s]) => requests[s].of = Current
TreeRead == (\A s \in Slots : requests[s].kind # "spine") => \A p \in DOMAIN levels : levels[p] = Now

IInv == Slotted /\ (orderly => OneSpine /\ TreeAsks /\ TreeRead)

\* A slot goes on with nothing, a crawl or levels that are asked for now.
MovesOn(s) ==
  \E r : Put(s, r) /\ r.kind # "spine" /\ (TreeRequest(r) => r.of = Asking)

-------------------------------------------------------------------------------
(* What a slot may do next.                                                  *)

\* It is done.
LEMMA DoneMovesOn == ASSUME NEW s, Done(s) PROVE MovesOn(s)
BY DEF Done, MovesOn, None, TreeRequest

\* It asks for levels.
LEMMA LevelsMoveOn ==
  ASSUME NEW s, NEW paths, NEW again, NEW others, AskLevels(s, paths, again, others)
  PROVE  MovesOn(s)
<1> DEFINE r == [kind |-> "levels", of |-> Asking, paths |-> paths, again |-> again]
<1>1. Put(s, r) /\ r.kind # "spine" /\ r.of = Asking
  BY DEF AskLevels
<1> HIDE DEF r
<1>2. QED
  BY <1>1 DEF MovesOn

\* It opens what there is.
LEMMA OpenAllMovesOn ==
  ASSUME NEW s, NEW cache, NEW others, OpenAll(s, cache, others)
  PROVE  MovesOn(s)
BY DoneMovesOn, LevelsMoveOn DEF OpenAll

\* It crawls on, or has crawled.
LEMMA CrawlMovesOn ==
  ASSUME NEW s, NEW start, NEW got, NEW frontier, NEW read, CrawlOn(s, start, got, frontier, read)
  PROVE  MovesOn(s)
<1> DEFINE r == Crawling(start, got, {PageFrom(p, 0) : p \in frontier}, read)
<1>1. r.kind = "crawl" /\ ~TreeRequest(r)
  BY DEF Crawling, TreeRequest
<1>2. Done(s) \/ Put(s, r)
  BY DEF CrawlOn
<1> HIDE DEF r
<1>3. QED
  BY <1>1, <1>2, DoneMovesOn DEF MovesOn

\* It begins to crawl.
LEMMA StartMovesOn == ASSUME NEW s, NEW cache, StartCrawl(s, cache) PROVE MovesOn(s)
BY CrawlMovesOn DEF StartCrawl

-------------------------------------------------------------------------------
(* What that does to the invariant.                                          *)

\* A request that asks what is asked is answered by what there is now.
LEMMA AnsweredNow == ASSUME NEW r, r = Current PROVE Answers(r) = {Now}
BY DEF Current, Answers, Now

\* Reading the tree anew is orderly exactly if nothing else of it is in flight.
LEMMA SpineAsked ==
  ASSUME Slotted, NEW s \in Slots, NEW then, NEW open, AskSpine(s, then, open)
  PROVE  IInv'
<1> DEFINE r == [kind |-> "spine", of |-> Asking, then |-> then, open |-> open]
<1>1. requests' = [requests EXCEPT ![s] = r] /\ r.kind = "spine" /\ r.of = Asking
  BY DEF AskSpine, Put
<1> HIDE DEF r
<1>2. requests'[s] = r /\ \A t \in Slots \ {s} : requests'[t] = requests[t]
  BY <1>1 DEF Slotted
<1>3. Slotted'
  BY <1>1 DEF Slotted
<1>4. ASSUME orderly' PROVE \A t \in Slots : TreeRequest(requests'[t]) => t = s
  BY <1>2, <1>4 DEF AskSpine
<1>5. ASSUME orderly' PROVE (OneSpine /\ TreeAsks /\ TreeRead)'
  <2>1. OneSpine'
    BY <1>4, <1>5 DEF OneSpine, TreeRequest
  <2>2. TreeAsks'
    BY <1>1, <1>2, <1>4, <1>5 DEF TreeAsks, Asking, Current, TreeRequest
  <2>3. TreeRead'
    BY <1>1, <1>2 DEF TreeRead
  <2>4. QED
    BY <2>1, <2>2, <2>3
<1>6. QED
  BY <1>3, <1>5 DEF IInv

\* Without the history, a slot that moves on keeps the shape.
LEMMA Disordered ==
  ASSUME Slotted, NEW s \in Slots, MovesOn(s), ~orderly'
  PROVE  IInv'
BY DEF MovesOn, Put, IInv, Slotted

\* A slot other than that of the spine moves on, and the cache has of the tree
\* what it had, or what is asked for now.
LEMMA Onwards ==
  ASSUME IInv, NEW s \in Slots, MovesOn(s), UNCHANGED <<world, asked, orderly>>,
         requests[s].kind # "spine",
         orderly => \A p \in DOMAIN levels' : (p \in DOMAIN levels /\ levels'[p] = levels[p]) \/ levels'[p] = Now
  PROVE  IInv'
<1>1. PICK r : Put(s, r) /\ r.kind # "spine" /\ (TreeRequest(r) => r.of = Asking)
  BY DEF MovesOn
<1>2. requests'[s] = r /\ \A t \in Slots \ {s} : requests'[t] = requests[t]
  BY <1>1 DEF Put, IInv, Slotted
<1>3. Slotted'
  BY <1>1 DEF Put, IInv, Slotted
<1>4. Current' = Current /\ Now' = Now /\ Asking = Current
  BY DEF Current, Now, Asking
<1>5. ASSUME orderly PROVE (OneSpine /\ TreeAsks /\ TreeRead)'
  <2>1. \A t \in Slots : requests'[t].kind = "spine" <=> requests[t].kind = "spine"
    BY <1>1, <1>2
  <2>2. OneSpine'
    BY <1>5, <2>1 DEF IInv, OneSpine
  <2>3. TreeAsks'
    BY <1>1, <1>2, <1>4, <1>5 DEF IInv, TreeAsks
  <2>4. TreeRead'
    BY <1>4, <1>5, <2>1 DEF IInv, TreeRead
  <2>5. QED
    BY <2>2, <2>3, <2>4
<1>6. QED
  BY <1>3, <1>5 DEF IInv

\* Nothing of the tree moves.
LEMMA Still ==
  ASSUME IInv, UNCHANGED <<world, asked, levels, requests, orderly>>
  PROVE  IInv'
BY DEF IInv, Slotted, OneSpine, TreeAsks, TreeRead, Current, Now

-------------------------------------------------------------------------------
(* The first state, and each action.                                         *)

\* The view opens with one reading of the tree under way.
LEMMA InvInit == Init => IInv
<1> SUFFICES ASSUME Init PROVE IInv
  OBVIOUS
<1>1. 1 \in Slots
  BY StoreAssumption DEF Slots
<1>2. requests = [s \in Slots |-> requests[s]]
  BY DEF Init
<1>3. /\ requests[1].kind = "spine" /\ requests[1].of = Current
      /\ \A s \in Slots \ {1} : requests[s] = None
  BY <1>1 DEF Init, Current
<1>4. \A s \in Slots : TreeRequest(requests[s]) => s = 1
  BY <1>3 DEF TreeRequest, None
<1>5. OneSpine /\ TreeAsks /\ TreeRead
  BY <1>1, <1>3, <1>4 DEF OneSpine, TreeAsks, TreeRead, TreeRequest
<1>6. QED
  BY <1>2, <1>5 DEF IInv, Slotted

\* Whatever makes the cache outdated has the tree read again, or says so.
LEMMA InvAsk ==
  ASSUME IInv, NEW s \in Slots,
         \/ \E filter \in DOMAIN Filters : SetFilter(s, filter)
         \/ \E scope \in Scopes : SetInstanceFilter(s, scope)
         \/ \E w \in DOMAIN Worlds : RunEnds(s, w)
         \/ Rescan(s)
  PROVE  IInv'
<1>1. CASE \E filter \in DOMAIN Filters : SetFilter(s, filter)
  <2>1. CASE flatView
    BY <1>1, <2>1, StartMovesOn, Disordered DEF SetFilter, IInv
  <2>2. CASE ~flatView
    BY <1>1, <2>2, SpineAsked DEF SetFilter, Reload, IInv
  <2>3. QED
    BY <2>1, <2>2
<1>2. CASE \E scope \in Scopes : SetInstanceFilter(s, scope)
  BY <1>2, SpineAsked DEF SetInstanceFilter, Reload, IInv
<1>3. CASE \E w \in DOMAIN Worlds : RunEnds(s, w)
  BY <1>3, SpineAsked DEF RunEnds, Reload, IInv
<1>4. CASE Rescan(s)
  BY <1>4, SpineAsked DEF Rescan, IInv
<1>5. QED
  BY <1>1, <1>2, <1>3, <1>4

\* Opening rows asks, if at all, for levels of the tree as it is asked for now.
LEMMA InvOpen ==
  ASSUME IInv, NEW s \in Slots,
         (\E p : Expand(s, p) \/ FocusOn(s, p)) \/ ExpandAll(s) \/ ShowFlat(s)
  PROVE  IInv'
<1>1. requests[s].kind # "spine"
  BY DEF Expand, FocusOn, ExpandAll, ShowFlat, NextFree, Free, None
<1>2. UNCHANGED <<world, asked, levels, orderly>>
  BY DEF Expand, FocusOn, ExpandAll, ShowFlat
<1>3. MovesOn(s) \/ UNCHANGED requests
  <2>1. ASSUME NEW p, Fetch(s, p) PROVE MovesOn(s) \/ UNCHANGED requests
    BY <2>1, LevelsMoveOn DEF Fetch
  <2>2. QED
    BY <2>1, OpenAllMovesOn, StartMovesOn DEF Expand, FocusOn, ExpandAll, ShowFlat
<1>4. QED
  BY <1>1, <1>2, <1>3, Onwards, Still

\* The tree has been read: all there is in the cache is of that reading.
LEMMA InvReceiveSpine ==
  ASSUME IInv, NEW s \in Slots, NEW of \in ContextsOf(requests[s]), ReceiveSpine(s, of)
  PROVE  IInv'
<1>1. requests[s].kind = "spine" /\ UNCHANGED <<world, asked, orderly>>
  BY DEF ReceiveSpine
<1>2. \A p \in DOMAIN levels' : levels'[p] = of
  BY DEF ReceiveSpine
<1>3. MovesOn(s)
  BY DoneMovesOn, LevelsMoveOn, StartMovesOn DEF ReceiveSpine, AfterSpine
<1>4. PICK r : Put(s, r) /\ r.kind # "spine" /\ (TreeRequest(r) => r.of = Asking)
  BY <1>3 DEF MovesOn
<1>5. requests'[s] = r /\ \A t \in Slots \ {s} : requests'[t] = requests[t]
  BY <1>4 DEF Put, IInv, Slotted
<1>6. Slotted'
  BY <1>4 DEF Put, IInv, Slotted
<1>7. Current' = Current /\ Now' = Now /\ Asking = Current
  BY <1>1 DEF Current, Now, Asking
<1>8. ASSUME orderly PROVE (OneSpine /\ TreeAsks /\ TreeRead)'
  <2>1. TreeRequest(requests[s])
    BY <1>1 DEF TreeRequest
  <2>2. of = Now
    BY <1>8, <2>1, AnsweredNow DEF IInv, TreeAsks, ContextsOf
  <2>3. \A t \in Slots : requests'[t].kind # "spine"
    BY <1>1, <1>4, <1>5, <1>8 DEF IInv, OneSpine
  <2>4. OneSpine' /\ TreeRead'
    BY <1>2, <1>7, <2>2, <2>3 DEF OneSpine, TreeRead
  <2>5. TreeAsks'
    BY <1>4, <1>5, <1>7, <1>8 DEF IInv, TreeAsks
  <2>6. QED
    BY <2>4, <2>5
<1>9. QED
  BY <1>1, <1>6, <1>8 DEF IInv

\* Levels join the cache as what they are an answer to.
LEMMA InvReceiveLevels ==
  ASSUME IInv, NEW s \in Slots, NEW of \in ContextsOf(requests[s]), ReceiveLevels(s, of)
  PROVE  IInv'
<1>1. requests[s].kind = "levels" /\ TreeRequest(requests[s])
  BY DEF ReceiveLevels, TreeRequest
<1>2. UNCHANGED <<world, asked, orderly>> /\ levels' = [p \in requests[s].paths \cup DOMAIN levels |-> IF p \in requests[s].paths THEN of ELSE levels[p]]
  BY DEF ReceiveLevels, SettleLevels
<1>3. MovesOn(s)
  BY DoneMovesOn, OpenAllMovesOn DEF ReceiveLevels, SettleLevels
<1>4. orderly => of = Now
  BY <1>1, AnsweredNow DEF IInv, TreeAsks, ContextsOf
<1>5. \A p \in DOMAIN levels' : (p \in DOMAIN levels /\ levels'[p] = levels[p]) \/ levels'[p] = of
  BY <1>2
<1>6. QED
  BY <1>1, <1>2, <1>3, <1>4, <1>5, Onwards

\* A failure leaves the cache alone; of the reading itself, it is remembered.
LEMMA InvFail ==
  ASSUME IInv, NEW s \in Slots, FailSpine(s) \/ FailLevels(s) \/ FailCrawl(s)
  PROVE  IInv'
<1>1. CASE FailSpine(s)
  <2>1. MovesOn(s)
    BY <1>1, DoneMovesOn, LevelsMoveOn, StartMovesOn DEF FailSpine, AfterSpine
  <2>2. QED
    BY <1>1, <2>1, Disordered DEF FailSpine, IInv
<1>2. CASE FailLevels(s)
  <2>1. MovesOn(s)
    BY <1>2, DoneMovesOn, OpenAllMovesOn DEF FailLevels, SettleLevels
  <2>2. requests[s].kind # "spine" /\ UNCHANGED <<world, asked, levels, orderly>>
    BY <1>2 DEF FailLevels, SettleLevels
  <2>3. QED
    BY <2>1, <2>2, Onwards
<1>3. CASE FailCrawl(s)
  BY <1>3, DoneMovesOn, Onwards DEF FailCrawl
<1>4. QED
  BY <1>1, <1>2, <1>3

\* The crawl of the flat list reads the tree's cache and leaves it alone.
LEMMA InvReceivePages ==
  ASSUME IInv, NEW s \in Slots, NEW pages \in Batches(requests[s]), NEW of, ReceivePages(s, pages, of)
  PROVE  IInv'
<1>1. requests[s].kind # "spine"
  BY DEF Batches
<1>2. UNCHANGED <<world, asked, levels, orderly>>
  BY DEF ReceivePages
<1>3. MovesOn(s)
  <2>1. ASSUME NEW got, NEW left, NEW read, Put(s, Crawling(requests[s].start, got, left, read)) PROVE MovesOn(s)
    BY <2>1 DEF MovesOn, Crawling, TreeRequest
  <2>2. QED
    BY <2>1, CrawlMovesOn DEF ReceivePages
<1>4. QED
  BY <1>1, <1>2, <1>3, Onwards

\* Every step keeps the invariant.
LEMMA InvNext == IInv /\ [Next]_vars => IInv'
<1> SUFFICES ASSUME IInv, [Next]_vars PROVE IInv'
  OBVIOUS
<1>1. CASE UNCHANGED vars
  BY <1>1, Still DEF vars
<1>2. CASE (\E p \in Rows : Collapse(p)) \/ CollapseAll \/ ShowTree \/ ClearFocus
  BY <1>2, Still DEF Collapse, CollapseAll, ShowTree, ClearFocus
<1>3. QED
  BY <1>1, <1>2, InvAsk, InvOpen, InvReceiveSpine, InvReceiveLevels, InvFail, InvReceivePages DEF Next

-------------------------------------------------------------------------------
(* The theorem.                                                              *)

\* When every answer is in, and the tree was last read alone and without a
\* failure, no level of it is left over from another filter, another selection
\* of instances or the time before a run (load, reload, fetchLevels): whatever
\* was opened, closed, focused or crawled meanwhile, and in whatever order the
\* answers came.
THEOREM TheTreeIsAsAsked == Spec => []AtRestTheTreeIsAsAsked
<1>1. IInv => AtRestTheTreeIsAsAsked
  BY DEF IInv, TreeRead, AtRestTheTreeIsAsAsked, AtRest, Free, None
<1>2. QED
  BY <1>1, InvInit, InvNext, PTL DEF Spec
===============================================================================
