--------------------------- MODULE MediaStoreProofs ---------------------------
(***************************************************************************)
(* What the media view shows and what it acts on, for any fleet and any    *)
(* number of requests in flight.                                           *)
(***************************************************************************)
EXTENDS MediaStore, TLAPS

ModesOf == {"hide", "show"}

\* What may be in flight.
RequestSet ==
  {None}
    \cup [kind : {"list"}, filter : Filters, mode : ModesOf, page : Nat, clears : BOOLEAN]
    \cup [kind : {"ids"}, filter : Filters]

Typed ==
  /\ asked \in [filter : Filters \cup Unreadable, mode : ModesOf]
  /\ requests \in [Slots -> RequestSet]

\* The last list that was asked for is the only one, and asks what is asked.
OneList == \A s, t \in Slots : requests[s].kind = "list" /\ requests[t].kind = "list" => s = t
ListsAsk ==
  \A s \in Slots : requests[s].kind = "list" =>
    requests[s].mode = asked.mode /\ (asked.filter \in Filters => requests[s].filter = asked.filter)

\* With none in flight, it has been answered.
Caught ==
  ~InFlight("list") => table.mode = asked.mode /\ (asked.filter \in Filters => table.filter = asked.filter)

IInv == Typed /\ (orderly => OneList /\ ListsAsk /\ Caught)

-----------------------------------------------------------------------------
\* A request that is sent takes one free slot and leaves the others alone.
LEMMA SendTakesOneSlot ==
  ASSUME Typed, NEW r \in RequestSet, Send(r)
  PROVE  /\ requests' \in [Slots -> RequestSet]
         /\ \E s \in Slots : /\ requests[s] = None /\ requests'[s] = r
                             /\ \A t \in Slots \ {s} : requests'[t] = requests[t]
<1>1. PICK s \in Slots : NextFree(s) /\ requests' = [requests EXCEPT ![s] = r]
  BY DEF Send
<1>2. requests[s] = None
  BY <1>1 DEF NextFree, Free
<1>. QED
  BY <1>1, <1>2 DEF Typed

\* A list asked for while no other is in flight is the only one from then on.
LEMMA AskStaysOrderly ==
  ASSUME IInv, NEW page \in Nat, NEW clears \in BOOLEAN,
         asked' \in [filter : Filters \cup Unreadable, mode : ModesOf], Ask(page, clears)
  PROVE  IInv'
<1>. DEFINE r == List(page, clears)
<1>1. r \in RequestSet /\ r.kind = "list" /\ r.filter = Sent(asked'.filter) /\ r.mode = asked'.mode
  BY PageAssumption DEF List, RequestSet, ModesOf, Sent
<1>. HIDE DEF r
<1>2. Send(r) /\ orderly' = ~InFlight("list")
  BY DEF Ask, r
<1>3. Typed
  BY DEF IInv
<1>4. requests' \in [Slots -> RequestSet]
  BY <1>1, <1>2, <1>3, SendTakesOneSlot
<1>5. PICK s \in Slots : /\ requests[s] = None /\ requests'[s] = r
                         /\ \A t \in Slots \ {s} : requests'[t] = requests[t]
  BY <1>1, <1>2, <1>3, SendTakesOneSlot
<1>6. Typed'
  BY <1>4 DEF Typed
<1>7. ASSUME orderly' PROVE OneList' /\ ListsAsk' /\ Caught'
  <2>1. \A t \in Slots : requests[t].kind # "list"
    BY <1>2, <1>7 DEF InFlight
  <2>2. \A t \in Slots : requests'[t].kind = "list" => t = s
    BY <1>5, <2>1
  <2>3. /\ requests'[s].kind = "list" /\ requests'[s].mode = asked'.mode
        /\ asked'.filter \in Filters => requests'[s].filter = asked'.filter
    BY <1>1, <1>5, PageAssumption DEF Sent
  <2>4. OneList' /\ ListsAsk'
    BY <2>2, <2>3 DEF OneList, ListsAsk
  <2>5. Caught'
    BY <2>3 DEF Caught, InFlight
  <2>. QED
    BY <2>4, <2>5
<1>. QED
  BY <1>6, <1>7 DEF IInv

LEMMA InitIInv == Init => IInv
<1>. SUFFICES ASSUME Init PROVE IInv
  OBVIOUS
<1>1. 1 \in Slots /\ Everything \in Filters
  BY PageAssumption DEF Slots
<1>2. Typed
  BY <1>1 DEF Init, Typed, RequestSet, ModesOf, None
<1>3. \A s \in Slots : requests[s].kind = "list" => s = 1
  BY DEF Init, None
<1>4. requests[1].kind = "list" /\ requests[1].filter = asked.filter /\ requests[1].mode = asked.mode
  BY <1>1 DEF Init
<1>5. OneList /\ ListsAsk /\ Caught
  BY <1>1, <1>3, <1>4 DEF OneList, ListsAsk, Caught, InFlight
<1>. QED
  BY <1>2, <1>5 DEF IInv

\* An action that leaves the lists in flight, the table and what is asked alone.
LEMMA QuietKeepsIInv ==
  ASSUME IInv, UNCHANGED <<asked, table, orderly>>,
         requests' \in [Slots -> RequestSet],
         \A s \in Slots : requests'[s] = requests[s]
                          \/ (requests[s].kind # "list" /\ requests'[s].kind # "list")
  PROVE  IInv'
<1>1. Typed'
  BY DEF IInv, Typed
<1>2. \A s \in Slots : requests'[s].kind = "list" <=> requests[s].kind = "list"
  OBVIOUS
<1>3. \A s \in Slots : requests'[s].kind = "list" => requests'[s] = requests[s]
  OBVIOUS
<1>4. OneList => OneList'
  BY <1>2 DEF OneList
<1>5. ListsAsk => ListsAsk'
  BY <1>2, <1>3 DEF ListsAsk
<1>6. Caught => Caught'
  BY <1>2 DEF Caught, InFlight
<1>. QED
  BY <1>1, <1>4, <1>5, <1>6 DEF IInv

LEMMA UserKeepsIInv == ASSUME IInv, User PROVE IInv'
<1>1. CASE \E f \in Filters \cup Unreadable : SetFilter(f)
  <2>1. PICK f \in Filters \cup Unreadable : SetFilter(f)
    BY <1>1
  <2>2. asked' \in [filter : Filters \cup Unreadable, mode : ModesOf]
    BY <2>1 DEF SetFilter, IInv, Typed
  <2>3. CASE f \notin Unreadable
    BY <2>1, <2>2, <2>3, AskStaysOrderly DEF SetFilter
  <2>4. CASE f \in Unreadable
    <3>1. UNCHANGED <<table, requests, orderly>> /\ asked'.mode = asked.mode /\ asked'.filter \notin Filters
      BY <2>1, <2>4, PageAssumption DEF SetFilter, IInv, Typed
    <3>. QED
      BY <2>2, <3>1 DEF IInv, Typed, OneList, ListsAsk, Caught, InFlight
  <2>. QED
    BY <2>3, <2>4
<1>2. CASE \E mode \in {"hide", "show"} : SetUndecided(mode)
  <2>1. PICK mode \in {"hide", "show"} : SetUndecided(mode)
    BY <1>2
  <2>2. asked' \in [filter : Filters \cup Unreadable, mode : ModesOf]
    BY <2>1 DEF SetUndecided, IInv, Typed, ModesOf
  <2>3. Ask(1, FALSE) /\ 1 \in Nat
    BY <2>1 DEF SetUndecided
  <2>. QED
    BY <2>2, <2>3, AskStaysOrderly
<1>3. CASE Load
  <2>1. asked' \in [filter : Filters \cup Unreadable, mode : ModesOf]
    BY <1>3 DEF Load, IInv, Typed
  <2>2. Ask(1, FALSE) /\ 1 \in Nat
    BY <1>3 DEF Load
  <2>. QED
    BY <2>1, <2>2, AskStaysOrderly
<1>4. CASE \E page \in 1 .. Cardinality(Titles) : GoToPage(page)
  <2>1. PICK page \in 1 .. Cardinality(Titles) : GoToPage(page)
    BY <1>4
  <2>2. asked' \in [filter : Filters \cup Unreadable, mode : ModesOf]
    BY <2>1 DEF GoToPage, IInv, Typed
  <2>3. Ask(page, ~WholeMatch) /\ page \in Nat /\ (~WholeMatch) \in BOOLEAN
    BY <2>1 DEF GoToPage
  <2>. QED
    BY <2>2, <2>3, AskStaysOrderly
<1>5. CASE (\E t \in Titles : ToggleRow(t)) \/ Clear
  <2>1. UNCHANGED <<asked, table, requests, orderly>>
    BY <1>5 DEF ToggleRow, Clear
  <2>2. requests' \in [Slots -> RequestSet]
    BY <2>1 DEF IInv, Typed
  <2>. QED
    BY <2>1, <2>2, QuietKeepsIInv
<1>6. CASE SelectAllMatching
  <2>1. UNCHANGED <<asked, table, orderly>> /\ Send(Ids)
    BY <1>6 DEF SelectAllMatching
  <2>2. Ids \in RequestSet /\ Ids.kind = "ids"
    BY PageAssumption DEF IInv, Typed, Ids, RequestSet, Sent
  <2>3. Typed
    BY DEF IInv
  <2>4. /\ requests' \in [Slots -> RequestSet]
        /\ \E s \in Slots : /\ requests[s] = None /\ requests'[s] = Ids
                            /\ \A t \in Slots \ {s} : requests'[t] = requests[t]
    BY <2>1, <2>2, <2>3, SendTakesOneSlot
  <2>5. None.kind # "list"
    BY DEF None
  <2>. QED
    BY <2>1, <2>2, <2>4, <2>5, QuietKeepsIInv
<1>. QED
  BY <1>1, <1>2, <1>3, <1>4, <1>5, <1>6 DEF User

LEMMA NetworkKeepsIInv == ASSUME IInv, Network PROVE IInv'
<1>1. PICK s \in Slots :
        \/ \E silent \in Silences : ReceiveList(s, silent) \/ ReceiveIds(s, silent)
        \/ FailList(s) \/ FailIds(s)
  BY DEF Network
<1>2. requests' = [requests EXCEPT ![s] = None] /\ UNCHANGED asked
  BY <1>1 DEF ReceiveList, ReceiveIds, FailList, FailIds, Done
<1>3. /\ requests' \in [Slots -> RequestSet] /\ requests'[s] = None
      /\ \A t \in Slots \ {s} : requests'[t] = requests[t]
  BY <1>2 DEF IInv, Typed, RequestSet
<1>4. None.kind # "list"
  BY DEF None
<1>5. Typed'
  BY <1>2, <1>3 DEF IInv, Typed
<1>6. CASE \E silent \in Silences : ReceiveList(s, silent)
  <2>1. PICK silent \in Silences : ReceiveList(s, silent)
    BY <1>6
  <2>2. /\ requests[s].kind = "list" /\ UNCHANGED orderly
        /\ table'.filter = requests[s].filter /\ table'.mode = requests[s].mode
    BY <2>1 DEF ReceiveList, AnswerList
  <2>3. ASSUME orderly' PROVE OneList' /\ ListsAsk' /\ Caught'
    <3>1. OneList /\ ListsAsk
      BY <2>2, <2>3 DEF IInv
    <3>2. \A t \in Slots : requests'[t].kind # "list"
      BY <1>3, <1>4, <2>2, <3>1 DEF OneList
    <3>3. table'.mode = asked'.mode /\ (asked'.filter \in Filters => table'.filter = asked'.filter)
      BY <1>2, <2>2, <3>1 DEF ListsAsk
    <3>. QED
      BY <3>2, <3>3 DEF OneList, ListsAsk, Caught, InFlight
  <2>. QED
    BY <1>5, <2>3 DEF IInv
<1>7. CASE (\E silent \in Silences : ReceiveIds(s, silent)) \/ FailIds(s)
  <2>1. requests[s].kind = "ids" /\ UNCHANGED <<asked, table, orderly>>
    BY <1>7 DEF ReceiveIds, FailIds
  <2>. QED
    BY <1>3, <1>4, <2>1, QuietKeepsIInv
<1>8. CASE FailList(s)
  <2>1. orderly' = FALSE
    BY <1>8 DEF FailList
  <2>. QED
    BY <1>5, <2>1 DEF IInv
<1>. QED
  BY <1>1, <1>6, <1>7, <1>8

LEMMA NextKeepsIInv == IInv /\ [Next]_vars => IInv'
<1>. SUFFICES ASSUME IInv, [Next]_vars PROVE IInv'
  OBVIOUS
<1>1. CASE User
  BY <1>1, UserKeepsIInv
<1>2. CASE Network
  BY <1>2, NetworkKeepsIInv
<1>3. CASE UNCHANGED vars
  <2>1. UNCHANGED <<asked, table, requests, orderly>>
    BY <1>3 DEF vars
  <2>2. requests' \in [Slots -> RequestSet]
    BY <2>1 DEF IInv, Typed
  <2>. QED
    BY <2>1, <2>2, QuietKeepsIInv
<1>. QED
  BY <1>1, <1>2, <1>3 DEF Next

LEMMA IInvHolds == Spec => []IInv
  BY InitIInv, NextKeepsIInv, PTL DEF Spec

-----------------------------------------------------------------------------
\* The table is that of the filter and the mode on screen once the last list,
\* asked for alone, has been answered (request, setFilter, setUndecided, load,
\* goToPage), and hand-picked rows stand for matches of that filter; an
\* unreadable expression is asked of nobody.
THEOREM TheTableIsAsAsked == Spec => []AtRestTheTableIsAsAsked
<1>1. IInv => AtRestTheTableIsAsAsked
  <2>. SUFFICES ASSUME IInv, AtRest, orderly
                PROVE  /\ table.mode = asked.mode
                       /\ asked.filter \in Filters =>
                            table.filter = asked.filter /\ (WholeMatch \/ Targets \subseteq Matches(asked.filter))
    BY DEF AtRestTheTableIsAsAsked
  <2>1. ~InFlight("list")
    BY DEF AtRest, Free, InFlight, None
  <2>2. table.mode = asked.mode /\ (asked.filter \in Filters => table.filter = asked.filter)
    BY <2>1 DEF IInv, Caught
  <2>3. ~WholeMatch => Targets \subseteq Matches(table.filter)
    BY DEF Targets
  <2>. QED
    BY <2>2, <2>3
<1>. QED
  BY <1>1, IInvHolds, PTL

\* No click and no answer leaves a whole match beside a filter it is not of, but
\* an expression that cannot be read (setFilter returns before it drops the
\* selection) and an answer of GET /media/ids that a change of the filter has
\* overtaken (selectAllMatching stores it without looking); the next expression
\* that can be read drops what was left.
THEOREM WholeMatchDies == Spec => WholeMatchDiesWithItsFilter
<1>. DEFINE Dies == /\ OfTheFilter /\ ~OfTheFilter' => BecomesUnreadable \/ \E s \in Slots : AnswersOvertaken(s)
                    /\ ~OfTheFilter /\ asked'.filter # asked.filter => ~WholeMatch' \/ BecomesUnreadable
<1>1. [Next]_vars => [Dies]_vars
  <2>. SUFFICES ASSUME Next PROVE Dies
    OBVIOUS
  <2>1. ~OfTheFilter' => WholeMatch' /\ allMatching'.filter # Sent(asked'.filter)
    BY DEF OfTheFilter
  <2>2. CASE UNCHANGED <<asked, allMatching>>
    BY <2>2 DEF OfTheFilter, WholeMatch
  <2>3. CASE allMatching' = None
    BY <2>1, <2>3 DEF WholeMatch
  <2>4. CASE User
    <3>1. CASE \E f \in Filters \cup Unreadable : SetFilter(f)
      <4>1. PICK f \in Filters \cup Unreadable : SetFilter(f)
        BY <3>1
      <4>2. CASE f \notin Unreadable
        BY <4>1, <4>2, <2>3 DEF SetFilter, ClearSelection
      <4>3. CASE f \in Unreadable
        <5>1. UNCHANGED allMatching /\ asked' = [asked EXCEPT !.filter = f]
          BY <4>1, <4>3 DEF SetFilter
        <5>2. CASE asked'.filter = asked.filter
          BY <5>1, <5>2 DEF OfTheFilter, WholeMatch
        <5>3. CASE asked'.filter # asked.filter
          <6>1. asked'.filter \in {f, asked.filter}
            BY <5>1
          <6>2. BecomesUnreadable
            BY <4>3, <5>3, <6>1 DEF BecomesUnreadable
          <6>. QED
            BY <6>2
        <5>. QED
          BY <5>2, <5>3
      <4>. QED
        BY <4>2, <4>3
    <3>2. CASE \E mode \in {"hide", "show"} : SetUndecided(mode)
      BY <3>2, <2>3 DEF SetUndecided, ClearSelection
    <3>3. CASE Load \/ \E page \in 1 .. Cardinality(Titles) : GoToPage(page)
      BY <3>3, <2>2 DEF Load, GoToPage
    <3>4. CASE \E t \in Titles : ToggleRow(t)
      BY <3>4, <2>3 DEF ToggleRow
    <3>5. CASE SelectAllMatching \/ Clear
      BY <3>5, <2>2, <2>3 DEF SelectAllMatching, Clear, ClearSelection
    <3>. QED
      BY <2>4, <3>1, <3>2, <3>3, <3>4, <3>5 DEF User
  <2>5. CASE Network
    <3>1. PICK s \in Slots :
            \/ \E silent \in Silences : ReceiveList(s, silent) \/ ReceiveIds(s, silent)
            \/ FailList(s) \/ FailIds(s)
      BY <2>5 DEF Network
    <3>2. CASE \E silent \in Silences : ReceiveIds(s, silent)
      <4>1. PICK silent \in Silences : ReceiveIds(s, silent)
        BY <3>2
      <4>2. allMatching'.filter = requests[s].filter /\ allMatching'.silent = silent /\ UNCHANGED asked
        BY <4>1 DEF ReceiveIds, AnswerIds
      <4>3. ~OfTheFilter' => requests[s].filter # Sent(asked.filter)
        BY <4>2, <2>1
      <4>. QED
        BY <4>1, <4>2, <4>3 DEF AnswersOvertaken
    <3>3. CASE (\E silent \in Silences : ReceiveList(s, silent)) \/ FailList(s) \/ FailIds(s)
      <4>1. UNCHANGED <<asked, allMatching>>
        BY <3>3 DEF ReceiveList, FailList, FailIds
      <4>. QED
        BY <4>1, <2>2
    <3>. QED
      BY <3>1, <3>2, <3>3
  <2>. QED
    BY <2>4, <2>5 DEF Next
<1>. QED
  BY <1>1, PTL DEF Spec, WholeMatchDiesWithItsFilter
===============================================================================
