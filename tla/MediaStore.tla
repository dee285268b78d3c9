------------------------------- MODULE MediaStore ------------------------------
(***************************************************************************)
(* The media view of one browser tab: useMediaStore                        *)
(* (apps/web/src/stores/media.ts) as MediaFleetView.vue drives it, over    *)
(* GET /media and GET /media/ids (media-fleet.service.ts).                 *)
(*                                                                         *)
(* Requests are answered in any order.  The libraries do not change while  *)
(* the user looks at them, but which instances answer does.  The order of  *)
(* the titles is fixed, every instance is targeted, and no answer is       *)
(* truncated.                                                              *)
(***************************************************************************)
EXTENDS Naturals, FiniteSets

CONSTANTS
  Filters, Everything,   \* the expressions that can be read; the empty one
  Unreadable,            \* those with a parse error, as a cell's value with a quote in it
  Titles,                \* numbered in the order of the list
  Matches(_),            \* of a filter: the copies <<title, instance>> it matches
  Undecided(_),          \* of a filter: the titles it could not judge
  Silences,              \* sets of instances that may not answer a read
  PageSize,
  MaxRequests            \* bound: requests in flight

ASSUME PageAssumption == PageSize \in Nat \ {0} /\ MaxRequests \in Nat \ {0} /\ Everything \in Filters
                         /\ Filters \cap Unreadable = {}

VARIABLES
  asked,         \* filter and undecided
  table,         \* the answer on screen: what it was asked, page, who was silent
  selectedKeys,  \* the titles picked by hand
  allMatching,   \* the whole match: the filter it was asked for, who was silent
  loading,
  requests,      \* what is in flight, by slot
  orderly        \* history: the last list was asked for alone, and did not fail

vars == <<asked, table, selectedKeys, allMatching, loading, requests, orderly>>

Slots == 1 .. MaxRequests
None == [kind |-> "none"]
Free(s) == requests[s] = None
NextFree(s) == Free(s) /\ \A t \in Slots : t < s => ~Free(t)
InFlight(kind) == \E s \in Slots : requests[s].kind = kind
AtRest == \A s \in Slots : Free(s)

-------------------------------------------------------------------------------
(* The server.                                                             *)

TitlesOf(copies) == {c[1] : c \in copies}
Listed(filter, mode) == IF mode = "show" THEN Undecided(filter) ELSE TitlesOf(Matches(filter))
Rank(t, set) == Cardinality({u \in set : u <= t})
Slice(set, page) == {t \in set : (page - 1) * PageSize < Rank(t, set) /\ Rank(t, set) <= page * PageSize}

\* query: one page of what a list request asked for.
AnswerList(r, silent) == [filter |-> r.filter, mode |-> r.mode, page |-> r.page, silent |-> silent]

\* ids: all of the match, whatever the page and the mode, but of no silent instance.
AnswerIds(r, silent) == [kind |-> "match", filter |-> r.filter, silent |-> silent]
CopiesOf(match) == {c \in Matches(match.filter) : c[2] \notin match.silent}

-------------------------------------------------------------------------------
(* What the store derives from its state.                                  *)

NoTable == [filter |-> Everything, mode |-> "hide", page |-> 0, silent |-> {}]

\* rows and totalPages
Shown == IF table = NoTable THEN {} ELSE Slice(Listed(table.filter, table.mode), table.page)
TotalPages == {1} \cup {p \in 1 .. Cardinality(Titles) : Slice(Listed(table.filter, table.mode), p) # {}}

WholeMatch == allMatching # None

\* targetsFor: the copies a bulk operation is staged for.
Targets ==
  {c \in IF WholeMatch THEN CopiesOf(allMatching)
         ELSE {m \in Matches(table.filter) : m[1] \in Shown \cap selectedKeys} :
     c[2] \notin table.silent}

-------------------------------------------------------------------------------
(* Requests.                                                               *)

\* An unreadable filter is never sent: the server is asked for the whole fleet.
Sent(f) == IF f \in Unreadable THEN Everything ELSE f

List(page, clears) ==
  [kind |-> "list", filter |-> Sent(asked'.filter), mode |-> asked'.mode, page |-> page, clears |-> clears]
Ids == [kind |-> "ids", filter |-> Sent(asked.filter)]

Send(r) == \E s \in Slots : NextFree(s) /\ requests' = [requests EXCEPT ![s] = r]

\* request: clears says whether a hand-picked page goes when it is over.
Ask(page, clears) ==
  /\ Send(List(page, clears))
  /\ loading' = TRUE
  /\ orderly' = ~InFlight("list")
  /\ UNCHANGED table

ClearSelection == selectedKeys' = {} /\ allMatching' = None

Init ==
  /\ asked = [filter |-> Everything, mode |-> "hide"]
  /\ table = NoTable /\ loading = TRUE /\ orderly = TRUE
  /\ selectedKeys = {} /\ allMatching = None
  /\ requests = [s \in Slots |->
       IF s = 1 THEN [kind |-> "list", filter |-> Everything, mode |-> "hide", page |-> 1, clears |-> FALSE]
       ELSE None]

-------------------------------------------------------------------------------
(* The user.                                                               *)

\* Mutated form of SetFilter: the selection outlives it.
SetFilterKeeping(f) ==
  /\ asked' = [asked EXCEPT !.filter = f]
  /\ IF f \in Unreadable THEN UNCHANGED <<table, loading, requests, orderly>> ELSE Ask(1, FALSE)
  /\ UNCHANGED <<selectedKeys, allMatching>>

\* setFilter, from the bar or from a cell: an unreadable one only takes the place
\* of the filter that was there.
SetFilter(f) ==
  /\ asked' = [asked EXCEPT !.filter = f]
  /\ \/ f \in Unreadable /\ UNCHANGED <<table, selectedKeys, allMatching, loading, requests, orderly>>
     \/ f \notin Unreadable /\ ClearSelection /\ Ask(1, FALSE)

\* Mutated form of SetUndecided: narrowed on this side only.
SetUndecidedHere(mode) ==
  /\ Undecided(table.filter) # {} /\ mode # asked.mode
  /\ asked' = [asked EXCEPT !.mode = mode]
  /\ ClearSelection /\ UNCHANGED <<table, loading, requests, orderly>>

\* setUndecided: the line with its buttons is there when something is undecided.
SetUndecided(mode) ==
  /\ Undecided(table.filter) # {} /\ mode # asked.mode
  /\ asked' = [asked EXCEPT !.mode = mode]
  /\ ClearSelection /\ Ask(1, FALSE)

\* load: "Re-read the fleet", and the end of a run.
Load == UNCHANGED <<asked, selectedKeys, allMatching>> /\ Ask(1, FALSE)

\* goToPage: the pagination is off while loading.
GoToPage(page) ==
  /\ ~loading /\ page \in TotalPages \ {table.page}
  /\ UNCHANGED <<asked, selectedKeys, allMatching>>
  /\ Ask(page, ~WholeMatch)

\* toggleRow: leaving the whole match keeps the rest of this page.
ToggleRow(t) ==
  /\ t \in Shown
  /\ selectedKeys' =
       CASE WholeMatch -> Shown \ {t}
         [] ~WholeMatch /\ t \in selectedKeys -> selectedKeys \ {t}
         [] OTHER -> selectedKeys \cup {t}
  /\ allMatching' = None
  /\ UNCHANGED <<asked, table, loading, requests, orderly>>

\* toggleAllMatching, with nothing or a hand-picked page selected: selectAllMatching.
SelectAllMatching ==
  /\ Shown # {} /\ ~WholeMatch
  /\ Send(Ids)
  /\ UNCHANGED <<asked, table, selectedKeys, allMatching, loading, orderly>>

\* The header once more, "clear", and the end of every dialog and operation.
Clear == ClearSelection /\ UNCHANGED <<asked, table, loading, requests, orderly>>

User ==
  \/ \E f \in Filters \cup Unreadable : SetFilter(f)
  \/ \E mode \in {"hide", "show"} : SetUndecided(mode)
  \/ Load
  \/ \E page \in 1 .. Cardinality(Titles) : GoToPage(page)
  \/ \E t \in Titles : ToggleRow(t)
  \/ SelectAllMatching
  \/ Clear

-------------------------------------------------------------------------------
(* Answers and failures.                                                   *)

Done(s) == requests' = [requests EXCEPT ![s] = None]
Over(s) == selectedKeys' = IF requests[s].clears THEN {} ELSE selectedKeys

ReceiveList(s, silent) ==
  /\ requests[s].kind = "list"
  /\ table' = AnswerList(requests[s], silent)
  /\ Over(s) /\ Done(s) /\ loading' = FALSE
  /\ UNCHANGED <<asked, allMatching, orderly>>

ReceiveIds(s, silent) ==
  /\ requests[s].kind = "ids"
  /\ allMatching' = AnswerIds(requests[s], silent)
  /\ selectedKeys' = Shown
  /\ Done(s)
  /\ UNCHANGED <<asked, table, loading, orderly>>

\* The rows stay as they were.
FailList(s) ==
  /\ requests[s].kind = "list"
  /\ Over(s) /\ Done(s) /\ loading' = FALSE /\ orderly' = FALSE
  /\ UNCHANGED <<asked, table, allMatching>>

FailIds(s) ==
  /\ requests[s].kind = "ids"
  /\ Done(s)
  /\ UNCHANGED <<asked, table, selectedKeys, allMatching, loading, orderly>>

Network ==
  \E s \in Slots :
    \/ \E silent \in Silences : ReceiveList(s, silent) \/ ReceiveIds(s, silent)
    \/ FailList(s) \/ FailIds(s)

Next == User \/ Network
Spec == Init /\ [][Next]_vars

-------------------------------------------------------------------------------
(* Properties.                                                             *)

\* The whole match is "defined by the current filter - so it has to die with it"
\* (allMatching).  Two things part a whole match from the filter its table is
\* asked with, and no third: an answer that a change of the filter has
\* overtaken, and an expression that cannot be read, which setFilter takes
\* without dropping the selection.  Such a match is gone with the next
\* expression that can be.
OfTheFilter == WholeMatch => allMatching.filter = Sent(asked.filter)
AnswersOvertaken(s) == ReceiveIds(s, allMatching'.silent) /\ requests[s].filter # Sent(asked.filter)
BecomesUnreadable == asked'.filter \in Unreadable \ {asked.filter}
WholeMatchDiesWithItsFilter ==
  [][/\ OfTheFilter /\ ~OfTheFilter' => BecomesUnreadable \/ \E s \in Slots : AnswersOvertaken(s)
     /\ ~OfTheFilter /\ asked'.filter # asked.filter => ~WholeMatch' \/ BecomesUnreadable]_vars

\* When every answer is in, and the last list was alone and did not fail, the
\* table is what the filter and the mode on screen ask for, and every copy an
\* operation would touch by hand-picked rows is a match of that filter: if it is
\* one that can be read, as an unreadable one leaves the table alone.
AtRestTheTableIsAsAsked ==
  AtRest /\ orderly =>
    /\ table.mode = asked.mode
    /\ asked.filter \in Filters =>
         table.filter = asked.filter /\ (WholeMatch \/ Targets \subseteq Matches(asked.filter))

===============================================================================
