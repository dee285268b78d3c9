------------------------------- MODULE MCMediaView -------------------------------
(***************************************************************************)
(* The media view: either its store is looked at (MediaStore), or the      *)
(* filter that is typed in it (MediaFilter), or how the server makes its   *)
(* rows (MediaRows), the others staying as they began.                     *)
(***************************************************************************)
EXTENDS MediaStore, TLC

CONSTANTS everything, small, listed, unreadable, hd, uhd

-------------------------------------------------------------------------------
(* The store: three titles on two instances, pages of two.  The first filter   *)
(* matches a part of the copies, the second could not judge a title.           *)

MCFilters == {everything, small, listed}
MCUnreadable == {unreadable}
MCTitles == 1 .. 3
MCMatches(f) ==
  CASE f = everything -> {<<1, hd>>, <<1, uhd>>, <<2, hd>>, <<3, uhd>>}
    [] f = small -> {<<1, hd>>, <<2, hd>>}
    [] f = listed -> {<<3, uhd>>}
MCUndecided(f) == IF f = listed THEN {1, 2} ELSE {}
MCSilences == {{}, {uhd}}

-------------------------------------------------------------------------------
(* The filter: a title of two instances, of which any part has answered, and of *)
(* which the copies may not agree; the words ask for a fact of the title, for    *)
(* the number of its copies, and for one of a copy that may be unreported.       *)

Word(field, operator, raws) ==
  [type |-> "word", field |-> field, operator |-> operator, negated |-> FALSE, raws |-> raws]
Number(n) == [form |-> "number", value |-> n]
Between(a, b) == [form |-> "range", from |-> a, to |-> b]
Words ==
  {Word("year", "contains", {Between(1990, 1999), Number(2001)}), Word("instances", "lt", {Number(2)}),
   Word("list", "absent", {}),
   [type |-> "bare", raws |-> <<[imdb |-> FALSE, exact |-> {}, contains |-> {"matrix"}]>>]}
Absent == [kind |-> "none"]
Unreported == [kind |-> "unknown"]
OnTheList == [kind |-> "set", values |-> {"l"}]
Told(year, title, list) ==
  [year |-> [kind |-> "number", value |-> year], title |-> [kind |-> "text", value |-> title], sortTitle |-> Absent, list |-> list]
CopiesWith(lists) == {Told(1999, "matrix", l) : l \in lists} \cup {Told(2003, "dune", l) : l \in lists}
Copies == CopiesWith({Absent, OnTheList})
Partial == CopiesWith({Absent, OnTheList, Unreported})
Rows ==
  {r \in [kind : {"movie"}, copies : UNION {[S -> Partial] : S \in (SUBSET {1, 2}) \ {{}}}, silent : SUBSET {1, 2}] :
     r.silent \cap DOMAIN r.copies = {}}

VARIABLES source, row

F == INSTANCE MediaFilter WITH Instances <- {1, 2}, MaxTokens <- 5, MaxJudged <- 4, MaxDepth <- 1, MaxTerms <- 3

ASSUME FilterRows == F!RowsHaveCopies

-------------------------------------------------------------------------------
(* The rows: a Radarr with two films of one name, with or without an id; beside *)
(* it another that may be empty, or a Sonarr with a series of the same number.  *)

MCKinds == <<"movie", "movie", "series">>
Title(id, tmdb, tvdb, slug, title) == [id |-> id, tmdb |-> tmdb, tvdb |-> tvdb, slug |-> slug, title |-> title]
MCLibraries ==
  <<{<<Title(1, 0, 0, 0, 1), Title(2, 0, 0, 0, 1)>>, <<Title(1, 5, 0, 0, 1), Title(2, 0, 0, 0, 1)>>},
    {<<Title(7, 5, 0, 3, 1), Title(8, 0, 0, 0, 1)>>, <<>>},
    {<<Title(1, 5, 0, 0, 1), Title(2, 5, 4, 0, 2)>>}>>

VARIABLES enabled, library, snapshot, build, late, index, events

R == INSTANCE MediaRows WITH
  Servers <- 1 .. 3, Fleets <- {{1, 2}, {1, 3}}, KindOf <- MCKinds, Libraries <- MCLibraries, MaxEvents <- 4

ASSUME RowConstants == R!RowsAssumption

-------------------------------------------------------------------------------

VARIABLE looked
rows == <<enabled, library, snapshot, build, late, index, events>>
all == <<looked, vars, source, row, rows>>

RowsInit == R!Init /\ (looked # "rows" => enabled = {1, 2} /\ library = [s \in 1 .. 3 |-> CHOOSE lib \in MCLibraries[s] : TRUE])
ViewInit == looked \in {"store", "filter", "rows"} /\ Init /\ F!Init /\ RowsInit
StoreStep == looked = "store" /\ Next /\ UNCHANGED <<looked, source, row, rows>>
FilterStep == looked = "filter" /\ F!Next /\ UNCHANGED <<looked, vars, rows>>
RowsStep == looked = "rows" /\ R!Next /\ UNCHANGED <<looked, vars, source, row>>
ViewNext == StoreStep \/ FilterStep \/ RowsStep
ViewSpec == ViewInit /\ [][ViewNext]_all

\* A source is read in the one way the grammar has for it (MediaFilter).
ParserFollowsTheGrammar == F!ParserFollowsTheGrammar

\* A verdict is never taken back by what the fleet answers later (MediaFilter).
VerdictsStand == [][F!VerdictStays]_all

\* What the instances told is in the rows, once (MediaRows).
NoCopyIsLost == [][R!CopiesAreKept]_all
===============================================================================
