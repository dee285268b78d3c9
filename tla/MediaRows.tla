------------------------------- MODULE MediaRows -------------------------------
(***************************************************************************)
(* How the server makes the rows of the media view                         *)
(* (services/media-fleet.service.ts, over the cached reads of              *)
(* services/resources.service.ts): a build asks every instance, falls back *)
(* to what is cached where a refresh fails, and joins the copies of a      *)
(* title by the ladder of packages/shared/src/media-identity.ts.           *)
(*                                                                         *)
(* One build at a time; two that overlap are in SnapshotCache.  The reads  *)
(* of a build are answered one by one, and those that are still out when   *)
(* one fails are answered when they are.  What a column needs beside the   *)
(* library is taken as one resource, the import lists as another.  Ids,    *)
(* slugs and folded titles are numbers, 0 for none, as Radarr writes it.   *)
(***************************************************************************)
EXTENDS Naturals, Sequences, FiniteSets, SequencesExt

CONSTANTS
  Servers,        \* the instances, by number
  Fleets,         \* those that may be enabled together
  KindOf,         \* of each, "movie" or "series"
  Libraries,      \* of each, the libraries it may have: sequences of items
  MaxEvents       \* bound: edits of a library, runs, builds begun, and reads that fail

VARIABLES
  enabled,    \* the instances that are enabled; no build begins or goes on over a change of it
  library,    \* what each instance holds
  snapshot,   \* resource_snapshots: of each instance, its library (Missing when none), and whether
              \* the other resources of a column and the import lists are there
  build,      \* the build under way: whether it refreshes; of each instance, how far it has come,
              \* the reads it waits for and the library they gave it; and, as history, the
              \* instances whose snapshots it found and no run has dropped since
  late,       \* reads a failed build no longer waits for: how many of each resource of each instance
  index,      \* the answer of the last build
  events

vars == <<enabled, library, snapshot, build, late, index, events>>

-----------------------------------------------------------------------------
(* Rows.                                                                   *)

Ladder(kind) == IF kind = "movie" THEN <<"tmdb", "slug", "title">> ELSE <<"tvdb", "tmdb", "slug", "title">>

\* The first rung an item has answers for it.
MediaIdentity(item, kind) ==
  LET n == CHOOSE n \in DOMAIN Ladder(kind) : item[Ladder(kind)[n]] # 0 /\ \A m \in 1 .. n - 1 : item[Ladder(kind)[m]] = 0
  IN  [kind |-> kind, basis |-> Ladder(kind)[n], value |-> item[Ladder(kind)[n]], of |-> <<>>]
Disambiguated(key, copy) == [key EXCEPT !.of = <<copy.on, copy.item.id>>]

RowsAssumption ==
  /\ Servers \subseteq Nat /\ (\A f \in Fleets : f \subseteq Servers) /\ (\A s \in Servers : KindOf[s] \in {"movie", "series"}) /\ MaxEvents \in Nat
  \* Within one instance, external ids and slugs tell titles apart.
  /\ \A s \in Servers : \A lib \in Libraries[s] : \A a, b \in ToSet(lib) :
       a # b => a.id # b.id /\ (MediaIdentity(a, KindOf[s]) = MediaIdentity(b, KindOf[s]) => MediaIdentity(a, KindOf[s]).basis = "title")

Copies(columns) ==
  LET of(s) == [n \in DOMAIN columns[s].items |-> [on |-> s, item |-> columns[s].items[n]]]
  IN  FlattenSeq([k \in 1 .. Cardinality(enabled) |-> of(SetToSortSeq(enabled, <)[k])])

Joins(copy, row) == \A other \in row : other.on # copy.on
\* Mutant: a title is enough.
ClaimedNever(acc, key, on) == FALSE
\* Two different titles of one instance stay two rows, however alike their names.
Claimed(acc, key, on) == key.basis = "title" /\ <<key, on>> \in acc.claimed

\* One facet for an instance in a row: the first claim wins.
Place(acc, copy) ==
  LET own == MediaIdentity(copy.item, KindOf[copy.on])
      key == IF Claimed(acc, own, copy.on) THEN Disambiguated(own, copy) ELSE own
      row == IF key \in DOMAIN acc.rows THEN acc.rows[key] ELSE {}
      grown == IF Joins(copy, row) THEN row \cup {copy} ELSE row
  IN  [claimed |-> acc.claimed \cup {<<own, copy.on>>},
       rows |-> [k \in DOMAIN acc.rows \cup {key} |-> IF k = key THEN grown ELSE acc.rows[k]]]

Unknown(columns, kind) == {s \in enabled : ~columns[s].known /\ KindOf[s] = kind}
BuildRows(columns) ==
  LET drafts == FoldLeft(Place, [claimed |-> {}, rows |-> <<>>], Copies(columns)).rows
  IN  {[key |-> k, facets |-> drafts[k], unknown |-> Unknown(columns, k.kind)] : k \in DOMAIN drafts}

-----------------------------------------------------------------------------
(* Reads.                                                                  *)

Missing == [state |-> "none"]
Stored(lib) == [state |-> "stored", items |-> lib]
Resources == {"media", "rest", "lists"}
NoSnapshot == [media |-> Missing, rest |-> FALSE, lists |-> FALSE]
NoBuild == [state |-> "idle"]
NoIndex == [rows |-> {}, columns |-> <<>>]

Init ==
  /\ enabled \in Fleets
  /\ library \in [Servers -> UNION {Libraries[s] : s \in Servers}] /\ (\A s \in Servers : library[s] \in Libraries[s])
  /\ \A s \in Servers \ enabled : library[s] = CHOOSE lib \in Libraries[s] : TRUE
  /\ snapshot = [s \in Servers |-> NoSnapshot]
  /\ build = NoBuild /\ index = NoIndex /\ late = [s \in Servers |-> [r \in Resources |-> 0]]
  /\ events = 0

Event == events < MaxEvents /\ events' = events + 1

\* cached: what is stored is not asked for, unless it is a refresh.
Asks(s, refresh) ==
  (IF refresh \/ snapshot[s].media = Missing THEN {"media"} ELSE {})
  \cup (IF refresh \/ ~snapshot[s].rest THEN {"rest"} ELSE {})
Stores(s, r) == snapshot' = [snapshot EXCEPT ![s][r] = IF r = "media" THEN Stored(library[s]) ELSE TRUE]

\* index: the memo has expired or was dropped, or a refresh is asked for.
Begin(refresh) ==
  /\ build = NoBuild /\ Event
  /\ build' = [state |-> "reading", refresh |-> refresh, at |-> [s \in enabled |-> "core"],
               out |-> [s \in enabled |-> Asks(s, refresh)], got |-> [s \in enabled |-> snapshot[s].media],
               had |-> {s \in enabled : Asks(s, FALSE) = {}},
               columns |-> [s \in enabled |-> [items |-> <<>>, known |-> FALSE, reachable |-> TRUE, lists |-> "unsupported"]]]
  /\ UNCHANGED <<enabled, library, snapshot, late, index>>

At(s, stages) == build.state = "reading" /\ build.at[s] \in stages
Waits(s) == At(s, {"core", "fallback"})
Known(s) == [build.columns[s] EXCEPT !.items = build.got[s].items, !.known = TRUE]
Silent(s) == [build.columns[s] EXCEPT !.reachable = FALSE]
After(s, stage, column) == build' = [build EXCEPT !.at[s] = stage, !.columns[s] = column]

\* readCore: one of the reads it waits for is answered.
Answer(s, r) ==
  /\ Waits(s) /\ r \in build.out[s]
  /\ Stores(s, r)
  /\ build' = [build EXCEPT !.out[s] = @ \ {r}, !.got[s] = IF r = "media" THEN Stored(library[s]) ELSE @]
  /\ UNCHANGED <<enabled, library, late, index, events>>

\* buildOne: the first that fails ends the wait for the others.  "A failed refresh
\* is not the same as never having read this instance": it tries once more, for what
\* is not stored.
Leaves(s, r) == late' = [late EXCEPT ![s] = [q \in Resources |-> IF q \in build.out[s] \ {r} THEN @[q] + 1 ELSE @[q]]]
CoreFails(s, r) ==
  /\ Waits(s) /\ r \in build.out[s] /\ Event
  /\ Leaves(s, r)
  /\ IF build.refresh /\ At(s, {"core"})
     THEN build' = [build EXCEPT !.at[s] = "fallback", !.columns[s] = Silent(s),
                                 !.out[s] = Asks(s, FALSE), !.got[s] = snapshot[s].media]
     ELSE After(s, "failed", Silent(s))
  /\ UNCHANGED <<enabled, library, snapshot, index>>

\* cached: an answer is stored whether or not somebody waits for it still.
LateAnswer(s, r) ==
  /\ late[s][r] > 0 /\ late' = [late EXCEPT ![s][r] = @ - 1]
  /\ Stores(s, r)
  /\ UNCHANGED <<enabled, library, build, index, events>>

\* readLists, when the rest is in or was given up: their failure costs a column,
\* never the rows.
ReadLists(s) ==
  /\ At(s, {"failed"}) \/ (Waits(s) /\ build.out[s] = {})
  /\ After(s, "done", [IF Waits(s) THEN Known(s) ELSE build.columns[s] EXCEPT
                         !.lists = IF KindOf[s] = "series" THEN "unsupported" ELSE "known"])
  /\ snapshot' = [snapshot EXCEPT ![s].lists = @ \/ KindOf[s] = "movie"]
  /\ UNCHANGED <<enabled, library, late, index, events>>
ListsFail(s) ==
  /\ At(s, {"failed"}) \/ (Waits(s) /\ build.out[s] = {})
  /\ KindOf[s] = "movie" /\ (build.refresh \/ ~snapshot[s].lists) /\ Event
  /\ After(s, "done", [IF Waits(s) THEN Known(s) ELSE build.columns[s] EXCEPT !.lists = "error"])
  /\ late' \in {late, [late EXCEPT ![s].lists = @ + 1]}
  /\ UNCHANGED <<enabled, library, snapshot, index>>

Finish ==
  /\ build.state = "reading" /\ \A s \in enabled : build.at[s] = "done"
  /\ index' = [rows |-> BuildRows(build.columns), columns |-> build.columns]
  /\ build' = NoBuild
  /\ UNCHANGED <<enabled, library, snapshot, late, events>>

\* A user of the instance changes its library; a run does, and drops the snapshots.
LibraryChanges(s) ==
  /\ Event /\ library' \in {[library EXCEPT ![s] = lib] : lib \in Libraries[s] \ {library[s]}}
  /\ UNCHANGED <<enabled, snapshot, build, late, index>>
RunTouches(s) ==
  /\ Event /\ snapshot' = [snapshot EXCEPT ![s] = NoSnapshot]
  /\ build' = IF build = NoBuild THEN NoBuild ELSE [build EXCEPT !.had = @ \ {s}]
  /\ UNCHANGED <<enabled, library, late, index>>

Next ==
  \/ (\E refresh \in BOOLEAN : Begin(refresh)) \/ Finish
  \/ \E s \in enabled : ReadLists(s) \/ ListsFail(s) \/ LibraryChanges(s) \/ RunTouches(s)
  \/ \E s \in enabled, r \in Resources : Answer(s, r) \/ CoreFails(s, r) \/ LateAnswer(s, r)

Spec == Init /\ [][Next]_vars

-----------------------------------------------------------------------------
(* Properties.                                                             *)

\* "Two different films on one Radarr must never become one row" (media-identity.ts:86),
\* "a failed refresh is not the same as never having read this instance"
\* (media-fleet.service.ts:294): when a build ends, each row of an instance's kind names
\* it as unknown, or every copy it told of is in one row, with no other copy of that
\* instance, and with each copy of the same external id elsewhere; and an instance
\* whose snapshots were there when it began is told of, unless a run dropped them
\* meanwhile.  Whatever failed on the way, in whatever order the answers came, and
\* whatever the fallback of a failed refresh found of the one and the other resource.
CopiesAreKept ==
  build.state = "reading" /\ build'.state = "idle" =>
    \A s \in enabled :
      LET rows == index'.rows
          column == index'.columns[s]
          mine(r) == {c \in r.facets : c.on = s}
          identity(c) == MediaIdentity(c.item, KindOf[c.on])
      IN  /\ IF column.known
            THEN /\ \A item \in ToSet(column.items) : Cardinality({r \in rows : [on |-> s, item |-> item] \in r.facets}) = 1
                 /\ \A r \in rows : Cardinality(mine(r)) <= 1 /\ \A c \in mine(r) : c.item \in ToSet(column.items)
            ELSE \A r \in rows : mine(r) = {} /\ (r.key.kind = KindOf[s] => s \in r.unknown)
          /\ \A a, b \in rows : \A c \in mine(a), d \in b.facets :
               identity(c) = identity(d) /\ identity(c).basis # "title" => a = b
          /\ s \in build.had => column.known

NoCopyIsLost == [][CopiesAreKept]_vars

=============================================================================
