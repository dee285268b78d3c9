------------------------------ MODULE PathsStore ------------------------------
(***************************************************************************)
(* The paths view of one browser tab: usePathsStore                        *)
(* (apps/web/src/stores/paths.ts) as PathMatrixView.vue and App.vue drive  *)
(* it, over GET /fs/matrix.                                                *)
(*                                                                         *)
(* Requests are answered in any order, or fail.  What is on disk and what  *)
(* the instances say changes with the end of a run, which has the view     *)
(* refreshed.  A level of the tree is stored as what it is an answer to    *)
(* (the tree asks for first pages only), one of the flat list as its rows. *)
(***************************************************************************)
EXTENDS PathMatrix

CONSTANTS
  FirstWorld,
  NoFilter,           \* of Filters
  Scopes,             \* what the fleet bar selects
  MaxRequests,        \* bound: requests in flight
  MaxActs             \* bound: what the user does and the runs that end

ASSUME StoreAssumption == MaxRequests \in Nat \ {0} /\ MaxActs \in Nat /\ NoFilter \in DOMAIN Filters /\ {} \in Scopes

VARIABLES
  world,
  asked,          \* filter and instanceFilter
  levels,         \* the cache of the tree
  expanded,
  flatView, flatLevels,
  focus,          \* a path, or Top
  loading, loadingPaths,
  requests,       \* what is in flight, by slot
  orderly,        \* history: the last reading of the tree met no other request and no failure
  acts,           \* how much of MaxActs is used
  crawled         \* history: what the last crawl of that kind read, or NoCrawl

vars == <<world, asked, levels, expanded, flatView, flatLevels, focus, loading, loadingPaths, requests, orderly, acts, crawled>>

Slots == 1 .. MaxRequests
None == [kind |-> "none"]
NoCrawl == [start |-> "nowhere"]
Free(s) == requests[s] = None
NextFree(s) == Free(s) /\ \A t \in Slots : t < s => ~Free(t)
AtRest == \A s \in Slots : Free(s)
TreeRequest(r) == r.kind \in {"spine", "levels"}
Busy == loading \/ loadingPaths # {}

\* A request is answered from what there was on its way, before or after a run ended.
Answers(r) == {[world |-> w, filter |-> r.filter, scope |-> r.scope] : w \in {r.since, world}}
ContextsOf(r) == IF TreeRequest(r) THEN Answers(r.of) ELSE {}
Asking == [since |-> world', filter |-> asked'.filter, scope |-> asked'.scope]
Now == [world |-> world, filter |-> asked.filter, scope |-> asked.scope]

-------------------------------------------------------------------------------
(* The rows of the table.                                                  *)

\* The first page of each level, by what it is an answer to.
Contexts == [world : DOMAIN Worlds, filter : DOMAIN Filters, scope : Scopes]
Paths == UNION {Ancestors(p) \cup {p} : p \in UNION {DOMAIN w.disk \cup UNION {i.rootFolders \cup DOMAIN i.media : i \in Range(w.instances)} : w \in Range(Worlds)}}
FirstPage == [of \in Contexts, p \in Paths \cup {Top} |-> LevelOf(of, p, FALSE, 0, DefaultLimit)]

\* The rows of a level that the tree shows, and those that open.
Shown == [of \in Contexts, p \in Paths \cup {Top} |-> {n.path : n \in {m \in FirstPage[of, p].nodes : m.kind # "file"}}]
Opening == [of \in Contexts, p \in Paths \cup {Top} |-> {n.path : n \in {m \in FirstPage[of, p].nodes : m.expandable}}]
Openable(cache) == UNION {Opening[cache[p], p] : p \in DOMAIN cache}

\* The flat list has of a row what it decides on.
Rest(nodes) == {[path |-> n.path, kind |-> n.kind, expandable |-> n.expandable] : n \in nodes}
\* Mutant: with the summary that the tree gets.
PageOfProblems == [of \in Contexts, p \in Paths, offset \in 0 .. Cardinality(Paths) |->
          LET level == LevelOf(of, p, FALSE, offset, FlatLimit)
          IN  [nodes |-> Rest(level.nodes), truncated |-> level.truncated]]
Page == [of \in Contexts, p \in Paths, offset \in 0 .. Cardinality(Paths) |->
          LET level == LevelOf(of, p, TRUE, offset, FlatLimit)
          IN  [nodes |-> Rest(level.nodes), truncated |-> level.truncated]]
Folders(nodes) == {n.path : n \in {m \in nodes : m.kind = "directory"}}

\* flattenLevels, from a level on, through the levels that are open.
RowsBelow(start, open) ==
  LET reached[n \in Nat] ==
        IF n = 0 THEN {start} \cap DOMAIN levels
        ELSE LET before == reached[n - 1]
             IN  before \cup ((UNION {Shown[levels[p], p] : p \in before}) \cap open \cap DOMAIN levels)
  IN  UNION {Shown[levels[p], p] : p \in reached[Cardinality(DOMAIN levels)]}

\* isLeafFolder
IsLeafFolder(p) == p \notin DOMAIN flatLevels \/ Folders(flatLevels[p]) = {}

\* keepsLeaf
KeepsLeaf(filter, p) ==
  ~filter.active \/ filter.mode = "exclude" \/ MatchPathFilter(filter, p) = "full"

\* flattenLeaves
Leaves ==
  LET walked[n \in Nat] ==
        IF n = 0 THEN {focus} \cap DOMAIN flatLevels
        ELSE LET before == walked[n - 1]
             IN  before \cup {p \in UNION {Folders(flatLevels[q]) : q \in before} : ~IsLeafFolder(p)}
      folders == UNION {Folders(flatLevels[q]) : q \in walked[Cardinality(DOMAIN flatLevels)]}
  IN  {p \in folders : IsLeafFolder(p) /\ KeepsLeaf(Filters[asked.filter], p)}

Rows == IF flatView THEN Leaves ELSE RowsBelow(focus, expanded)

-------------------------------------------------------------------------------
(* Requests.                                                               *)

Put(s, r) == requests' = [requests EXCEPT ![s] = r]
Done(s) == Put(s, None)

\* load, and what follows it: nothing, or to open what was open.
AskSpine(s, then, open) ==
  /\ Put(s, [kind |-> "spine", of |-> Asking, then |-> then, open |-> open])
  /\ loading' = TRUE /\ UNCHANGED loadingPaths
  /\ orderly' = \A t \in Slots \ {s} : ~TreeRequest(requests[t])
  /\ UNCHANGED crawled

\* fetchLevels, with expandAll going on after it or not.
AskLevels(s, paths, again, others) ==
  /\ Put(s, [kind |-> "levels", of |-> Asking, paths |-> paths, again |-> again])
  /\ loadingPaths' = others \cup paths

\* expand, of what is open now.
Fetch(s, p) ==
  /\ UNCHANGED loading
  /\ IF p \in DOMAIN levels THEN UNCHANGED <<requests, loadingPaths>> ELSE AskLevels(s, {p}, FALSE, loadingPaths)

\* expandAll: opens what there is, and asks for what the cache does not have.
OpenAll(s, cache, others) ==
  LET unfetched == Openable(cache) \ DOMAIN cache
  IN  /\ expanded' = expanded \cup Openable(cache)
      /\ IF unfetched = {} THEN Done(s) /\ loadingPaths' = others ELSE AskLevels(s, unfetched, TRUE, others)

-------------------------------------------------------------------------------
(* The crawl of the flat list: loadFlatView with fetchFlatLevels.  Of a     *)
(* depth it asks for all the first pages at once, then for the other pages  *)
(* of each level on its own.                                                *)

PageFrom(p, offset) == [path |-> p, offset |-> offset, of |-> Asking]
Crawling(start, got, pages, read) == [kind |-> "crawl", start |-> start, got |-> got, pages |-> pages, read |-> read]
ToVisit(nodes) == {n.path : n \in {m \in nodes : m.kind = "directory" /\ m.expandable}}

\* One context only, or none to speak of.
CrawlRead(start, read) == IF Cardinality(read) = 1 THEN [start |-> start, of |-> CHOOSE c \in read : TRUE] ELSE NoCrawl

\* The rows are there, or the next depth is asked for.
CrawlOn(s, start, got, frontier, read) ==
  IF frontier = {}
  THEN /\ Done(s) /\ flatLevels' = got /\ crawled' = CrawlRead(start, read) /\ loading' = FALSE
  ELSE /\ Put(s, Crawling(start, got, {PageFrom(p, 0) : p \in frontier}, read))
       /\ loading' = TRUE /\ UNCHANGED <<flatLevels, crawled>>

\* The top level is the one the tree has.
StartCrawl(s, cache) ==
  LET top == IF Top \in DOMAIN cache THEN Rest(FirstPage[cache[Top], Top].nodes) ELSE {}
  IN  /\ IF focus = Top
         THEN CrawlOn(s, Top, (Top :> top), ToVisit(top), {})
         ELSE CrawlOn(s, focus, <<>>, {focus}, {})
      /\ UNCHANGED loadingPaths

Init ==
  /\ world = FirstWorld /\ asked = [filter |-> NoFilter, scope |-> {}]
  /\ levels = <<>> /\ expanded = {} /\ flatView = FALSE /\ flatLevels = <<>> /\ focus = Top
  /\ loading = TRUE /\ loadingPaths = {}
  /\ requests = [s \in Slots |->
       IF s = 1 THEN [kind |-> "spine", of |-> [since |-> world, filter |-> NoFilter, scope |-> {}],
                      then |-> "nothing", open |-> {}]
       ELSE None]
  /\ orderly = TRUE /\ crawled = NoCrawl /\ acts = 0

-------------------------------------------------------------------------------
(* The user, and the end of a run.                                         *)

Act == acts < MaxActs /\ acts' = acts + 1

Loaded == levels # <<>>

\* reload: keeps open what is open now.
Reload(s) == UNCHANGED <<levels, expanded, flatView, flatLevels, focus>> /\ AskSpine(s, "reopen", expanded)

\* setFilter and setFilterMode.
SetFilter(s, filter) ==
  /\ Act /\ NextFree(s)
  /\ asked' = [asked EXCEPT !.filter = filter] /\ UNCHANGED world
  /\ IF flatView
     THEN StartCrawl(s, levels) /\ orderly' = FALSE /\ UNCHANGED <<levels, expanded, flatView, focus>>
     ELSE Reload(s)

\* Mutant: the levels that are open are asked for again, not the spine.
SetInstanceFilterOpenOnly(s, scope) ==
  /\ Act /\ NextFree(s)
  /\ Loaded /\ scope # asked.scope
  /\ asked' = [asked EXCEPT !.scope = scope] /\ UNCHANGED world
  /\ IF expanded = {} THEN UNCHANGED <<requests, loadingPaths>> ELSE AskLevels(s, expanded, FALSE, loadingPaths)
  /\ UNCHANGED <<levels, expanded, flatView, flatLevels, focus, loading, orderly, crawled>>

\* setInstanceFilter
SetInstanceFilter(s, scope) ==
  /\ Act /\ NextFree(s)
  /\ Loaded /\ scope # asked.scope
  /\ asked' = [asked EXCEPT !.scope = scope] /\ UNCHANGED world
  /\ Reload(s)

\* A run ends: refreshAll.
RunEnds(s, w) ==
  /\ Act /\ NextFree(s)
  /\ Loaded /\ world' = w /\ w # world /\ UNCHANGED asked
  /\ Reload(s)

\* "Rescan": the button waits while something is loading.
Rescan(s) ==
  /\ Act /\ NextFree(s)
  /\ ~loading /\ UNCHANGED <<world, asked, levels, expanded, flatView, flatLevels, focus>>
  /\ AskSpine(s, "crawl", {})

\* toggle
Expand(s, p) ==
  /\ Act /\ NextFree(s)
  /\ ~flatView /\ p \in Openable(levels) \ (expanded \cup loadingPaths)
  /\ UNCHANGED <<world, asked, levels, flatView, flatLevels, focus, orderly, crawled>>
  /\ expanded' = expanded \cup {p} /\ Fetch(s, p)
Collapse(p) ==
  /\ Act
  /\ ~flatView /\ p \in expanded \ loadingPaths
  /\ expanded' = {q \in expanded : ~AtOrUnder(q, p)}
  /\ UNCHANGED <<world, asked, levels, flatView, flatLevels, focus, loading, loadingPaths, requests, orderly, crawled>>

ExpandAll(s) ==
  /\ Act /\ NextFree(s)
  /\ ~flatView /\ ~Busy
  /\ UNCHANGED <<world, asked, levels, flatView, flatLevels, focus, loading, orderly, crawled>>
  /\ OpenAll(s, levels, loadingPaths)
CollapseAll ==
  /\ Act
  /\ ~flatView /\ expanded # {} /\ expanded' = {}
  /\ UNCHANGED <<world, asked, levels, flatView, flatLevels, focus, loading, loadingPaths, requests, orderly, crawled>>

\* setFlatView: the button waits while the view is busy.
ShowFlat(s) ==
  /\ Act /\ NextFree(s)
  /\ ~flatView /\ ~Busy /\ flatView' = TRUE
  /\ UNCHANGED <<world, asked, levels, expanded, focus, orderly>>
  /\ StartCrawl(s, levels)
ShowTree ==
  /\ Act
  /\ flatView /\ ~Busy /\ flatView' = FALSE
  /\ UNCHANGED <<world, asked, levels, expanded, flatLevels, focus, loading, loadingPaths, requests, orderly, crawled>>

\* focusOn: a row that opens, or one of the crumbs above the focus.
CanFocusOn(p) ==
  \/ Under(focus, p) /\ Visible(p)
  \/ p \in Openable(levels)
  \/ \E q \in DOMAIN flatLevels : \E n \in flatLevels[q] : n.path = p /\ n.expandable
FocusOn(s, p) ==
  /\ Act /\ NextFree(s) /\ CanFocusOn(p)
  /\ UNCHANGED <<world, asked, levels, flatView, flatLevels, orderly, crawled>>
  /\ focus' = p /\ expanded' = expanded \cup {p} /\ Fetch(s, p)
ClearFocus ==
  /\ Act
  /\ focus # Top /\ focus' = Top
  /\ UNCHANGED <<world, asked, levels, expanded, flatView, flatLevels, loading, loadingPaths, requests, orderly, crawled>>

-------------------------------------------------------------------------------
(* Answers and failures.                                                   *)

\* What comes after a load, whether it failed or not.
AfterSpine(s, opened) ==
  LET r == requests[s]
      missing == r.open \ DOMAIN levels'
  IN  CASE r.then = "reopen" /\ missing # {} ->
             /\ AskLevels(s, missing, FALSE, loadingPaths) /\ expanded' = opened \cup missing /\ loading' = FALSE
             /\ UNCHANGED <<flatLevels, crawled>>
        [] r.then = "crawl" /\ flatView -> StartCrawl(s, levels') /\ expanded' = opened
        [] OTHER -> Done(s) /\ expanded' = opened /\ loading' = FALSE /\ UNCHANGED <<loadingPaths, flatLevels, crawled>>

ReceiveSpine(s, of) ==
  /\ requests[s].kind = "spine" /\ UNCHANGED acts
  /\ levels' = [p \in SpineLevels(of) |-> of]
  /\ UNCHANGED <<world, asked, flatView, focus, orderly>>
  /\ AfterSpine(s, Spine(of))

FailSpine(s) ==
  /\ requests[s].kind = "spine" /\ UNCHANGED acts
  /\ orderly' = FALSE
  /\ UNCHANGED <<world, asked, levels, flatView, focus>>
  /\ AfterSpine(s, expanded)

SettleLevels(s, cache) ==
  /\ levels' = cache
  /\ UNCHANGED <<world, asked, flatView, flatLevels, focus, loading, orderly, acts, crawled>>
  /\ LET others == loadingPaths \ requests[s].paths
     IN  IF requests[s].again THEN OpenAll(s, cache, others)
         ELSE Done(s) /\ loadingPaths' = others /\ UNCHANGED expanded

ReceiveLevels(s, of) ==
  /\ requests[s].kind = "levels" /\ Answerable(requests[s].paths)
  /\ SettleLevels(s, [p \in requests[s].paths \cup DOMAIN levels |-> IF p \in requests[s].paths THEN of ELSE levels[p]])
FailLevels(s) == requests[s].kind = "levels" /\ SettleLevels(s, levels)

\* The rows of a page join those of its level, and the rest of the level is asked for.
ReceivePages(s, pages, of) ==
  LET r == requests[s]
      level == [page \in pages |-> Page[of, page.path, page.offset]]
      got == [p \in {page.path : page \in pages} \cup DOMAIN r.got |->
                (IF p \in DOMAIN r.got THEN r.got[p] ELSE {})
                \cup UNION {level[page].nodes : page \in {q \in pages : q.path = p}}]
      more == {PageFrom(page.path, page.offset + Cardinality(level[page].nodes)) : page \in {q \in pages : level[q].truncated}}
      left == (r.pages \ pages) \cup more
      read == r.read \cup {of}
      frontier == (UNION {ToVisit(got[p]) : p \in DOMAIN got \ {Top}}) \ DOMAIN got
  IN  /\ Answerable({page.path : page \in pages})
      /\ UNCHANGED <<world, asked, levels, expanded, flatView, focus, loadingPaths, orderly, acts>>
      /\ IF left # {} THEN Put(s, Crawling(r.start, got, left, read)) /\ UNCHANGED <<flatLevels, crawled, loading>>
         ELSE CrawlOn(s, r.start, got, frontier, read)

\* The rows stay as they were.
FailCrawl(s) ==
  /\ requests[s].kind = "crawl" /\ UNCHANGED acts
  /\ Done(s) /\ loading' = FALSE
  /\ UNCHANGED <<world, asked, levels, expanded, flatView, flatLevels, focus, loadingPaths, orderly, crawled>>

\* The first pages of a depth are one request, every other page its own.
Batches(r) ==
  IF r.kind # "crawl" THEN {}
  ELSE IF \A page \in r.pages : page.offset = 0 THEN {r.pages} ELSE {{page} : page \in r.pages}

Next ==
  \/ \E s \in Slots :
       \/ \E filter \in DOMAIN Filters : SetFilter(s, filter)
       \/ \E scope \in Scopes : SetInstanceFilter(s, scope)
       \/ \E w \in DOMAIN Worlds : RunEnds(s, w)
       \/ Rescan(s)
       \/ \E p \in Rows : Expand(s, p)
       \/ \E p \in Rows \cup Ancestors(focus) : FocusOn(s, p)
       \/ ExpandAll(s)
       \/ ShowFlat(s)
  \/ \E p \in Rows : Collapse(p)
  \/ CollapseAll \/ ShowTree \/ ClearFocus
  \/ \E s \in Slots :
       \/ \E of \in ContextsOf(requests[s]) : ReceiveSpine(s, of)
       \/ \E of \in ContextsOf(requests[s]) : ReceiveLevels(s, of)
       \/ FailSpine(s)
       \/ FailLevels(s)
       \/ \E pages \in Batches(requests[s]) : \E of \in Answers((CHOOSE page \in pages : TRUE).of) : ReceivePages(s, pages, of)
       \/ FailCrawl(s)

Spec == Init /\ [][Next]_vars

-------------------------------------------------------------------------------
(* Properties.                                                             *)

\* When every answer is in, and the tree was last read alone and without a
\* failure, no level of it is left over from another filter, another selection
\* of instances or the time before a run (load, reload, fetchLevels).
AtRestTheTreeIsAsAsked ==
  AtRest /\ orderly => \A p \in DOMAIN levels : levels[p] = Now

\* A level of the tree that shows all that passes.
IsWhole(p) ==
  LET candidates == LevelCandidates(Now, p)
  IN  (Small(candidates) \/ Named(Filters[asked.filter])) /\ ~FirstPage[Now, p].truncated

\* "The user lands on their root folders" (load): then, and with every level
\* open, each root folder of the selected instances that passes the filter has
\* a row, if it is not inside another, its directory is on disk, and no level
\* above it was summarised or cut off.
TheTreeReachesTheRootFolders ==
  AtRest /\ orderly /\ Loaded =>
    \A r \in AllRootFolders(Now) :
      LET above == {q \in Ancestors(r) : Visible(q)}
      IN  /\ PassesPathFilter(Filters[asked.filter], r, FALSE)
          /\ \A q \in above : IsReadable(Now, q) /\ IsWhole(q) /\ ~IsRootFolder(Now, q)
          /\ IsWhole(Top)
          => /\ r \in RowsBelow(Top, DOMAIN levels)
             /\ \E p \in DOMAIN levels : \E n \in FirstPage[Now, p].nodes : n.path = r /\ n.owners # {}

\* What the flat list is to show below a folder: the folders without a folder
\* in them, as far as the filter shows the way.
Opens(c) == c.kind = "directory" /\ c.exists /\ c.inScope /\ ~c.isRootFolder
FoldersIn(p) == {c \in Matched(Now, p, LevelCandidates(Now, p), TRUE) : c.kind = "directory"}
WayFrom(start, p) ==
  \A n \in (Len(start) + 1) .. Len(p) :
    \E c \in FoldersIn(SubSeq(p, 1, n - 1)) : c.path = SubSeq(p, 1, n) /\ (n < Len(p) => Opens(c))
LeafBelow(start, c) ==
  /\ KeepsLeaf(Filters[asked.filter], c.path)
  /\ Opens(c) => FoldersIn(c.path) = {}
LeavesBelow(start) ==
  IF start # Top
  THEN {c.path : c \in {d \in UNION {FoldersIn(p) : p \in Paths} : Under(d.path, start) /\ WayFrom(start, d.path) /\ LeafBelow(start, d)}}
  ELSE {c.path : c \in {d \in FoldersIn(Top) : LeafBelow(Top, d)}}
       \cup {c.path : c \in {d \in UNION {FoldersIn(p) : p \in Paths} :
              LeafBelow(Top, d) /\ \E m \in FoldersIn(Top) : Opens(m) /\ Under(d.path, m.path) /\ WayFrom(m.path, d.path)}}

\* When every answer is in, and a crawl from the focus or above it read the
\* folders as they are now, the flat list has every leaf folder and no other,
\* also of levels that the tree summarises or cuts off (loadFlatView,
\* flattenLeaves).  It starts from the mounts the tree has.
TheFlatListIsWhole ==
  AtRest /\ flatView /\ crawled # NoCrawl /\ AtOrUnder(focus, crawled.start) =>
    \/ crawled.of # Now
    \/ crawled.start = Top /\ flatLevels[Top] # Rest(FirstPage[Now, Top].nodes)
    \/ Leaves = LeavesBelow(focus)
===============================================================================
