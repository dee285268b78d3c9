------------------------------ MODULE PathMatrix ------------------------------
(***************************************************************************)
(* GET /fs/matrix: path-matrix.service.ts over the indexes that            *)
(* path-index.service.ts builds, a listing of each directory and the       *)
(* filter of path-filter.ts.  It keeps no state: a world in, levels out.   *)
(*                                                                         *)
(* A path is the sequence of its names.  Names are numbers, in the order   *)
(* of the list.  The matcher of a segment of a pattern is the set of names *)
(* it matches.  Indexes are as new as the disk (SnapshotCache has their    *)
(* cache), and no directory is asked for through a link.                   *)
(***************************************************************************)
EXTENDS Naturals, FiniteSets, SequencesExt

CONSTANTS
  Worlds,             \* by name: what is on disk, what cannot be read, what the instances say
  Configured,         \* the configured roots
  Mounts,             \* those of them that are there, and a directory
  Filters,            \* by name: what the filter bar applies
  FullLevelEntries,   \* FULL_LEVEL_ENTRIES
  DefaultLimit,       \* DEFAULT_LIMIT
  FlatLimit           \* the limit the flat list asks for

ASSUME MountsAssumption == Mounts \subseteq Configured
ASSUME LimitsAssumption == FullLevelEntries \in Nat /\ DefaultLimit \in Nat \ {0} /\ FlatLimit \in Nat \ {0}

\* isAtOrUnder, and the same strictly.
AtOrUnder(p, q) == IsPrefix(q, p)
Under(p, q) == IsStrictPrefix(q, p)

\* guard.rootFor finds a root.
Visible(p) == \E m \in Mounts : AtOrUnder(p, m)

-------------------------------------------------------------------------------
(* What one instance says: root folders, media (and whether they have      *)
(* files), the folders its import lists and its collections fill.          *)

RootFolders(i) == i.rootFolders
HoldsMedia(i, p) == \E m \in DOMAIN i.media : AtOrUnder(m, p)
ChildrenOf(i, p) == {c \in RootFolders(i) \cup DOMAIN i.media : c # <<>> /\ Front(c) = p}

\* A request's context: [world, filter, scope].
Disk(ctx) == Worlds[ctx.world].disk
Closed(ctx) == Worlds[ctx.world].closed
Fleet(ctx) == Worlds[ctx.world].instances

\* The instances that count: those of the selection, or all, that answered.
InScope(ctx) == {i \in DOMAIN Fleet(ctx) : ctx.scope = {} \/ i \in ctx.scope}
Answering(ctx) == {Fleet(ctx)[i] : i \in {j \in InScope(ctx) : Fleet(ctx)[j].reachable}}
AllRootFolders(ctx) == UNION {RootFolders(i) : i \in Answering(ctx)}
IsRootFolder(ctx, p) == p \in AllRootFolders(ctx)
Unseen(ctx) == {r \in AllRootFolders(ctx) : ~Visible(r)}

-------------------------------------------------------------------------------
(* The filter: [active, mode, terms], a term the matchers of a run of      *)
(* names.                                                                  *)

\* runAt: the first n matchers of a term, from a place in the path on.
RunAt(term, p, offset, n) == \A k \in 1 .. n : offset + k <= Len(p) /\ p[offset + k] \in term[k]

\* matchTerm
MatchTerm(term, p) ==
  LET width == Len(term)
  IN  IF \E offset \in 0 .. Len(p) : RunAt(term, p, offset, width) THEN "full"
      ELSE IF \E n \in 1 .. (width - 1) : n <= Len(p) /\ RunAt(term, p, Len(p) - n, n) THEN "partial"
      ELSE "none"

MatchPathFilter(filter, p) ==
  LET verdicts == {MatchTerm(term, p) : term \in filter.terms}
  IN  IF ~filter.active \/ "full" \in verdicts THEN "full"
      ELSE IF "partial" \in verdicts THEN "partial" ELSE "none"

\* Mutant: what is on the way to a match must be said by the pattern.
PassesByNameOnly(filter, p, navigable) ==
  LET verdict == MatchPathFilter(filter, p)
  IN  ~filter.active \/ (IF filter.mode = "exclude" THEN verdict # "full" ELSE verdict # "none")

\* passesPathFilter
PassesPathFilter(filter, p, navigable) ==
  LET verdict == MatchPathFilter(filter, p)
  IN  \/ ~filter.active
      \/ filter.mode = "exclude" /\ verdict # "full"
      \/ filter.mode = "include" /\ (verdict # "none" \/ navigable)

-------------------------------------------------------------------------------
(* Candidates: what a level knows of an entry before it looks at it.       *)

\* classify
Classify(ctx, p, kind, exists, inScope) ==
  [path |-> p, kind |-> kind, exists |-> exists, inScope |-> inScope,
   mediaUnder |-> \E i \in Answering(ctx) : HoldsMedia(i, p),
   isRootFolder |-> IsRootFolder(ctx, p),
   insideRootFolder |-> \E r \in AllRootFolders(ctx) : Under(p, r),
   containsRootFolder |-> \E r \in AllRootFolders(ctx) : Under(r, p)]

Entries(ctx, p) == {q \in DOMAIN Disk(ctx) : q # <<>> /\ Front(q) = p}
IsReadable(ctx, p) == p \in DOMAIN Disk(ctx) \ Closed(ctx) /\ Disk(ctx)[p] = "directory"

\* What instances believe to be in a directory: root folders, and media they hold files of.
Believed(ctx, p) ==
  UNION {{c \in ChildrenOf(i, p) : c \in DOMAIN i.media => i.media[c]} : i \in Answering(ctx)}

\* candidatesOf
CandidatesOf(ctx, p) ==
  {Classify(ctx, q, Disk(ctx)[q], TRUE, TRUE) : q \in Entries(ctx, p)}
  \cup {Classify(ctx, q, "directory", FALSE, TRUE) : q \in Believed(ctx, p) \ Entries(ctx, p)}

\* topLevel: the configured roots, broken or not, and the root folders that are not
\* below a mount.
Top == <<>>
TopCandidates(ctx) ==
  {Classify(ctx, m, "directory", TRUE, TRUE) : m \in Configured}
  \cup {Classify(ctx, r, "directory", FALSE, FALSE) : r \in Unseen(ctx)}

\* level: a root folder is a leaf, and what cannot be read has nothing.
LevelCandidates(ctx, p) ==
  IF p = Top THEN TopCandidates(ctx)
  ELSE IF IsRootFolder(ctx, p) \/ ~IsReadable(ctx, p) THEN {}
  ELSE CandidatesOf(ctx, p)

Loose(c) == ~c.mediaUnder /\ c.insideRootFolder /\ ~c.isRootFolder

\* matchesSelector, "problems"
IsProblem(c) == ~c.exists \/ c.kind = "symlink" \/ Loose(c)

\* inScopedTree
InScopedTree(c) == c.isRootFolder \/ c.insideRootFolder \/ c.containsRootFolder \/ c.mediaUnder

Navigable(p, c) == (p = Top /\ c.inScope) \/ c.containsRootFolder

-------------------------------------------------------------------------------
(* Rows: candidates with what is claimed of them and what a probe finds.   *)

\* ownersFor: by precedence.
UseOf(i, p) ==
  IF p \in RootFolders(i) THEN "rootFolder"
  ELSE IF p \in DOMAIN i.media THEN "tracked"
  ELSE IF \E r \in RootFolders(i) : Under(r, p) THEN "containsRoot"
  ELSE IF HoldsMedia(i, p) THEN "ancestor"
  ELSE IF p \in i.lists THEN "importList"
  ELSE IF p \in i.collections THEN "collection"
  ELSE "none"

Owners(ctx, p) ==
  {[instance |-> i, use |-> UseOf(Fleet(ctx)[i], p)] :
     i \in {j \in InScope(ctx) : Fleet(ctx)[j].reachable /\ UseOf(Fleet(ctx)[j], p) # "none"}}

ChildCount(ctx, c) ==
  IF c.kind = "directory" /\ ~c.isRootFolder /\ IsReadable(ctx, c.path)
  THEN {Cardinality(Entries(ctx, c.path))} ELSE {}

\* expandableOf
ExpandableOf(c, childCount) ==
  c.kind = "directory" /\ c.exists /\ c.inScope /\ ~c.isRootFolder /\ 0 \notin childCount

\* enrich; flags, severities and the totals are left out.
Enrich(ctx, c, probe) ==
  [path |-> c.path, kind |-> c.kind, owners |-> Owners(ctx, c.path),
   expandable |-> ExpandableOf(c, IF probe /\ c.exists /\ c.inScope THEN ChildCount(ctx, c) ELSE {})]

-------------------------------------------------------------------------------
(* Levels.                                                                 *)

Small(candidates) == Cardinality(candidates) <= FullLevelEntries
Named(filter) == filter.active /\ filter.mode = "include"

\* Directories first, then by name; of one name, the mount before the unseen.
Before(c, d) ==
  IF (c.kind = "directory") # (d.kind = "directory") THEN c.kind = "directory"
  ELSE Last(c.path) < Last(d.path) \/ (Last(c.path) = Last(d.path) /\ Len(c.path) < Len(d.path))
Position(c, set) == Cardinality({d \in set : Before(d, c)})

\* assemble: a level that is not small is cut down to its problems, unless all
\* of it was asked for, or some folders by name.
Matched(ctx, p, candidates, all) ==
  {c \in candidates :
     /\ PassesPathFilter(Filters[ctx.filter], c.path, Navigable(p, c))
     /\ ctx.scope # {} => InScopedTree(c)
     /\ all \/ Small(candidates) \/ Named(Filters[ctx.filter]) \/ IsProblem(c)}

Assemble(ctx, p, candidates, all, offset, limit) ==
  LET matched == Matched(ctx, p, candidates, all)
      page == {c \in matched : Position(c, matched) \in offset .. (offset + limit - 1)}
  IN  [nodes |-> {Enrich(ctx, c, Small(candidates)) : c \in page},
       truncated |-> Cardinality(matched) > offset + Cardinality(page)]

LevelOf(ctx, p, all, offset, limit) == Assemble(ctx, p, LevelCandidates(ctx, p), all, offset, limit)

\* spine: the mounts, and every directory between one and a root folder.
Ancestors(p) == {SubSeq(p, 1, n) : n \in 1 .. (Len(p) - 1)}
Spine(ctx) ==
  (Mounts \cup {q \in UNION {Ancestors(r) : r \in AllRootFolders(ctx)} : Visible(q)}) \ AllRootFolders(ctx)

\* matrix without paths: the top level and the spine.
SpineLevels(ctx) == {Top} \cup Spine(ctx)

\* matrix of paths: one that is below no mount, as a broken root, fails it for all.
Answerable(paths) == \A p \in paths : Visible(p)
===============================================================================
