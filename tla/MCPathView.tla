------------------------------- MODULE MCPathView -------------------------------
(***************************************************************************)
(* The path view in one tab: either its store is looked at (PathsStore),   *)
(* or its selection and the dialogs it opens (Dialogs), or what is typed   *)
(* in its filter (PathPatterns), the others staying as they began.         *)
(***************************************************************************)
EXTENDS PathsStore, Dialogs

CONSTANTS i1, i2

-------------------------------------------------------------------------------
(* The store: a mount with three folders and a root that is broken, root folders in it and outside, a    *)
(* list and a medium where nobody has a root folder; a run makes a folder that *)
(* was missing and deletes another.                                            *)

data == <<1>>
MCMounts == {data}
MCConfigured == {data, <<9>>}
Index(rootFolders, media, lists) ==
  [reachable |-> TRUE, rootFolders |-> rootFolders, media |-> media, lists |-> lists, collections |-> {}]
Before1 ==
  [disk |-> [p \in {data, <<1, 1>>, <<1, 2>>, <<1, 3>>, <<1, 1, 7>>, <<1, 2, 1>>, <<1, 2, 2>>, <<1, 2, 3>>, <<1, 3, 5>>, <<1, 2, 2, 8>>} |->
              IF p = <<1, 3, 5>> THEN "file" ELSE "directory"],
   closed |-> {},
   instances |-> [i \in {i1, i2} |->
      IF i = i1 THEN Index({<<1, 1>>, <<2, 1>>}, (<<1, 1, 7>> :> TRUE), {<<1, 3>>})
      ELSE Index({<<1, 2, 1>>, <<1, 2, 4>>}, (<<1, 3, 6>> :> TRUE), {})]]
After1 ==
  [Before1 EXCEPT !.closed = {<<1, 2, 2>>}, !.disk = [p \in (DOMAIN Before1.disk \cup {<<1, 2, 4>>}) \ {<<1, 3>>, <<1, 3, 5>>} |-> "directory"]]
MCWorlds == [before |-> Before1, after |-> After1]
MCFilters ==
  [all |-> [active |-> FALSE, mode |-> "include", terms |-> {}],
   some |-> [active |-> TRUE, mode |-> "include", terms |-> {<<{2}, {1, 4}>>}],
   others |-> [active |-> TRUE, mode |-> "exclude", terms |-> {<<{2}>>}]]

-------------------------------------------------------------------------------
(* The dialogs: a mount m with a library a, a folder b in it and a folder c: a *)
(* root folder and a list claim a, a root folder b; later c is filled and b is *)
(* tracked.                                                                    *)

M == <<"m">>
A == <<"m", "a">>
B == <<"m", "a", "b">>
C == <<"m", "c">>
T == <<"m", "t">>
Elsewhere == <<"n", "t">>
RootedAt == [NoClaims EXCEPT !.rootFolders = {"r"}]
Listed == [RootedAt EXCEPT !.lists = {[id |-> "l", switch |-> TRUE, enabled |-> TRUE, automatic |-> TRUE]}]
Quiet == [dirs |-> {M, A, B, C}, files |-> {Append(B, "f")}, claims |-> A :> Listed @@ B :> RootedAt]
Filled == [dirs |-> {M, A, B, C}, files |-> {Append(C, "f")},
           claims |-> A :> Listed @@ B :> [RootedAt EXCEPT !.media = {"x"}]]

MCSituations == {Quiet, Filled}
MCFolderRows == {A, B, C}
MCSwitchable == {A, B}
MCTypedPaths == {T, C, Elsewhere}
MCDrafts == {<<>>, <<C, T>>, <<Append(T, "u"), T, C>>}

-------------------------------------------------------------------------------
(* The filter: six tokens, three where they are ranges, blanks, quotes or      *)
(* slashes; an expansion stops at two patterns.                                *)

VARIABLE source

Rare ==
  {[type |-> "range", from |-> 3, to |-> 1, step |-> 2], [type |-> "space"], [type |-> "quote"], [type |-> "escape"],
   [type |-> "slash"]}
Common == {[type |-> "text", value |-> 7], [type |-> "open"], [type |-> "comma"], [type |-> "close"]}

P == INSTANCE PathPatterns WITH Tokens <- Common \cup Rare, MaxPatterns <- 2, MaxTyped <- 6

ASSUME PatternConstants == P!PatternAssumption

-------------------------------------------------------------------------------

VARIABLE looked
all == <<looked, vars, dialogVars, source>>

ViewInit == looked \in {"store", "dialogs", "filter"} /\ Init /\ DialogInit /\ P!Init /\ (looked # "dialogs" => situation = Quiet)
StoreStep == looked = "store" /\ Next /\ UNCHANGED <<looked, dialogVars, source>>
DialogStep == looked = "dialogs" /\ DialogNext /\ UNCHANGED <<looked, vars, source>>
FilterStep == looked = "filter" /\ P!Next /\ UNCHANGED <<looked, vars, dialogVars>>
ViewNext == StoreStep \/ DialogStep \/ FilterStep
ViewSpec == ViewInit /\ [][ViewNext]_all

\* A source expands to what its braces spell (PathPatterns).
ExpansionFollowsTheGrammar == looked = "filter" => P!ExpansionFollowsTheGrammar

===============================================================================
