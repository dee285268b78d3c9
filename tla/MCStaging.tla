------------------------------- MODULE MCStaging -------------------------------
(***************************************************************************)
(* What is staged: either the chains of one dialog (StagedChains), or the  *)
(* drawer of one tab (StagingDrawer), the other one staying as it began.   *)
(***************************************************************************)
EXTENDS StagedChains

CONSTANTS
  Parts,          \* which of the two: subset of {"chains", "drawer"}
  Lossless,       \* no request of the drawer is lost, and nobody else is there
  MaxRows, MaxClicks     \* bounds

-------------------------------------------------------------------------------
(* A Radarr and a Sonarr that root at one folder, the first at a folder below  *)
(* it too, with media in the roots, deeper in them and outside all of them, a  *)
(* list and a collection; one medium more may arrive, or is there.             *)

MCOwner == [x \in {"m1", "m2", "late", "li", "co"} |-> "radarr"] @@ [x \in {"s1"} |-> "sonarr"]
A == <<"a">>
Nested == <<"a", "n">>
RadarrList == [id |-> "li", switch |-> TRUE, enabled |-> TRUE, automatic |-> TRUE]
Switchless == [RadarrList EXCEPT !.switch = FALSE]
Watched == [id |-> "co", monitored |-> TRUE, searchOnAdd |-> TRUE]
FirstWorld(radarr, sonarr, paths, list) ==
  [roots |-> [i \in {"radarr", "sonarr"} |-> IF i = "radarr" THEN radarr ELSE sonarr],
   path |-> paths, files |-> paths,
   list |-> [l \in {"li"} |-> [at |-> A, flags |-> list]],
   coll |-> [c \in {"co"} |-> [at |-> Nested, flags |-> Watched]],
   dirs |-> {A, Nested}]
Nowhere == [m \in {"m1", "m2", "s1", "late"} |-> <<>>]
MCWorlds ==
  {FirstWorld({A, Nested}, {}, [Nowhere EXCEPT !["m1"] = <<"a", "m1">>, !["m2"] = <<"a", "n", "m2">>, !["s1"] = <<"a", "s1">>], RadarrList),
   FirstWorld({A}, {A}, [Nowhere EXCEPT !["m1"] = <<"a", "m1">>, !["late"] = <<"a", "late">>, !["s1"] = <<"a", "n", "s1">>], RadarrList),
   FirstWorld({Nested}, {A}, Nowhere, Switchless)}
MCTo == <<"t">>

-------------------------------------------------------------------------------
(* Every operation that marks a cell is in one of the menus; the first one is  *)
(* a chain of the folder dialog.  Two requests of the list at a time, and two  *)
(* steps of others; one and none where nothing is lost.                        *)

VARIABLES
  part, status, runId, dependsOn, sortOrder, instance, lastItem, instances,
  menu, what, shown, wanted, answers, discard, others, clicks, missed

drawerVars ==
  <<status, runId, dependsOn, sortOrder, instance, lastItem, instances,
    menu, what, shown, wanted, answers, discard, others, clicks, missed>>
all == <<part, vars, drawerVars>>

Nameless == [media |-> {}, label |-> {}, tag |-> {}, path |-> {}, list |-> {}, collection |-> {}]
Op(op, inst, kind, names) == [op |-> op, inst |-> inst, names |-> (kind :> names) @@ Nameless]
OpOn(op, media, kind, names) == [op |-> op, inst |-> "r", names |-> (kind :> names) @@ ("media" :> media) @@ Nameless]
Chain ==
  <<Op("fs.mkdir", "disk", "path", {"/p"}), Op("rootFolder.create", "r", "path", {"/p"}),
    OpOn("media.moveRootFolder", {"m"}, "path", {"/p"})>>
MCMenus ==
  {Chain,
   <<Op("rootFolder.delete", "r", "path", {"/p"}), Op("fs.rename", "disk", "path", {"/p", "/q"}), Op("fs.delete", "disk", "path", {"/p"})>>,
   <<Op("tag.create", "r", "label", {"uhd"}), Op("tag.rename", "r", "label", {"uhd", "4k"}), Op("tag.delete", "r", "label", {"4k"})>>,
   <<OpOn("mediaTags.add", {"m", "n"}, "tag", {"#1"}), OpOn("media.delete", {"n"}, "tag", {}), OpOn("media.setMonitored", {"m"}, "tag", {})>>,
   <<OpOn("media.refresh", {"m", "n"}, "tag", {}), OpOn("mediaTags.set", {"n"}, "tag", {"#1"}), OpOn("media.setQualityProfile", {"n"}, "tag", {})>>,
   <<Op("importList.setEnabled", "r", "list", {"1"}), Op("importList.update", "r", "list", {"1"}), Op("importList.delete", "r", "list", {"1"})>>,
   <<Op("fs.move", "disk", "path", {"/p", "/q"}), OpOn("mediaTags.remove", {"m"}, "tag", {"#2"}), Op("collectionTags.add", "r", "collection", {"1"})>>}
MCCells ==
  [kind : {"media"}, inst : {"r"}, name : {"m", "n"}] \cup [kind : {"tag"}, inst : {"r"}, name : {"uhd", "4k"}]
  \cup [kind : {"rootFolder"}, inst : {"r"}, name : {"/p"}] \cup [kind : {"path"}, inst : {"disk"}, name : {"/p", "/q"}]
  \cup [kind : {"importList"}, inst : {"r"}, name : {"1", "2"}]

D == INSTANCE StagingDrawer WITH
  MaxItems <- MaxRows, MaxBatch <- 1, Instances <- {"r"}, Disk <- "disk",
  Menus <- IF Lossless THEN {Chain} ELSE MCMenus, Cells <- MCCells, Lossy <- ~Lossless,
  MaxOthers <- IF Lossless THEN 0 ELSE 2, MaxRequests <- IF Lossless THEN 1 ELSE 2

ASSUME DrawerConstants == D!DrawerAssumption

-------------------------------------------------------------------------------

StagingInit ==
  /\ part \in Parts /\ Init /\ D!Init
  /\ part = "chains" => menu = Chain
  /\ part = "drawer" => world.roots["radarr"] = {A, Nested} /\ idCache = [i \in Instances |-> Uncounted]
ChainStep == part = "chains" /\ Next /\ UNCHANGED <<part, drawerVars>>
DrawerStep == part = "drawer" /\ D!Next /\ UNCHANGED <<part, vars>>
StagingNext == ChainStep \/ DrawerStep
StagingSpec == StagingInit /\ [][StagingNext]_all

\* The badges of the views tell what is staged (StagingDrawer).
MarksTellWhatIsStaged == part = "drawer" => D!MarksTellWhatIsStaged

\* "Discard all" (StagingDrawer.vue:84), "Discarded N staged operation(s)"
\* (stores/queue.ts:1082): once a discard has ended, and no request or answer of it
\* was lost and no other button clicked, nothing it set out with waits to be applied.  (Violated: the removal of
\* a producer takes its dependents along, the request for the first dependent is
\* answered 404, and the loop throws: what comes after it stays staged, the list is
\* not read again and nothing is said.)
DiscardAllDiscards ==
  [][discard # D!Idle /\ discard' = D!Idle /\ discard.since = clicks => \A i \in discard.ids : status'[i] # "pending"]_all
===============================================================================
