------------------------------ MODULE MCHandlers ------------------------------
(***************************************************************************)
(* What an item does of several calls or requests: either a disk operation *)
(* runs on the disks of the host (Filesystem), or a plan of tag operations *)
(* on an instance (TagHandlers), the other one staying as it began.        *)
(***************************************************************************)
EXTENDS TagHandlers, Filesystem, TLC

-------------------------------------------------------------------------------
(* A root /m with a folder, a file and a link that leads out of it, a root /n  *)
(* on another file system, and a folder /o outside; and the same with a mount  *)
(* point below the folder and a folder that may not be written.  One disk      *)
(* item, two writes of others, a measurement (the cfg).                        *)

Library ==
  << >> :> Dir("d1") @@ <<"m">> :> Dir("d1") @@ <<"m", "a">> :> Dir("d1") @@ <<"m", "a", "f">> :> File("d1")
  @@ <<"m", "l">> :> Node("link", "d1", TRUE, <<"o">>) @@ <<"o">> :> Dir("d1") @@ <<"o", "x">> :> File("d1")
  @@ <<"n">> :> Dir("d2")
Rough ==
  Library @@ <<"m", "a", "b">> :> Dir("d2") @@ <<"m", "a", "b", "g">> :> File("d2")
  @@ <<"m", "b">> :> Node("dir", "d1", FALSE, <<>>) @@ <<"m", "b", "b">> :> Dir("d1")

MCDisks == {Library, Rough}
MCConfigured == {<<"m">>, <<"n">>}
MCTargets ==
  {<<"m">>, <<"m", "a">>, <<"m", "b">>, <<"m", "a", "b">>, <<"m", "b", "b">>, <<"m", "b", "x", "a">>, <<"m", "l", "x">>,
   <<"n", "b">>, <<"o", "x">>}
MCMeasured == {<<"m", "a">>, <<"m", "l">>}
MCMutable ==
  {<<<<"m", "a", "f">>, File("d1")>>, <<<<"m", "b">>, Dir("d1")>>, <<<<"m", "b", "f">>, File("d1")>>,
   <<<<"m", "a">>, Dir("d1")>>}
MCStopAt == {<<"m", "a">>}

ASSUME DiskConstants == FilesystemBounds /\ FilesystemAssumption

-------------------------------------------------------------------------------
(* Three tags and room for one more, two films and two collections that carry  *)
(* one or two of them; every plan of the store, and the items of the tag page. *)

Labels == <<"uhd", "4k", "kids">>
Tagged == [f |-> {1, 2}, g |-> {1}, k |-> {1, 2}, l |-> {2, 3}]
Modes == {"add", "remove", "replace"}
MCPlans ==
  [button : {"apply"}, mode : Modes, ids : {{"f", "g"}}, tags : {{}, {3}}, missing : {<<>>, <<"new">>}]
  \cup [button : {"replace"},
        previews : {<<<<1, "4k">>, <<3, "new">>>>, <<<<1, "new">>, <<2, "kids">>>>, <<<<1, "kids">>, <<2, "kids">>>>}]
  \cup [button : {"merge"}, sources : {<<1, 2>>, <<1, 3>>}, target : {3}, deleteSources : BOOLEAN]
  \cup [button : {"delete"}, tag : {1}, detach : BOOLEAN]
  \cup [button : {"collections"}, mode : Modes, ids : {{"k", "l"}}, tags : {{3}}]

MCStarts == {[label |-> Labels, on |-> Tagged]}

ASSUME TagConstants == TagBounds /\ TagAssumption

-------------------------------------------------------------------------------

VARIABLE executed
all == <<executed, vars, diskVars>>

HandlersInit ==
  /\ executed \in {"disk", "tags"} /\ Init /\ DiskInit
  /\ (executed = "tags" => disk = Library)
  /\ (executed = "disk" => queue = <<DeleteTag(1, TRUE)>>)
DiskStep == executed = "disk" /\ DiskNext /\ UNCHANGED <<executed, vars>>
TagStep == executed = "tags" /\ Next /\ UNCHANGED <<executed, diskVars>>
HandlersNext == DiskStep \/ TagStep
HandlersSpec == HandlersInit /\ [][HandlersNext]_all

\* What a bulk edit of tags is staged for is what its items do, and find and replace
\* does what its preview shows (TagHandlers).
TagsAreAsShown == executed = "tags" => TagsAreAsStaged /\ ReplacedAsPreviewed

\* A walk lists all it should, or says that it was cut (Filesystem).  It reads nothing but
\* the disk, and each disk is met with nothing else under way.
Quiet == executed = "disk" /\ ~Running /\ ~walk.active /\ measurements = <<>>
WalksAreHonest == Quiet => WalkIsHonest
===============================================================================
