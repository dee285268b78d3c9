------------------------------ MODULE DeleteGuard ------------------------------
(***************************************************************************)
(* The *Arr side of a delete: what the fleet's databases still claim at a  *)
(* path, how the preflight grades each claim (fs/filesystem.service.ts),   *)
(* and the bridge by which the delete dialogs offer to clear the claims    *)
(* that a staged operation can clear (web lib/delete-bridge.ts).           *)
(*                                                                         *)
(* A claim is a record; only what a verdict depends on is kept of it.      *)
(***************************************************************************)
EXTENDS FiniteSets

CONSTANTS Ids      \* of instances, root folders, lists, collections, media

\* A list of an instance that has the switch "enabled" (Radarr) or none (Sonarr);
\* automatic: it adds to the folder unattended.
List == [id : Ids, switch : BOOLEAN, enabled : BOOLEAN, automatic : BOOLEAN]
Collection == [id : Ids, monitored : BOOLEAN, searchOnAdd : BOOLEAN]

\* What is at or under the path; complete: every enabled instance answered.
Claims == [rootFolders : SUBSET Ids, media : SUBSET Ids, lists : SUBSET List,
           collections : SUBSET Collection, complete : BOOLEAN]

Bridges == {"rootFolders", "importLists", "collections"}

\* A list without the switch is live by existing.
Enabled(list) == list.switch => list.enabled
Live(claims) == {list \in claims.lists : Enabled(list)}
Automatic(claims) == {list \in Live(claims) : list.automatic}
Aimed(claims) == {c \in claims.collections : c.monitored \/ c.searchOnAdd}
Monitored(claims) == {c \in claims.collections : c.monitored}

\* A claim in the way: waved through by a promise or by force.
Waive(force, resolved) == IF resolved \/ force THEN "warning" ELSE "blocker"

RootFolderCheck(claims, force, assume) ==
  IF claims.rootFolders = {} THEN "ok" ELSE Waive(force, "rootFolders" \in assume)

\* Nothing a dialog can stage rewrites the path of an item.
MediaCheck(claims, force) == IF claims.media = {} THEN "ok" ELSE Waive(force, FALSE)

ImportListCheck(claims, force, assume) ==
  IF "importLists" \in assume /\ Live(claims) # {} THEN "warning"
  ELSE IF Automatic(claims) # {} THEN Waive(force, FALSE)
  ELSE IF Live(claims) # {} THEN "warning" ELSE "ok"

CollectionCheck(claims, force, assume) ==
  IF "collections" \in assume /\ Aimed(claims) # {} THEN "warning"
  ELSE IF Monitored(claims) # {} THEN Waive(force, FALSE)
  ELSE IF Aimed(claims) # {} THEN "warning" ELSE "ok"

UnknownCheck(claims, force) == IF claims.complete THEN "ok" ELSE Waive(force, FALSE)

ReferenceChecks(claims, force, assume) ==
  {RootFolderCheck(claims, force, assume), MediaCheck(claims, force),
   ImportListCheck(claims, force, assume), CollectionCheck(claims, force, assume),
   UnknownCheck(claims, force)}

Passes(claims, force, assume) == "blocker" \notin ReferenceChecks(claims, force, assume)

-----------------------------------------------------------------------------
(* The bridge: what is staged in front of the delete for the boxes ticked. *)

NeedsForce(claims, force) == MediaCheck(claims, force) # "ok" \/ UnknownCheck(claims, force) # "ok"

UnassignTargets(claims) == claims.rootFolders
DisableListTargets(claims) == {list.id : list \in Live(claims)}
DisableCollectionTargets(claims) == {c.id : c \in Aimed(claims)}

\* importList.setEnabled writes the switches the list has, the automatic one among them.
SetEnabled(list) == [list EXCEPT !.enabled = IF list.switch THEN FALSE ELSE @, !.automatic = FALSE]
\* collection.update with all flags off.
Unmonitor(c) == [c EXCEPT !.monitored = FALSE, !.searchOnAdd = FALSE]

Bridged(claims, ticked) ==
  [claims EXCEPT
     !.rootFolders = IF "rootFolders" \in ticked THEN @ \ UnassignTargets(claims) ELSE @,
     !.lists = IF "importLists" \in ticked
               THEN {IF list.id \in DisableListTargets(claims) THEN SetEnabled(list) ELSE list : list \in @} ELSE @,
     !.collections = IF "collections" \in ticked
               THEN {IF c.id \in DisableCollectionTargets(claims) THEN Unmonitor(c) ELSE c : c \in @} ELSE @]

-----------------------------------------------------------------------------

\* "The verdict that will hold once it has" (shared/filesystem.ts:139): what
\* passes on the promise of a bridge passes without it once the bridge was run.
PromiseKept(claims, force, ticked) ==
  Passes(claims, force, ticked) => Passes(Bridged(claims, ticked), force, {})

\* What an unforced delete that passes still leaves of the fleet's claims: nothing
\* that is registered or tracked, nothing that refills the folder unattended.
Unclaimed(claims) ==
  /\ claims.rootFolders = {} /\ claims.media = {} /\ claims.complete
  /\ Automatic(claims) = {} /\ Monitored(claims) = {}

=============================================================================
