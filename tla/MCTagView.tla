------------------------------- MODULE MCTagView -------------------------------
(***************************************************************************)
(* The tag matrix over a Radarr too old to report its collections and a    *)
(* Sonarr or newer Radarr: with a tag only a collection uses, with two     *)
(* labels that are replaced by one, and with a label that is replaced by   *)
(* one that is itself replaced.                                            *)
(***************************************************************************)
EXTENDS FleetMatrix, TLC
MCWorlds ==
  LET collected == ("uhd" :> {"collections"})
      \* Two labels for a new one - or, when others have given it, for one there is.
      cased == ("uhd" :> {"media"}) @@ ("Uhd" :> {"collections"})
      \* A label for one that is itself replaced.
      chain == ("uuhd" :> {"media"}) @@ ("uhd" :> {})
      fleet(a, b) == [i \in Instances |-> IF i = "r" THEN a ELSE b]
  IN  {fleet(collected, <<>>), fleet(chain, cased)}
MCDrifting == {<<"s", "hd">>}
\* Find "uhd", replace with "hd", in either case.
MCReplaced(l) == CASE l = "uuhd" -> "uhd" [] l \in {"uhd", "Uhd"} -> "hd" [] OTHER -> l
=============================================================================
