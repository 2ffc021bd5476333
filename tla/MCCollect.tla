------------------------------ MODULE MCCollect ------------------------------
(***************************************************************************)
(* An instance of Collect: one name an owner wildcard covers on both       *)
(* registries and GHCR's configuration also lists explicitly, one nested   *)
(* GHCR name under the same wildcard, and one name that is explicit on     *)
(* both registries.  Two of the three names fit under the detail cap, and  *)
(* the nested one ranks between the other two.                             *)
(***************************************************************************)
EXTENDS Collect

CONSTANTS plain, nested, listed  \* names: o/app, o/app/sub and p/tool
CONSTANTS o, p                   \* owners

MCActive == <<DockerHub, GHCR>>
MCNames == {plain, nested, listed}
MCOwnerOf == [n \in MCNames |-> IF n = listed THEN p ELSE o]
MCRank == [n \in MCNames |-> CASE n = plain -> 1 [] n = nested -> 2 [] n = listed -> 3]
MCNested == {nested}
MCExplicit == [s \in Registries |-> IF s = GHCR THEN {plain, listed} ELSE {listed}]
MCWildcard == [s \in Registries |-> {o}]
=============================================================================
