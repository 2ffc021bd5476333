------------------------------ MODULE MCGauges ------------------------------
(***************************************************************************)
(* An instance of Gauges: one image of each registry, two pull counts.     *)
(***************************************************************************)
EXTENDS Gauges

CONSTANTS hub, ghcr   \* one image key of each registry

MCKeys == {hub, ghcr}
MCHubKeys == {hub}
=============================================================================
