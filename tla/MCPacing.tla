------------------------------ MODULE MCPacing ------------------------------
(***************************************************************************)
(* An instance of Pacing: three interchangeable requests.                  *)
(***************************************************************************)
EXTENDS Pacing, TLC

CONSTANTS r1, r2, r3

MCRequests == {r1, r2, r3}
MCSymmetry == Permutations(MCRequests)
=============================================================================
