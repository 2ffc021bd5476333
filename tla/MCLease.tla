------------------------------- MODULE MCLease -------------------------------
(***************************************************************************)
(* An instance of Lease in ticks of several seconds: the longest retry wait*)
(* is longer than a request, the pacing gap shorter.                       *)
(***************************************************************************)
EXTENDS Lease

MCIntervals == {0, 3}
=============================================================================
