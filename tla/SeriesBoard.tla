----------------------------- MODULE SeriesBoard -----------------------------
(***************************************************************************)
(* What a scrape may rely on (obs.SetImage's comment, obs.go:168-174): in  *)
(* the course of one publication every series moves at most once, straight *)
(* from the previous cycle's value to the new cycle's, where "no series"   *)
(* counts as a value; and no publication begins before the last one is     *)
(* shown in full.  So a series of both cycles never vanishes, no value of  *)
(* an older cycle comes back, and no series outlives its image.            *)
(***************************************************************************)
CONSTANTS Series, Values

VARIABLES
    shown,  \* [Series -> Values], what a scrape reads
    from,   \* [Series -> Values], the series before the publication under way
    to      \* [Series -> Values], the newest cycle's series

boardVars == <<shown, from, to>>

BoardInit == shown = to /\ from = to

Begin ==
    /\ shown = to
    /\ from' = to
    /\ to' \in [Series -> Values]
    /\ UNCHANGED shown

Move(s) ==
    /\ shown[s] = from[s]
    /\ shown' = [shown EXCEPT ![s] = to[s]]
    /\ UNCHANGED <<from, to>>

\* The publication is over: every series is shown at its new value.
End ==
    /\ shown = to
    /\ from' = to
    /\ UNCHANGED <<shown, to>>

BoardNext == Begin \/ End \/ \E s \in Series : Move(s)

BoardSpec == BoardInit /\ [][BoardNext]_boardVars
=============================================================================
