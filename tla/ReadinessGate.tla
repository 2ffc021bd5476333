---------------------------- MODULE ReadinessGate ----------------------------
(***************************************************************************)
(* What GET /api/health promises (docs/how-it-works.md, "Health and        *)
(* readiness"): a process starts unready; the gate opens when a check      *)
(* publishes data; once open it closes only because the process shuts down *)
(* or dies; and a gate that shutdown has shut never opens again.           *)
(***************************************************************************)
VARIABLES
    alive,  \* a process runs
    open,   \* GET /api/health answers 200
    shut    \* shutdown has closed the gate for good

gateVars == <<alive, open, shut>>

GateInit == ~alive /\ ~open /\ ~shut

Start ==
    /\ ~alive
    /\ alive'
    /\ UNCHANGED <<open, shut>>

Open ==
    /\ alive /\ ~shut /\ ~open
    /\ open'
    /\ UNCHANGED <<alive, shut>>

Shut ==
    /\ alive /\ ~shut
    /\ shut' /\ ~open'
    /\ UNCHANGED alive

\* The process ends, by its own exit or by a kill, and its memory with it.
Stop ==
    /\ alive
    /\ ~alive' /\ ~open' /\ ~shut'

GateNext == Start \/ Open \/ Shut \/ Stop

GateSpec == GateInit /\ [][GateNext]_gateVars
=============================================================================
