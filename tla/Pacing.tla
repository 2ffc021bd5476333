------------------------------- MODULE Pacing -------------------------------
(***************************************************************************)
(* The request pacing of src/internal/pacing/pacing.go: each RoundTrip     *)
(* claims a start time under a mutex, waits for it, and goes out, or gives *)
(* up while it waits.  A request of this module is one RoundTrip: a retry  *)
(* or a redirect hop is another one.                                       *)
(***************************************************************************)
EXTENDS Integers

CONSTANTS
    Requests,   \* the RoundTrips of one paced client
    Gaps,       \* what gap() may return, with its jitter
    MinGap,     \* the least of them
    MaxTime     \* the clock's bound

\* The zero time.Time: no such moment yet.
Never == -1

ASSUME PacingAssumption ==
    /\ Gaps \subseteq Nat /\ Gaps # {}
    /\ MinGap \in Nat /\ \A g \in Gaps : MinGap <= g
    /\ MaxTime \in Nat

VARIABLES
    now,        \* the monotonic clock
    pc,         \* [Requests -> where the RoundTrip is]
    locked,     \* transport.mu is held
    asked,      \* [Requests -> time], the clock as reserve read it
    slot,       \* [Requests -> time], the start time reserve claimed
    sentAt,     \* [Requests -> time], when the wrapped transport got it
    last,       \* transport.last
    cancelled   \* requests whose context has ended, a timeout included

vars == <<now, pc, locked, asked, slot, sentAt, last, cancelled>>

Points == {"new", "queued", "reserving", "waiting", "awake", "sent", "failed"}

NoTimes == [r \in Requests |-> Never]

Init ==
    /\ now = 0
    /\ pc = [r \in Requests |-> "new"]
    /\ locked = FALSE
    /\ asked = NoTimes /\ slot = NoTimes /\ sentAt = NoTimes
    /\ last = Never
    /\ cancelled = {}

Goto(r, from, to) == pc[r] = from /\ pc' = [pc EXCEPT ![r] = to]

\* RoundTrip is called.
Arrive(r) ==
    /\ Goto(r, "new", "queued")
    /\ UNCHANGED <<now, locked, asked, slot, sentAt, last, cancelled>>

\* Mutant: reserve takes no lock.
FreeUnlocked == TRUE

\* The mutex can be taken.
Free == ~locked

\* Mutant: the gap is added to the clock, not to the last claim.
DueFromNow(g) == IF last # Never THEN now + g ELSE now

\* The start time reserve computes: after the last claim's gap, and the first
\* at once.
Due(g) == IF last # Never /\ last + g > now THEN last + g ELSE now

\* reserve takes the mutex and reads the clock and the last claim.
Reserve(r) ==
    /\ Free
    /\ Goto(r, "queued", "reserving")
    /\ locked' = TRUE
    /\ asked' = [asked EXCEPT ![r] = now]
    /\ \E g \in Gaps : slot' = [slot EXCEPT ![r] = Due(g)]
    /\ UNCHANGED <<now, sentAt, last, cancelled>>

\* reserve writes the claim and releases the mutex.
Claim(r) ==
    /\ Goto(r, "reserving", "waiting")
    /\ last' = slot[r]
    /\ locked' = FALSE
    /\ UNCHANGED <<now, asked, slot, sentAt, cancelled>>

\* Mutant: the wait is over one tick early.
OverEarly(r) == now + 1 >= slot[r]

\* The claimed time has come.
Over(r) == now >= slot[r]

\* SleepCtx returns without an error.
Wake(r) ==
    /\ Over(r)
    /\ Goto(r, "waiting", "awake")
    /\ UNCHANGED <<now, locked, asked, slot, sentAt, last, cancelled>>

\* SleepCtx returns the context's error; the slot stays claimed.
GiveUp(r) ==
    /\ r \in cancelled
    /\ Goto(r, "waiting", "failed")
    /\ UNCHANGED <<now, locked, asked, slot, sentAt, last, cancelled>>

\* The wrapped transport gets the request, any time after the wait.
Send(r) ==
    /\ Goto(r, "awake", "sent")
    /\ sentAt' = [sentAt EXCEPT ![r] = now]
    /\ UNCHANGED <<now, locked, asked, slot, last, cancelled>>

Cancel(r) ==
    /\ r \notin cancelled
    /\ cancelled' = cancelled \union {r}
    /\ UNCHANGED <<now, pc, locked, asked, slot, sentAt, last>>

\* The clock moves whoever holds the mutex.
Tick ==
    /\ now < MaxTime
    /\ now' = now + 1
    /\ UNCHANGED <<pc, locked, asked, slot, sentAt, last, cancelled>>

Step(r) == \/ Arrive(r) \/ Reserve(r) \/ Claim(r) \/ Wake(r) \/ GiveUp(r) \/ Send(r)
           \/ Cancel(r)

Next == Tick \/ \E r \in Requests : Step(r)

Spec == Init /\ [][Next]_vars

-----------------------------------------------------------------------------
(* Properties.                                                             *)

Times == Nat \union {Never}

TypeOK ==
    /\ now \in Nat
    /\ pc \in [Requests -> Points]
    /\ locked \in BOOLEAN
    \* held by a request inside reserve, and by nobody else
    /\ locked <=> \E r \in Requests : pc[r] = "reserving"
    /\ asked \in [Requests -> Times]
    /\ slot \in [Requests -> Times]
    /\ sentAt \in [Requests -> Times]
    /\ last \in Times
    /\ cancelled \subseteq Requests

Claimed(r) == slot[r] # Never

\* However the requests race for the mutex, and however many of them give up,
\* any two claimed start times are a gap apart (pacing.go:46-58).
SlotsSpaced ==
    \A r, q \in Requests : r # q /\ Claimed(r) /\ Claimed(q) =>
        slot[r] + MinGap <= slot[q] \/ slot[q] + MinGap <= slot[r]

\* Nothing goes out inside the gap that follows an earlier claim, that of a
\* request that gave up included: the requests of one reader stay within the
\* registry's rate whatever is cancelled (pacing.go:11-17).  The gap counts
\* from the claimed time, which a late sender may overrun.
SentOutsideGaps ==
    \A r, q \in Requests : r # q /\ Claimed(r) /\ sentAt[q] # Never =>
        slot[r] + MinGap <= sentAt[q] \/ slot[q] + MinGap <= slot[r]

\* Pacing delays a request only for another claim: a claimed time is the moment
\* reserve reads the clock or exactly one gap after some other claim, so a reader
\* that asks slower than the pace is never held back.
NoNeedlessWait ==
    \A r \in Requests : Claimed(r) =>
        \/ slot[r] = asked[r]
        \/ \E q \in Requests \ {r} : Claimed(q) /\ slot[r] - slot[q] \in Gaps
=============================================================================
