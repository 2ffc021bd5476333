-------------------------------- MODULE Lease --------------------------------
(***************************************************************************)
(* How old the health marker gets (src/main.go): every registry request    *)
(* refreshes its modification time, so does a publication, and the health  *)
(* subcommand calls the container unhealthy once the marker is older than  *)
(* the poll interval plus progressLease.  The clock moves while a request  *)
(* waits for its start time, while it is in flight, while a retry backs    *)
(* off and between two cycles; everything else takes no time.  Times are   *)
(* kept as ages, in ticks.                                                 *)
(***************************************************************************)
EXTENDS Integers

CONSTANTS
    Intervals,          \* the poll intervals in question, 0 for one-shot mode
    RequestTimeout,     \* requestTimeout, one attempt with its hops and waits
    RetryAfterCap,      \* httpx.RetryAfterCap
    BackoffCap,         \* httpx's longest backoff before the last attempt
    MaxGap,             \* the longest pacing gap, DefaultMinPacing + jitter
    Readers             \* how many sources a cycle reads, one after the other

ASSUME LeaseAssumption ==
    /\ Intervals \subseteq Nat
    /\ RequestTimeout \in Nat /\ RetryAfterCap \in Nat /\ BackoffCap \in Nat
    \* gaps of at most 5 s against a timeout of 30 s and a Retry-After of 60 s
    /\ MaxGap \in Nat \ {0} /\ 2 * MaxGap < RequestTimeout /\ 2 * MaxGap <= RetryAfterCap
    /\ Readers \in Nat \ {0}

VARIABLES
    interval,   \* cfg.PollInterval
    stage,      \* where the collector is
    reader,     \* the source whose requests it sends
    attempt,    \* time since the running attempt began
    wait,       \* what is left of a backoff
    pace,       \* [1..Readers -> Int], time since the source's last claimed start
    rested,     \* time since the last cycle ended
    ran,        \* a cycle has run
    touched,    \* the running cycle has sent a request
    present,    \* the marker exists
    age,        \* time since its last modification
    silence,    \* time since the last attempt to modify it
    missed,     \* the attempts that failed since then
    stuck       \* time since the collector hung, -1 while it does not

collector == <<interval, stage, reader, attempt, wait, pace, rested, ran, touched>>
marker == <<present, age, silence, missed>>
vars == <<collector, marker, stuck>>

Larger(a, b) == IF a < b THEN b ELSE a

\* Mutant: the wait before a retry is forgotten.
LongestGapUnretried == RequestTimeout + MaxGap

\* The longest silence between two requests of one cycle.
LongestGap == RequestTimeout + Larger(RetryAfterCap, Larger(BackoffCap, MaxGap))
ProgressLease == 2 * LongestGap

\* Mutant: the probe looks for the marker only.
ExpiredNever == FALSE

\* health.Lease with one cycle and one attempt; an interval of zero has no deadline.
Expired == interval > 0 /\ age > interval + ProgressLease

\* The health subcommand.
Healthy == present /\ ~Expired

Running == stuck = -1

Init ==
    /\ interval \in Intervals
    /\ stage = "rest" /\ reader = 1 /\ attempt = 0 /\ wait = 0
    /\ pace = [r \in 1..Readers |-> MaxGap]
    /\ rested = 0 /\ ran = FALSE /\ touched = FALSE
    /\ present = TRUE /\ age = 0 /\ silence = 0 /\ missed = 0 /\ stuck = -1

-----------------------------------------------------------------------------
(* The marker.                                                             *)

\* A bound on the failures in a row; what matters is one, or more than one.
MissBound == 2

\* marker.Set(true) on a marker that exists: a failed write leaves its age.
Touch ==
    /\ silence' = 0
    /\ \/ age' = 0 /\ missed' = 0
       \/ missed < MissBound /\ missed' = missed + 1 /\ UNCHANGED age

Untouched == UNCHANGED <<age, silence, missed>>

\* Mutant: a request leaves the marker alone.
ProgressNone == Untouched

\* refreshPresentMarker.
Progress == IF present THEN Touch ELSE Untouched

-----------------------------------------------------------------------------
(* The collector: cycles of requests, retries and redirect hops.           *)

\* The scheduler fires on start and then an interval after the last cycle.
BeginCycle ==
    /\ Running /\ stage = "rest" /\ (interval > 0 \/ ~ran)
    /\ stage' = "next" /\ reader' = 1 /\ touched' = FALSE /\ ran' = TRUE
    /\ UNCHANGED <<interval, attempt, wait, pace, rested, marker, stuck>>

\* reserve: the next start time of source r, a gap after its last.
Reserve(r) ==
    \E gap \in 1..MaxGap :
        pace' = [pace EXCEPT ![r] = IF @ >= gap THEN 0 ELSE @ - gap]

\* The reader, or the next one, begins an attempt of a request.
Request ==
    /\ Running /\ stage = "next"
    /\ stage' = "pacing" /\ attempt' = 0
    /\ reader' \in reader..Readers
    /\ Reserve(reader')
    /\ UNCHANGED <<interval, wait, rested, ran, touched, marker, stuck>>

\* The claimed start has come: progress, then the request goes out.
Send ==
    /\ Running /\ stage = "pacing" /\ pace[reader] >= 0
    /\ stage' = "inflight" /\ touched' = TRUE
    /\ Progress
    /\ UNCHANGED <<interval, reader, attempt, wait, pace, rested, ran, present, stuck>>

\* The answer is a redirect: another request of the same attempt.
Redirect ==
    /\ Running /\ stage = "inflight" /\ attempt < RequestTimeout
    /\ stage' = "pacing"
    /\ Reserve(reader)
    /\ UNCHANGED <<interval, reader, attempt, wait, rested, ran, touched, marker, stuck>>

\* The attempt is over, by an answer, an error or the timeout of the client,
\* and the request is not retried.
Settle ==
    /\ Running
    /\ stage = "inflight" \/ (stage = "pacing" /\ attempt = RequestTimeout)
    /\ stage' = "next"
    /\ UNCHANGED <<interval, reader, attempt, wait, pace, rested, ran, touched, marker, stuck>>

\* It is retried, after what the server asks for or a backoff of its own.
BackOff ==
    /\ Running
    /\ stage = "inflight" \/ (stage = "pacing" /\ attempt = RequestTimeout)
    /\ stage' = "backoff"
    /\ wait' \in 0..Larger(RetryAfterCap, BackoffCap)
    /\ UNCHANGED <<interval, reader, attempt, pace, rested, ran, touched, marker, stuck>>

Retry ==
    /\ Running /\ stage = "backoff" /\ wait = 0
    /\ stage' = "pacing" /\ attempt' = 0
    /\ Reserve(reader)
    /\ UNCHANGED <<interval, reader, wait, rested, ran, touched, marker, stuck>>

\* publish: a cycle with images creates or touches the marker, one without
\* removes it; images take at least a request.
Publish ==
    /\ Running /\ stage = "next"
    /\ stage' = "rest" /\ rested' = 0
    /\ \/ touched /\ present /\ Touch /\ UNCHANGED present
       \/ touched /\ ~present /\ present' = TRUE /\ age' = 0 /\ silence' = 0 /\ missed' = 0
       \/ present' = FALSE /\ Untouched
    /\ UNCHANGED <<interval, reader, attempt, wait, pace, ran, touched, stuck>>

\* The collector stops making progress for a reason no timeout covers.
Hang ==
    /\ Running
    /\ stuck' = 0
    /\ UNCHANGED <<collector, marker>>

-----------------------------------------------------------------------------
(* The clock.                                                              *)

\* Mutant: the client has no timeout.
MayPassUntimed ==
    \/ stage = "rest" /\ (IF interval > 0 THEN rested < interval ELSE ran)
    \/ stage = "pacing" /\ pace[reader] < 0
    \/ stage = "inflight"
    \/ stage = "backoff" /\ wait > 0

\* Nothing that is due is left waiting.
MayPass ==
    \/ stage = "rest" /\ (IF interval > 0 THEN rested < interval ELSE ran)
    \/ stage = "pacing" /\ attempt < RequestTimeout /\ pace[reader] < 0
    \/ stage = "inflight" /\ attempt < RequestTimeout
    \/ stage = "backoff" /\ wait > 0

\* Ages stop counting once they are past every deadline.
Older(t) == IF t > interval + ProgressLease THEN t ELSE t + 1

Tick ==
    /\ Running => MayPass
    /\ age' = Older(age) /\ silence' = Older(silence)
    /\ stuck' = IF Running THEN stuck ELSE Older(stuck)
    /\ IF Running
       THEN /\ attempt' = IF stage \in {"pacing", "inflight"} THEN attempt + 1 ELSE attempt
            /\ wait' = IF stage = "backoff" THEN wait - 1 ELSE wait
            /\ rested' = IF stage = "rest" /\ interval > 0 THEN rested + 1 ELSE rested
            /\ pace' = [r \in 1..Readers |-> IF pace[r] < MaxGap THEN pace[r] + 1 ELSE pace[r]]
       ELSE UNCHANGED <<attempt, wait, rested, pace>>
    /\ UNCHANGED <<interval, stage, reader, ran, touched, present, missed>>

Next == \/ BeginCycle \/ Request \/ Send \/ Redirect \/ Settle \/ BackOff \/ Retry
        \/ Publish \/ Hang \/ Tick

Spec == Init /\ [][Next]_vars

-----------------------------------------------------------------------------
(* Properties.                                                             *)

TypeOK ==
    /\ interval \in Intervals
    /\ stage \in {"rest", "next", "pacing", "inflight", "backoff"}
    /\ reader \in 1..Readers
    /\ attempt \in 0..RequestTimeout
    /\ wait \in 0..Larger(RetryAfterCap, BackoffCap)
    /\ pace \in [1..Readers -> -2 * MaxGap..MaxGap]
    /\ rested \in 0..interval
    /\ ran \in BOOLEAN /\ touched \in BOOLEAN /\ present \in BOOLEAN
    /\ age \in Nat /\ silence \in Nat
    /\ missed \in 0..MissBound /\ stuck \in Int /\ stuck >= -1

\* Between two requests of a cycle, retries, redirects and abandoned starts
\* included, never passes more than half of progressLease: "twice the longest
\* gap the retry and pacing rules allow" (docs/how-it-works.md:50).
SilenceBounded ==
    Running /\ present /\ touched /\ stage # "rest" => silence <= LongestGap

\* A collector that works is never reported unhealthy for its marker's age,
\* even if one refresh in a row could not be written: the lease holds across
\* the rest between two cycles too.
LiveIsFresh == Running /\ present /\ missed <= 1 => Healthy

\* In scheduled mode a collector that hangs is reported unhealthy once it has
\* been silent for the interval and the lease.
StuckIsNoticed == interval > 0 /\ stuck > interval + ProgressLease => ~Healthy
=============================================================================
