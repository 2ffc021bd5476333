----------------------------- MODULE LeaseProofs -----------------------------
(***************************************************************************)
(* The health marker's lease holds for every interval, timeout, retry wait *)
(* and pacing gap within LeaseAssumption: the inductive invariant of Lease *)
(* and its properties.                                                     *)
(***************************************************************************)
EXTENDS Lease, TLAPS

\* A claimed start lies at most one gap ahead, and up to two while a request
\* waits behind a claim that was given up.
PaceBounded ==
    \A r \in 1..Readers : pace[r] >= -MaxGap \/ (stage = "pacing" /\ r = reader)

\* The running cycle has attempted a refresh.
InCycle == touched /\ stage # "rest"

\* What a waiting request may still have to wait, in three cases: an attempt
\* just begun reaches its start before its timeout; a redirect hop may not, but
\* its attempt has sent a request; either way the silence until then is bounded.
PacingBounded ==
    stage = "pacing" =>
        /\ pace[reader] <= 0
        /\ \/ attempt - pace[reader] <= 2 * MaxGap
           \/ /\ touched /\ pace[reader] >= -MaxGap
              /\ present => silence <= attempt
        /\ present /\ touched => silence - pace[reader] <= LongestGap

\* The silence in the other stages of a cycle.
InflightBounded ==
    stage = "inflight" => touched /\ pace[reader] >= 0 /\ (present => silence <= attempt)

NextBounded == stage = "next" /\ present /\ touched => silence <= RequestTimeout

BackoffBounded ==
    stage = "backoff" =>
        /\ touched
        /\ present => /\ silence + wait <= RequestTimeout + Larger(RetryAfterCap, BackoffCap)
                      /\ pace[reader] < MaxGap => silence - pace[reader] <= RequestTimeout + MaxGap

\* The silence from the end of a cycle to the first request of the next.
RestBounded ==
    present /\ interval > 0 =>
        /\ stage = "rest" => silence <= rested
        /\ stage = "next" /\ ~touched => silence <= interval
        /\ stage = "pacing" /\ ~touched => silence - pace[reader] <= interval + 2 * MaxGap

\* The marker is as old as the silence, or a missed refresh older.
AgeBounded ==
    present /\ interval > 0 =>
        /\ missed = 0 => age <= silence
        /\ missed = 1 => age <= silence + (IF InCycle THEN interval + LongestGap ELSE RequestTimeout)

Timely ==
    PaceBounded /\ PacingBounded /\ InflightBounded /\ NextBounded /\ BackoffBounded
    /\ RestBounded /\ AgeBounded

\* A marker no one refreshes is at least as old as the hang.
StuckAges == stuck <= age

IInv == TypeOK /\ (Running => Timely) /\ StuckAges

\* The type invariant in the parts the provers can take one at a time.
Flags ==
    /\ stage \in {"rest", "next", "pacing", "inflight", "backoff"}
    /\ ran \in BOOLEAN /\ touched \in BOOLEAN /\ present \in BOOLEAN

Numbers ==
    /\ interval \in Intervals /\ interval \in Nat
    /\ reader \in 1..Readers
    /\ attempt \in 0..RequestTimeout
    /\ wait \in 0..Larger(RetryAfterCap, BackoffCap)
    /\ rested \in 0..interval
    /\ age \in Nat /\ silence \in Nat
    /\ missed \in 0..MissBound /\ stuck \in Int /\ stuck >= -1

Paces == pace \in [1..Readers -> -2 * MaxGap..MaxGap]

-----------------------------------------------------------------------------
\* The longest retry wait, and how the two bounds relate.
W == Larger(RetryAfterCap, BackoffCap)

LEMMA GapFacts ==
    /\ W \in Nat /\ LongestGap \in Nat /\ ProgressLease \in Nat
    /\ 2 * MaxGap <= W
    /\ RequestTimeout + W <= LongestGap
    /\ RequestTimeout + 2 * MaxGap <= LongestGap
    /\ ProgressLease = LongestGap + LongestGap
  BY LeaseAssumption, SMT DEF W, LongestGap, ProgressLease, Larger

LEMMA TypeParts == TypeOK <=> Flags /\ Numbers /\ Paces
<1>1. interval \in Intervals => interval \in Nat
  BY LeaseAssumption
<1>2. QED
  BY <1>1 DEF TypeOK, Flags, Numbers, Paces

LEMMA TypePartsNext == TypeOK' <=> Flags' /\ Numbers' /\ Paces'
<1>1. interval' \in Intervals => interval' \in Nat
  BY LeaseAssumption
<1>2. QED
  BY <1>1 DEF TypeOK, Flags, Numbers, Paces

LEMMA InitIInv == Init => IInv
<1> SUFFICES ASSUME Init PROVE IInv
  OBVIOUS
<1>1. TypeOK
  <2>1. pace \in [1..Readers -> -2 * MaxGap..MaxGap]
    <3>1. MaxGap \in -2 * MaxGap..MaxGap
      BY LeaseAssumption, SMT
    <3>2. QED
      BY <3>1 DEF Init
  <2>2. interval \in Intervals /\ ran \in BOOLEAN /\ touched \in BOOLEAN /\ present \in BOOLEAN
    BY DEF Init
  <2>3. interval \in Nat
    BY <2>2, LeaseAssumption
  <2>4. /\ attempt \in 0..RequestTimeout /\ wait \in 0..W /\ rested \in 0..interval
        /\ age \in Nat /\ silence \in Nat /\ missed \in 0..MissBound /\ stuck \in Int /\ stuck >= -1
        /\ reader \in 1..Readers
    BY <2>3, GapFacts, LeaseAssumption, SMT DEF Init, MissBound
  <2>5. stage \in {"rest", "next", "pacing", "inflight", "backoff"}
    BY DEF Init
  <2>6. QED
    BY <2>1, <2>2, <2>4, <2>5 DEF TypeOK, W
<1>2. Timely
  BY LeaseAssumption, GapFacts, SMT
     DEF Init, Timely, PaceBounded, PacingBounded, InflightBounded, NextBounded,
         BackoffBounded, RestBounded, AgeBounded, InCycle
<1>3. StuckAges
  BY SMT DEF Init, StuckAges
<1>4. QED
  BY <1>1, <1>2, <1>3 DEF IInv

LEMMA Scalars ==
    ASSUME TypeOK
    PROVE  /\ interval \in Nat /\ attempt \in Nat /\ wait \in Nat /\ silence \in Nat /\ age \in Nat
           /\ rested \in Nat /\ missed \in Nat /\ reader \in 1..Readers
           /\ \A r \in 1..Readers : pace[r] \in Int
<1>1. Numbers /\ Paces
  BY TypeParts
<1>2. interval \in Nat /\ attempt \in Nat /\ wait \in Nat /\ silence \in Nat /\ age \in Nat
      /\ rested \in Nat /\ missed \in Nat /\ reader \in 1..Readers
  BY <1>1, GapFacts, LeaseAssumption, SMT DEF Numbers, MissBound
<1>3. -2 * MaxGap..MaxGap \subseteq Int
  BY LeaseAssumption, SMT
<1>4. \A r \in 1..Readers : pace[r] \in Int
  BY <1>1, <1>3 DEF Paces
<1>5. QED
  BY <1>2, <1>4

\* A claim moves a source's pace to zero or at most a gap back.
LEMMA Claimed ==
    ASSUME TypeOK, NEW r \in 1..Readers, Reserve(r), pace[r] >= -MaxGap
    PROVE  /\ Paces'
           /\ \A q \in 1..Readers : q # r => pace'[q] = pace[q]
           /\ pace'[r] \in Int /\ pace'[r] <= 0
           /\ pace'[r] >= pace[r] - MaxGap \/ pace'[r] = 0
           /\ pace'[r] # 0 => pace[r] < MaxGap
           /\ pace'[r] >= -2 * MaxGap
<1>1. PICK gap \in 1..MaxGap :
        pace' = [pace EXCEPT ![r] = IF @ >= gap THEN 0 ELSE @ - gap]
  BY DEF Reserve
<1>2. pace \in [1..Readers -> -2 * MaxGap..MaxGap] /\ pace[r] \in -2 * MaxGap..MaxGap
  BY DEF TypeOK
<1>3. pace'[r] = IF pace[r] >= gap THEN 0 ELSE pace[r] - gap
  BY <1>1, <1>2
<1>4. gap \in 1..MaxGap /\ MaxGap \in Nat
  BY LeaseAssumption
<1>5. /\ pace'[r] \in Int /\ pace'[r] <= 0
      /\ pace'[r] >= pace[r] - MaxGap \/ pace'[r] = 0
      /\ pace'[r] # 0 => pace[r] < MaxGap
      /\ pace'[r] >= -2 * MaxGap
  BY <1>2, <1>3, <1>4, SMT
<1>6. \A q \in 1..Readers : q # r => pace'[q] = pace[q]
  BY <1>1, <1>2
<1>7. Paces'
  <2>1. (IF pace[r] >= gap THEN 0 ELSE pace[r] - gap) \in -2 * MaxGap..MaxGap
    BY <1>2, <1>4, SMT
  <2>2. QED
    BY <1>1, <1>2, <2>1 DEF Paces
<1>8. QED
  BY <1>5, <1>6, <1>7

\* An age capped past every deadline still grows by at most one, and keeps its
\* order with the others.
LEMMA OlderFacts ==
    ASSUME interval \in Nat, NEW s \in Nat, NEW t \in Nat
    PROVE  /\ Older(s) \in Nat /\ Older(s) <= s + 1
           /\ \A k \in Nat : t <= s + k => Older(t) <= Older(s) + k
  BY GapFacts, SMT DEF Older

-----------------------------------------------------------------------------
(* One lemma per action.                                                   *)

LEMMA BeginCycleKeeps ==
    ASSUME IInv, BeginCycle PROVE IInv'
<1> USE DEF IInv, BeginCycle, collector, marker
<1>1. Flags'
  BY TypeParts DEF Flags
<1>2. Numbers'
  BY TypeParts, LeaseAssumption, SMT DEF Numbers
<1>3. Paces'
  BY TypeParts DEF Paces
<1>4. StuckAges'
  BY SMT DEF StuckAges
<1>5. Timely'
  <2> USE LeaseAssumption, GapFacts DEF Timely
  <2>0. /\ interval \in Nat /\ attempt \in Nat /\ wait \in Nat /\ silence \in Nat /\ age \in Nat
        /\ rested \in Nat /\ missed \in Nat /\ pace[reader] \in Int
    BY Scalars DEF TypeOK
  <2>1. PaceBounded'
    BY DEF PaceBounded
  <2>2. PacingBounded'
    BY DEF PacingBounded
  <2>3. InflightBounded'
    BY DEF InflightBounded
  <2>4. NextBounded'
    BY DEF NextBounded
  <2>5. BackoffBounded'
    BY DEF BackoffBounded
  <2>6. RestBounded'
    <3>1. rested <= interval
      BY <2>0, TypeParts, SMT DEF Numbers
    <3>2. present /\ interval > 0 => silence <= interval
      <4>1. present /\ interval > 0 => silence <= rested
        BY DEF RestBounded
      <4>2. silence <= rested => silence <= interval
        BY <2>0, <3>1, SMT
      <4>3. QED
        BY <4>1, <4>2
    <3>3. QED
      BY <3>2 DEF RestBounded
  <2>7. AgeBounded'
    BY <2>0, SMT DEF AgeBounded, InCycle
  <2>8. QED
    BY <2>1, <2>2, <2>3, <2>4, <2>5, <2>6, <2>7
<1>6. QED
  BY <1>1, <1>2, <1>3, <1>4, <1>5, TypePartsNext

LEMMA RequestKeeps ==
    ASSUME IInv, Request PROVE IInv'
<1> USE DEF IInv, Request, Running, collector, marker
<1> PICK next \in 1..Readers : reader' = next
  BY LeaseAssumption, SMT DEF TypeOK
<1>0. /\ Paces'
      /\ \A q \in 1..Readers : q # next => pace'[q] = pace[q]
      /\ pace'[next] \in Int /\ pace'[next] <= 0
      /\ pace'[next] >= pace[next] - MaxGap \/ pace'[next] = 0
      /\ pace'[next] # 0 => pace[next] < MaxGap
      /\ pace'[next] >= -2 * MaxGap
  <2>1. pace[next] >= -MaxGap
    BY LeaseAssumption, SMT DEF TypeOK, Timely, PaceBounded, InflightBounded
  <2>2. QED
    BY <2>1, Claimed DEF TypeOK
<1>1. Flags'
  BY TypeParts DEF Flags
<1>2. Numbers'
  BY TypeParts, LeaseAssumption, SMT DEF Numbers
<1>3. Paces'
  BY <1>0
<1>4. StuckAges'
  BY TypeParts, SMT DEF StuckAges, Numbers
<1>5. Timely'
  <2> USE LeaseAssumption, GapFacts, <1>0 DEF Timely
  <2>0. /\ interval \in Nat /\ attempt \in Nat /\ wait \in Nat /\ silence \in Nat /\ age \in Nat
        /\ rested \in Nat /\ missed \in Nat /\ pace[next] \in Int
    BY Scalars DEF TypeOK
  <2>1. PaceBounded'
    BY DEF PaceBounded
  <2>2. PacingBounded'
    BY <2>0, SMT DEF PacingBounded, NextBounded
  <2>3. InflightBounded'
    BY DEF InflightBounded
  <2>4. NextBounded'
    BY DEF NextBounded
  <2>5. BackoffBounded'
    BY DEF BackoffBounded
  <2>6. RestBounded'
    BY <2>0, SMT DEF RestBounded
  <2>7. AgeBounded'
    BY <2>0, SMT DEF AgeBounded, InCycle
  <2>8. QED
    BY <2>1, <2>2, <2>3, <2>4, <2>5, <2>6, <2>7
<1>6. QED
  BY <1>1, <1>2, <1>3, <1>4, <1>5, TypePartsNext

LEMMA SendKeeps ==
    ASSUME IInv, Send PROVE IInv'
<1> USE DEF IInv, Send, Running, collector, marker, Progress, Touch, Untouched
<1>1. Flags'
  BY TypeParts DEF Flags
<1>2. Numbers'
  BY TypeParts, SMT DEF Numbers, MissBound
<1>3. Paces'
  BY TypeParts DEF Paces
<1>4. StuckAges'
  BY TypeParts, SMT DEF StuckAges, Numbers
<1>5. Timely'
  <2> USE LeaseAssumption, GapFacts DEF Timely
  <2>0. /\ interval \in Nat /\ attempt \in Nat /\ wait \in Nat /\ silence \in Nat /\ age \in Nat
        /\ rested \in Nat /\ missed \in Nat /\ pace[reader] \in Int
    BY Scalars DEF TypeOK
  <2>1. PaceBounded'
    BY <2>0, SMT DEF PaceBounded
  <2>2. PacingBounded'
    BY DEF PacingBounded
  <2>3. InflightBounded'
    BY <2>0, SMT DEF InflightBounded
  <2>4. NextBounded'
    BY DEF NextBounded
  <2>5. BackoffBounded'
    BY DEF BackoffBounded
  <2>6. RestBounded'
    BY DEF RestBounded
  <2>7. AgeBounded'
    BY <2>0, SMT DEF AgeBounded, PacingBounded, RestBounded, InCycle
  <2>8. QED
    BY <2>1, <2>2, <2>3, <2>4, <2>5, <2>6, <2>7
<1>6. QED
  BY <1>1, <1>2, <1>3, <1>4, <1>5, TypePartsNext

LEMMA RedirectKeeps ==
    ASSUME IInv, Redirect PROVE IInv'
<1> USE DEF IInv, Redirect, Running, collector, marker
<1>0. /\ Paces'
      /\ \A q \in 1..Readers : q # reader => pace'[q] = pace[q]
      /\ pace'[reader] \in Int /\ pace'[reader] <= 0
      /\ pace'[reader] >= pace[reader] - MaxGap \/ pace'[reader] = 0
      /\ pace'[reader] # 0 => pace[reader] < MaxGap
      /\ pace'[reader] >= -2 * MaxGap
  <2>1. pace[reader] >= -MaxGap
    BY LeaseAssumption, SMT DEF TypeOK, Timely, PaceBounded, InflightBounded
  <2>2. QED
    BY <2>1, Claimed DEF TypeOK
<1>1. Flags'
  BY TypeParts DEF Flags
<1>2. Numbers'
  BY TypeParts, LeaseAssumption, SMT DEF Numbers
<1>3. Paces'
  BY <1>0
<1>4. StuckAges'
  BY TypeParts, SMT DEF StuckAges, Numbers
<1>5. Timely'
  <2> USE LeaseAssumption, GapFacts, <1>0 DEF Timely
  <2>0. /\ interval \in Nat /\ attempt \in Nat /\ wait \in Nat /\ silence \in Nat /\ age \in Nat
        /\ rested \in Nat /\ missed \in Nat /\ pace[reader] \in Int
    BY Scalars DEF TypeOK
  <2>1. PaceBounded'
    BY DEF PaceBounded
  <2>2. PacingBounded'
    BY <2>0, SMT DEF PacingBounded, InflightBounded
  <2>3. InflightBounded'
    BY DEF InflightBounded
  <2>4. NextBounded'
    BY DEF NextBounded
  <2>5. BackoffBounded'
    BY DEF BackoffBounded
  <2>6. RestBounded'
    BY <2>0, SMT DEF RestBounded, InflightBounded
  <2>7. AgeBounded'
    BY <2>0, SMT DEF AgeBounded, InCycle
  <2>8. QED
    BY <2>1, <2>2, <2>3, <2>4, <2>5, <2>6, <2>7
<1>6. QED
  BY <1>1, <1>2, <1>3, <1>4, <1>5, TypePartsNext

\* An attempt that ends has sent a request: one that runs into its timeout while
\* it waits for a start cannot be at its first.
LEMMA AttemptOver ==
    ASSUME IInv, Running, stage = "inflight" \/ (stage = "pacing" /\ attempt = RequestTimeout)
    PROVE  touched /\ pace[reader] >= -MaxGap /\ (present => silence <= RequestTimeout)
<1>1. Timely /\ Numbers
  BY TypeParts DEF IInv
<1>2. attempt \in Nat /\ silence \in Nat /\ pace[reader] \in Int
  BY Scalars DEF IInv
<1>3. attempt <= RequestTimeout
  BY <1>1, <1>2, LeaseAssumption, SMT DEF Numbers
<1>4. touched /\ pace[reader] >= -MaxGap /\ (present => silence <= attempt)
  <2>1. CASE stage = "inflight"
    <3>1. touched /\ pace[reader] >= 0 /\ (present => silence <= attempt)
      BY <1>1, <2>1 DEF Timely, InflightBounded
    <3>2. pace[reader] >= -MaxGap
      BY <3>1, <1>2, LeaseAssumption, SMT
    <3>3. QED
      BY <3>1, <3>2
  <2>2. CASE stage = "pacing" /\ attempt = RequestTimeout
    <3>1. PacingBounded /\ stage = "pacing"
      BY <1>1, <2>2 DEF Timely
    <3>2. ~(pace[reader] <= 0 /\ attempt - pace[reader] <= 2 * MaxGap)
      BY <2>2, <1>2, LeaseAssumption, SMT
    <3>3. QED
      BY <3>1, <3>2 DEF PacingBounded
  <2>3. QED
    BY <2>1, <2>2
<1>5. ASSUME present PROVE silence <= RequestTimeout
  <2>1. silence <= attempt
    BY <1>4, <1>5
  <2>2. QED
    BY <1>2, <1>3, <2>1, LeaseAssumption, SMT
<1>6. QED
  BY <1>4, <1>5

LEMMA SettleKeeps ==
    ASSUME IInv, Settle PROVE IInv'
<1> USE DEF IInv, Settle, Running, collector, marker
<1>1. Flags'
  BY TypeParts DEF Flags
<1>2. Numbers'
  BY TypeParts, LeaseAssumption, SMT DEF Numbers
<1>3. Paces'
  BY TypeParts DEF Paces
<1>4. StuckAges'
  BY TypeParts, SMT DEF StuckAges, Numbers
<1>5. Timely'
  <2> USE LeaseAssumption, GapFacts DEF Timely
  <2>0. /\ interval \in Nat /\ attempt \in Nat /\ wait \in Nat /\ silence \in Nat /\ age \in Nat
        /\ rested \in Nat /\ missed \in Nat /\ pace[reader] \in Int
    BY Scalars DEF TypeOK
  <2>9. touched /\ pace[reader] >= -MaxGap /\ (present => silence <= RequestTimeout)
    BY AttemptOver
  <2>1. PaceBounded'
    BY <2>0, <2>9, SMT DEF PaceBounded
  <2>2. PacingBounded'
    BY DEF PacingBounded
  <2>3. InflightBounded'
    BY DEF InflightBounded
  <2>4. NextBounded'
    BY <2>0, <2>9, SMT DEF NextBounded
  <2>5. BackoffBounded'
    BY DEF BackoffBounded
  <2>6. RestBounded'
    BY <2>0, <2>9, SMT DEF RestBounded
  <2>7. AgeBounded'
    BY <2>0, <2>9, SMT DEF AgeBounded, InCycle
  <2>8. QED
    BY <2>1, <2>2, <2>3, <2>4, <2>5, <2>6, <2>7
<1>6. QED
  BY <1>1, <1>2, <1>3, <1>4, <1>5, TypePartsNext

LEMMA BackOffKeeps ==
    ASSUME IInv, BackOff PROVE IInv'
<1> USE DEF IInv, BackOff, Running, collector, marker
<1>1. Flags'
  BY TypeParts DEF Flags
<1>2. Numbers'
  BY TypeParts, LeaseAssumption, SMT DEF Numbers
<1>3. Paces'
  BY TypeParts DEF Paces
<1>4. StuckAges'
  BY TypeParts, SMT DEF StuckAges, Numbers
<1>5. Timely'
  <2> USE LeaseAssumption, GapFacts DEF W, Timely
  <2>0. /\ interval \in Nat /\ attempt \in Nat /\ wait \in Nat /\ silence \in Nat /\ age \in Nat
        /\ rested \in Nat /\ missed \in Nat /\ pace[reader] \in Int
    BY Scalars DEF TypeOK
  <2>1. PaceBounded'
    BY <2>0, SMT DEF PaceBounded, PacingBounded
  <2>2. PacingBounded'
    BY DEF PacingBounded
  <2>3. InflightBounded'
    BY DEF InflightBounded
  <2>4. NextBounded'
    BY DEF NextBounded
  <2>5. BackoffBounded'
    <3>1. wait' \in Nat /\ wait' <= Larger(RetryAfterCap, BackoffCap)
      BY SMT
    <3>2. /\ touched' = touched /\ present' = present /\ silence' = silence
          /\ pace' = pace /\ reader' = reader
      OBVIOUS
    <3>3. touched /\ pace[reader] >= -MaxGap /\ (present => silence <= RequestTimeout)
      BY AttemptOver
    <3>4. ASSUME present
          PROVE  /\ silence + wait' <= RequestTimeout + Larger(RetryAfterCap, BackoffCap)
                 /\ silence - pace[reader] <= RequestTimeout + MaxGap
      <4>1. silence <= RequestTimeout /\ pace[reader] >= -MaxGap
        BY <3>3, <3>4
      <4>2. QED
        BY <4>1, <3>1, <2>0, SMT
    <3>5. QED
      BY <3>2, <3>3, <3>4 DEF BackoffBounded
  <2>6. RestBounded'
    BY DEF RestBounded
  <2>7. AgeBounded'
    BY <2>0, SMT DEF AgeBounded, InCycle
  <2>8. QED
    BY <2>1, <2>2, <2>3, <2>4, <2>5, <2>6, <2>7
<1>6. QED
  BY <1>1, <1>2, <1>3, <1>4, <1>5, TypePartsNext

LEMMA RetryKeeps ==
    ASSUME IInv, Retry PROVE IInv'
<1> USE DEF IInv, Retry, Running, collector, marker
<1>0. /\ Paces'
      /\ \A q \in 1..Readers : q # reader => pace'[q] = pace[q]
      /\ pace'[reader] \in Int /\ pace'[reader] <= 0
      /\ pace'[reader] >= pace[reader] - MaxGap \/ pace'[reader] = 0
      /\ pace'[reader] # 0 => pace[reader] < MaxGap
      /\ pace'[reader] >= -2 * MaxGap
  <2>1. pace[reader] >= -MaxGap
    BY LeaseAssumption, SMT DEF TypeOK, Timely, PaceBounded, InflightBounded
  <2>2. QED
    BY <2>1, Claimed DEF TypeOK
<1>1. Flags'
  BY TypeParts DEF Flags
<1>2. Numbers'
  BY TypeParts, LeaseAssumption, SMT DEF Numbers
<1>3. Paces'
  BY <1>0
<1>4. StuckAges'
  BY TypeParts, SMT DEF StuckAges, Numbers
<1>5. Timely'
  <2> USE LeaseAssumption, GapFacts, <1>0 DEF W, Timely
  <2>0. /\ interval \in Nat /\ attempt \in Nat /\ wait \in Nat /\ silence \in Nat /\ age \in Nat
        /\ rested \in Nat /\ missed \in Nat /\ pace[reader] \in Int
    BY Scalars DEF TypeOK
  <2>1. PaceBounded'
    BY DEF PaceBounded
  <2>2. PacingBounded'
    BY <2>0, SMT DEF PacingBounded, BackoffBounded
  <2>3. InflightBounded'
    BY DEF InflightBounded
  <2>4. NextBounded'
    BY DEF NextBounded
  <2>5. BackoffBounded'
    BY DEF BackoffBounded
  <2>6. RestBounded'
    BY <2>0, SMT DEF RestBounded, BackoffBounded
  <2>7. AgeBounded'
    BY <2>0, SMT DEF AgeBounded, InCycle
  <2>8. QED
    BY <2>1, <2>2, <2>3, <2>4, <2>5, <2>6, <2>7
<1>6. QED
  BY <1>1, <1>2, <1>3, <1>4, <1>5, TypePartsNext

LEMMA PublishKeeps ==
    ASSUME IInv, Publish PROVE IInv'
<1> USE DEF IInv, Publish, Running, collector, marker, Touch, Untouched
<1>1. Flags'
  BY TypeParts DEF Flags
<1>2. Numbers'
  BY TypeParts, SMT DEF Numbers, MissBound
<1>3. Paces'
  BY TypeParts DEF Paces
<1>4. StuckAges'
  BY TypeParts, SMT DEF StuckAges, Numbers
<1>5. Timely'
  <2> USE LeaseAssumption, GapFacts DEF Timely
  <2>0. /\ interval \in Nat /\ attempt \in Nat /\ wait \in Nat /\ silence \in Nat /\ age \in Nat
        /\ rested \in Nat /\ missed \in Nat /\ pace[reader] \in Int
    BY Scalars DEF TypeOK
  <2>1. PaceBounded'
    BY DEF PaceBounded
  <2>2. PacingBounded'
    BY DEF PacingBounded
  <2>3. InflightBounded'
    BY DEF InflightBounded
  <2>4. NextBounded'
    BY DEF NextBounded
  <2>5. BackoffBounded'
    BY DEF BackoffBounded
  <2>6. RestBounded'
    <3>1. present' => silence' = 0
      OBVIOUS
    <3>2. silence' = 0 => silence' <= 0
      BY SMT
    <3>3. QED
      BY <3>1, <3>2 DEF RestBounded
  <2>7. AgeBounded'
    <3>1. CASE touched /\ present /\ Touch /\ UNCHANGED present
      <4>1. silence <= RequestTimeout
        BY <3>1 DEF NextBounded
      <4>2. ASSUME interval > 0
            PROVE  /\ missed' = 0 => age' <= silence'
                   /\ missed' = 1 => age' <= silence' + RequestTimeout
        <5>1. CASE age' = 0 /\ missed' = 0
          BY <3>1, <5>1, SMT
        <5>2. CASE missed' = missed + 1 /\ age' = age
          <6>1. missed = 0 => age <= silence
            BY <3>1, <4>2 DEF AgeBounded
          <6>2. silence' = 0
            BY <3>1
          <6>3. QED
            BY <2>0, <4>1, <5>2, <6>1, <6>2, SMT
        <5>3. QED
          BY <3>1, <5>1, <5>2
      <4>3. QED
        BY <4>2 DEF AgeBounded, InCycle
    <3>2. CASE present' = TRUE /\ age' = 0 /\ silence' = 0 /\ missed' = 0
      BY <3>2, SMT DEF AgeBounded
    <3>3. CASE present' = FALSE
      BY <3>3 DEF AgeBounded
    <3>4. QED
      BY <3>1, <3>2, <3>3
  <2>8. QED
    BY <2>1, <2>2, <2>3, <2>4, <2>5, <2>6, <2>7
<1>6. QED
  BY <1>1, <1>2, <1>3, <1>4, <1>5, TypePartsNext

\* A collector that hangs has no bound to keep any more.
LEMMA HangKeeps ==
    ASSUME IInv, Hang PROVE IInv'
<1> USE DEF IInv, Hang, Running, collector, marker
<1>1. Flags'
  BY TypeParts DEF Flags
<1>2. Numbers'
  BY TypeParts, SMT DEF Numbers
<1>3. Paces'
  BY TypeParts DEF Paces
<1>4. StuckAges'
  BY Scalars, SMT DEF StuckAges
<1>5. ~Running'
  BY SMT
<1>6. QED
  BY <1>1, <1>2, <1>3, <1>4, <1>5, TypePartsNext

\* A tick takes as much from what is left to wait as it adds to the silence.
LEMMA TickKeeps ==
    ASSUME IInv, Tick PROVE IInv'
<1> USE DEF IInv, Tick
<1>1. TypeOK /\ Flags /\ Numbers /\ Paces
  BY TypeParts
<1>2. /\ interval \in Nat /\ attempt \in Nat /\ wait \in Nat /\ silence \in Nat /\ age \in Nat
      /\ rested \in Nat /\ missed \in Nat /\ reader \in 1..Readers
      /\ \A r \in 1..Readers : pace[r] \in Int
  BY <1>1, Scalars
<1>3. /\ age' \in Nat /\ silence' \in Nat /\ silence' <= silence + 1
      /\ \A k \in Nat : age <= silence + k => age' <= silence' + k
  BY <1>2, OlderFacts
<1>4. Flags'
  BY <1>1 DEF Flags
<1>5. CASE ~Running
  <2>1. stuck \in Nat
    BY <1>1, <1>5, SMT DEF Numbers, Running
  <2>2. stuck' = Older(stuck) /\ stuck' \in Nat /\ stuck' <= age'
    <3>1. stuck' = Older(stuck) /\ age' = Older(age)
      BY <1>5
    <3>2. \A k \in Nat : stuck <= age + k => Older(stuck) <= Older(age) + k
      BY <1>2, <2>1, OlderFacts
    <3>3. Older(stuck) \in Nat /\ Older(age) \in Nat
      BY <1>2, <2>1, OlderFacts
    <3>4. stuck <= age + 0
      BY <1>2, <2>1, SMT DEF StuckAges
    <3>5. Older(stuck) <= Older(age) + 0
      BY <3>2, <3>4
    <3>6. QED
      BY <3>1, <3>3, <3>5, SMT
  <2>3. Numbers'
    BY <1>1, <1>3, <1>5, <2>2, SMT DEF Numbers
  <2>4. Paces'
    BY <1>1, <1>5 DEF Paces
  <2>5. StuckAges' /\ ~Running'
    BY <2>2, SMT DEF StuckAges, Running
  <2>6. QED
    BY <1>4, <2>3, <2>4, <2>5, TypePartsNext
<1>6. CASE Running
  <2>1. Timely /\ MayPass /\ stuck' = -1 /\ stuck = -1
    BY <1>6 DEF Running
  <2>2. pace' = [r \in 1..Readers |-> IF pace[r] < MaxGap THEN pace[r] + 1 ELSE pace[r]]
    BY <1>6
  <2>3. Paces'
    <3>1. \A r \in 1..Readers : pace[r] \in -2 * MaxGap..MaxGap
      BY <1>1 DEF Paces
    <3>2. \A r \in 1..Readers :
            (IF pace[r] < MaxGap THEN pace[r] + 1 ELSE pace[r]) \in -2 * MaxGap..MaxGap
      BY <3>1, LeaseAssumption, SMT
    <3>3. QED
      BY <2>2, <3>2 DEF Paces
  <2>4. \A r \in 1..Readers : /\ pace'[r] \in Int /\ pace'[r] >= pace[r] /\ pace'[r] <= pace[r] + 1
                              /\ pace[r] < MaxGap => pace'[r] = pace[r] + 1
                              /\ pace'[r] < MaxGap => pace[r] < MaxGap
    BY <1>2, <2>2, LeaseAssumption, SMT
  <2>5. /\ attempt' = IF stage \in {"pacing", "inflight"} THEN attempt + 1 ELSE attempt
        /\ wait' = IF stage = "backoff" THEN wait - 1 ELSE wait
        /\ rested' = IF stage = "rest" /\ interval > 0 THEN rested + 1 ELSE rested
        /\ stage' = stage /\ reader' = reader /\ interval' = interval
        /\ touched' = touched /\ present' = present /\ missed' = missed
    BY <1>6
  <2>6. /\ stage \in {"pacing", "inflight"} => attempt < RequestTimeout
        /\ stage = "backoff" => wait > 0
        /\ stage = "rest" /\ interval > 0 => rested < interval
        /\ stage = "pacing" => pace[reader] < 0
        /\ stage # "next"
    BY <2>1 DEF MayPass
  <2>7. Numbers'
    <3>1. /\ reader' = reader /\ interval' = interval /\ missed' = missed /\ stuck' = -1
          /\ age' \in Nat /\ silence' \in Nat
      BY <1>3, <2>1, <2>5
    <3>2. attempt' \in 0..RequestTimeout
      BY <1>1, <1>2, <2>5, <2>6, LeaseAssumption, SMT DEF Numbers
    <3>3. wait' \in 0..Larger(RetryAfterCap, BackoffCap)
      <4>1. wait \in 0..W
        BY <1>1 DEF Numbers, W
      <4>2. wait' \in 0..W
        BY <4>1, <2>5, <2>6, GapFacts, SMT
      <4>3. QED
        BY <4>2 DEF W
    <3>4. rested' \in 0..interval
      BY <1>1, <1>2, <2>5, <2>6, SMT DEF Numbers
    <3>5. stuck' \in Int /\ stuck' >= -1
      BY <3>1, SMT
    <3>6. QED
      BY <1>1, <3>1, <3>2, <3>3, <3>4, <3>5 DEF Numbers
  <2>8. StuckAges'
    BY <1>3, <2>1, SMT DEF StuckAges
  <2>9. Timely'
    <3>0. /\ interval \in Nat /\ attempt \in Nat /\ wait \in Nat /\ silence \in Nat /\ age \in Nat
          /\ rested \in Nat /\ missed \in Nat /\ pace[reader] \in Int
          /\ pace'[reader] \in Int /\ pace'[reader] >= pace[reader] /\ pace'[reader] <= pace[reader] + 1
          /\ pace[reader] < MaxGap => pace'[reader] = pace[reader] + 1
          /\ pace'[reader] < MaxGap => pace[reader] < MaxGap
          /\ age' \in Nat /\ silence' \in Nat /\ silence' <= silence + 1
      BY <1>2, <1>3, <2>4
    <3> USE LeaseAssumption, GapFacts, <2>1, <2>5, <2>6, <3>0
    <3>1. PaceBounded'
      <4>1. PaceBounded
        BY DEF Timely
      <4>2. SUFFICES ASSUME NEW r \in 1..Readers
                     PROVE  pace'[r] >= -MaxGap \/ (stage = "pacing" /\ r = reader)
        BY DEF PaceBounded
      <4>3. pace'[r] \in Int /\ pace[r] \in Int /\ pace'[r] >= pace[r]
        BY <1>2, <2>4
      <4>4. QED
        BY <4>1, <4>3, SMTT(30) DEF PaceBounded
    <3>2. PacingBounded'
      <4>1. CASE stage = "pacing"
        <5>1. PacingBounded /\ attempt' = attempt + 1 /\ pace'[reader] = pace[reader] + 1 /\ attempt' \in Nat
          BY <4>1, SMT DEF Timely
        <5>2. pace'[reader] <= 0
          BY <5>1, <4>1, SMT
        <5>3. \/ attempt' - pace'[reader] <= 2 * MaxGap
              \/ /\ touched /\ pace'[reader] >= -MaxGap
                 /\ present => silence' <= attempt'
          <6>1. CASE attempt - pace[reader] <= 2 * MaxGap
            BY <5>1, <6>1, SMTT(30)
          <6>2. CASE touched /\ pace[reader] >= -MaxGap /\ (present => silence <= attempt)
            <7>1. pace'[reader] >= -MaxGap
              BY <6>2, SMT
            <7>2. silence <= attempt => silence' <= attempt'
              BY <5>1, SMT
            <7>3. QED
              BY <6>2, <7>1, <7>2
          <6>3. QED
            BY <4>1, <5>1, <6>1, <6>2 DEF PacingBounded
        <5>4. present /\ touched => silence' - pace'[reader] <= LongestGap
          BY <5>1, <4>1, SMT DEF PacingBounded
        <5>5. QED
          BY <5>2, <5>3, <5>4 DEF PacingBounded
      <4>2. CASE stage # "pacing"
        BY <4>2 DEF PacingBounded
      <4>3. QED
        BY <4>1, <4>2
    <3>3. InflightBounded'
      BY SMT DEF Timely, InflightBounded, InCycle
    <3>4. NextBounded'
      BY SMT DEF Timely, NextBounded, InCycle
    <3>5. BackoffBounded'
      <4>1. CASE stage = "backoff"
        <5>1. BackoffBounded /\ wait' = wait - 1 /\ W \in Nat
          BY <4>1 DEF Timely
        <5>2. present => silence' + wait' <= RequestTimeout + W
          <6>1. SUFFICES ASSUME present PROVE silence' + wait' <= RequestTimeout + W
            OBVIOUS
          <6>2. silence + wait <= RequestTimeout + W
            BY <4>1, <5>1, <6>1 DEF BackoffBounded, W
          <6>3. QED
            BY <5>1, <6>2, SMT
        <5>3. present /\ pace'[reader] < MaxGap => silence' - pace'[reader] <= RequestTimeout + MaxGap
          <6>1. SUFFICES ASSUME present, pace'[reader] < MaxGap
                         PROVE  silence' - pace'[reader] <= RequestTimeout + MaxGap
            OBVIOUS
          <6>2. pace[reader] < MaxGap /\ pace'[reader] = pace[reader] + 1
            BY <6>1
          <6>3. silence - pace[reader] <= RequestTimeout + MaxGap
            BY <4>1, <5>1, <6>1, <6>2 DEF BackoffBounded
          <6>4. QED
            BY <6>2, <6>3, SMT
        <5>4. QED
          BY <5>1, <5>2, <5>3, <4>1 DEF BackoffBounded, W
      <4>2. CASE stage # "backoff"
        BY <4>2 DEF BackoffBounded
      <4>3. QED
        BY <4>1, <4>2
    <3>6. RestBounded'
      <4>1. RestBounded
        BY DEF Timely
      <4>2. CASE stage = "rest"
        BY <4>1, <4>2, SMT DEF RestBounded
      <4>3. CASE stage = "pacing"
        BY <4>1, <4>3, SMTT(30) DEF RestBounded
      <4>4. CASE stage \notin {"rest", "pacing"}
        BY <4>4 DEF RestBounded
      <4>5. QED
        BY <4>2, <4>3, <4>4
    <3>7. AgeBounded'
      <4>1. AgeBounded /\ interval + LongestGap \in Nat /\ RequestTimeout \in Nat
        BY SMT DEF Timely
      <4>2. age <= silence => age' <= silence'
        <5>1. age <= silence + 0 => age' <= silence' + 0
          BY <1>3
        <5>2. QED
          BY <5>1, SMT
      <4>3. /\ age <= silence + (interval + LongestGap) => age' <= silence' + (interval + LongestGap)
            /\ age <= silence + RequestTimeout => age' <= silence' + RequestTimeout
        BY <1>3, <4>1
      <4>4. QED
        BY <4>1, <4>2, <4>3 DEF AgeBounded, InCycle
    <3>8. QED
      BY <3>1, <3>2, <3>3, <3>4, <3>5, <3>6, <3>7 DEF Timely
  <2>10. QED
    BY <1>4, <2>3, <2>7, <2>8, <2>9, TypePartsNext
<1>7. QED
  BY <1>5, <1>6

LEMMA StutterKeeps ==
    ASSUME IInv, UNCHANGED vars PROVE IInv'
<1> USE DEF IInv, vars, collector, marker
<1>1. TypeOK'
  BY DEF TypeOK
<1>2. StuckAges' /\ (Running' => Timely')
  BY DEF StuckAges, Running, Timely, PaceBounded, PacingBounded, InflightBounded, NextBounded,
         BackoffBounded, RestBounded, AgeBounded, InCycle
<1>3. QED
  BY <1>1, <1>2

-----------------------------------------------------------------------------
(* The theorems.                                                           *)

\* IInv is an invariant: each action of the collector, and the clock, keeps it.
THEOREM Inductive == Spec => []IInv
<1>1. Init => IInv
  BY InitIInv
<1>2. IInv /\ [Next]_vars => IInv'
  BY BeginCycleKeeps, RequestKeeps, SendKeeps, RedirectKeeps, SettleKeeps, BackOffKeeps,
     RetryKeeps, PublishKeeps, HangKeeps, TickKeeps, StutterKeeps DEF Next
<1>3. QED
  BY <1>1, <1>2, PTL DEF Spec

\* The ages, claims and stages of a collector stay in their ranges: no attempt
\* outlives its timeout and no claim lies more than two gaps ahead.
THEOREM TypeCorrect == Spec => []TypeOK
<1>1. IInv => TypeOK
  BY DEF IInv
<1>2. QED
  BY <1>1, Inductive, PTL

LEMMA SilenceInCycle == IInv => SilenceBounded
<1> SUFFICES ASSUME IInv, Running, present, touched, stage # "rest"
             PROVE  silence <= LongestGap
  BY DEF SilenceBounded
<1>1. Timely /\ Flags /\ attempt <= RequestTimeout
  BY TypeParts, LeaseAssumption, SMT DEF IInv, Numbers
<1>2. silence \in Nat /\ attempt \in Nat /\ wait \in Nat /\ pace[reader] \in Int
  BY Scalars DEF IInv
<1>3. CASE stage = "next"
  BY <1>1, <1>2, <1>3, GapFacts, LeaseAssumption, SMT DEF Timely, NextBounded
<1>4. CASE stage = "pacing"
  BY <1>1, <1>2, <1>4, GapFacts, LeaseAssumption, SMT DEF Timely, PacingBounded
<1>5. CASE stage = "inflight"
  BY <1>1, <1>2, <1>5, GapFacts, LeaseAssumption, SMT DEF Timely, InflightBounded
<1>6. CASE stage = "backoff"
  BY <1>1, <1>2, <1>6, GapFacts, LeaseAssumption, SMT DEF Timely, BackoffBounded, W
<1>7. QED
  BY <1>1, <1>3, <1>4, <1>5, <1>6 DEF Flags

\* Between two requests of a cycle never passes more than half of progressLease,
\* whatever the timeout, the retry wait and the pacing gaps are.
THEOREM SilenceBoundedAlways == Spec => []SilenceBounded
BY SilenceInCycle, Inductive, PTL

\* A collector that works is never unhealthy for its marker's age, with one
\* refresh missed, at any poll interval.
THEOREM LiveIsFreshAlways == Spec => []LiveIsFresh
<1>1. IInv => LiveIsFresh
  <2> SUFFICES ASSUME IInv, Running, present, missed <= 1, interval > 0
               PROVE  ~(age > interval + ProgressLease)
    BY DEF LiveIsFresh, Healthy, Expired
  <2>1. TypeOK /\ Timely /\ SilenceBounded
    BY SilenceInCycle DEF IInv
  <2>2. silence <= LongestGap \/ (~InCycle /\ silence <= interval + 2 * MaxGap)
    BY <2>1, Scalars, GapFacts, LeaseAssumption, SMTT(30)
       DEF TypeOK, Timely, InCycle, SilenceBounded, PacingBounded, InflightBounded, BackoffBounded, RestBounded
  <2>3. missed = 0 \/ missed = 1
    BY <2>1, Scalars, SMT
  <2>4. CASE missed = 0
    BY <2>1, <2>2, <2>4, Scalars, GapFacts, LeaseAssumption, SMT DEF Timely, AgeBounded
  <2>5. CASE missed = 1
    BY <2>1, <2>2, <2>5, Scalars, GapFacts, LeaseAssumption, SMT DEF Timely, AgeBounded, InCycle, SilenceBounded
  <2>6. QED
    BY <2>3, <2>4, <2>5
<1>2. QED
  BY <1>1, Inductive, PTL

\* A collector that hangs in scheduled mode is unhealthy after the interval and
\* the lease, whether its marker was there or not.
THEOREM StuckIsNoticedAlways == Spec => []StuckIsNoticed
<1>1. IInv => StuckIsNoticed
  <2> SUFFICES ASSUME IInv, interval > 0, stuck > interval + ProgressLease
               PROVE  age > interval + ProgressLease
    BY DEF StuckIsNoticed, Healthy, Expired
  <2>1. Numbers /\ StuckAges
    BY TypeParts DEF IInv
  <2>2. QED
    BY <2>1, GapFacts, SMT DEF Numbers, StuckAges
<1>2. QED
  BY <1>1, Inductive, PTL
=============================================================================
