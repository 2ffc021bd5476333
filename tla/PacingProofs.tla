---------------------------- MODULE PacingProofs ----------------------------
(***************************************************************************)
(* Proofs about Pacing, for any set of requests, any gaps and any clock    *)
(* bound.                                                                  *)
(*                                                                         *)
(* The argument: the mutex makes reading last and writing it one step for  *)
(* the others, so a claim is computed from the latest claim; by then every *)
(* claim is at or before last, and the new one a gap after it.             *)
(***************************************************************************)
EXTENDS Pacing, TLAPS

Before(r) == pc[r] \in {"new", "queued"}

Types ==
    /\ now \in Nat
    /\ pc \in [Requests -> Points]
    /\ asked \in [Requests -> Times]
    /\ slot \in [Requests -> Times]
    /\ sentAt \in [Requests -> Times]
    /\ last \in Times
    /\ cancelled \subseteq Requests

\* One request at a time is inside reserve, and it holds the mutex.
Mutex ==
    /\ locked \in BOOLEAN
    /\ \A r \in Requests : pc[r] = "reserving" => locked
    /\ locked => \E r \in Requests : pc[r] = "reserving"
    /\ \A r, q \in Requests : pc[r] = "reserving" /\ pc[q] = "reserving" => r = q

\* A request has a slot from the moment it leaves the queue.
SlotOnceReserved == \A r \in Requests : Before(r) <=> slot[r] = Never

\* Every written claim is at or before last; one about to be written is a gap
\* after it; last is itself a claim.
LastIsLatest ==
    /\ \A r \in Requests : Claimed(r) /\ pc[r] # "reserving" => slot[r] <= last
    /\ \A r \in Requests : pc[r] = "reserving" /\ last # Never => last + MinGap <= slot[r]
    /\ last # Never =>
         \E q \in Requests : slot[q] = last /\ ~Before(q) /\ pc[q] # "reserving"

\* A request leaves its wait, and goes out, no earlier than its slot.
NotEarly ==
    /\ \A r \in Requests : pc[r] \in {"awake", "sent"} => slot[r] <= now
    /\ \A r \in Requests : sentAt[r] # Never => pc[r] = "sent" /\ slot[r] <= sentAt[r]

IInv == Types /\ Mutex /\ SlotOnceReserved /\ LastIsLatest /\ NotEarly
          /\ SlotsSpaced /\ NoNeedlessWait

-----------------------------------------------------------------------------

LEMMA InitHolds == Init => IInv
<1> SUFFICES ASSUME Init PROVE IInv
  OBVIOUS
<1>1. \A r \in Requests : pc[r] = "new" /\ slot[r] = Never /\ sentAt[r] = Never
  BY DEF Init, NoTimes
<1>2. Types
  BY DEF Init, Types, NoTimes, Times, Points
<1>3. Mutex
  BY <1>1 DEF Init, Mutex
<1>4. SlotOnceReserved /\ LastIsLatest /\ NotEarly /\ SlotsSpaced /\ NoNeedlessWait
  BY <1>1 DEF Init, SlotOnceReserved, LastIsLatest, NotEarly, SlotsSpaced, NoNeedlessWait,
              Before, Claimed
<1> QED BY <1>2, <1>3, <1>4 DEF IInv

\* What reserve computes is a gap after every earlier claim.
LEMMA ReserveKeeps ==
  ASSUME IInv, NEW r \in Requests, Reserve(r)
  PROVE  IInv'
<1> USE PacingAssumption DEF IInv, Types, Mutex, Times, Points, Reserve, Goto, Free, Never
<1>1. PICK g \in Gaps : slot' = [slot EXCEPT ![r] = Due(g)]
  OBVIOUS
<1>2. g \in Nat /\ MinGap <= g
  OBVIOUS
<1>3. /\ Due(g) \in Nat
      /\ last # Never => last + MinGap <= Due(g)
      /\ Due(g) = now \/ (last # Never /\ Due(g) = last + g)
  BY <1>2 DEF Due
<1>4. /\ pc' = [pc EXCEPT ![r] = "reserving"] /\ pc[r] = "queued"
      /\ asked' = [asked EXCEPT ![r] = now]
      /\ UNCHANGED <<now, sentAt, last, cancelled>>
  OBVIOUS
<1>5. \A q \in Requests : q # r => /\ slot'[q] = slot[q] /\ pc'[q] = pc[q]
                                   /\ asked'[q] = asked[q]
  BY <1>1, <1>4
<1>6. slot'[r] = Due(g) /\ pc'[r] = "reserving" /\ asked'[r] = now
  BY <1>1, <1>4
<1>7. \A q \in Requests : pc[q] # "reserving"
  OBVIOUS
<1>8. slot[r] = Never
  BY <1>4 DEF SlotOnceReserved, Before
<1>9. Types'
  BY <1>1, <1>3, <1>4
<1>10. Mutex'
  BY <1>4, <1>5, <1>6, <1>7
<1>11. SlotOnceReserved'
  BY <1>3, <1>5, <1>6 DEF SlotOnceReserved, Before
<1>12. \A q \in Requests : q # r /\ Claimed(q)' =>
          slot[q] <= last /\ slot[q] \in Nat /\ last \in Nat /\ slot[q] + MinGap <= Due(g)
  BY <1>3, <1>5, <1>7 DEF LastIsLatest, Claimed
<1>13. LastIsLatest'
  BY <1>3, <1>4, <1>5, <1>6, <1>7 DEF LastIsLatest, Claimed, Before
<1>14. NotEarly'
  BY <1>4, <1>5, <1>6 DEF NotEarly
<1>15. SlotsSpaced'
  <2> SUFFICES ASSUME NEW p \in Requests, NEW q \in Requests, p # q,
                      Claimed(p)', Claimed(q)'
               PROVE  slot'[p] + MinGap <= slot'[q] \/ slot'[q] + MinGap <= slot'[p]
    BY DEF SlotsSpaced
  <2>1. CASE p = r
    BY <2>1, <1>5, <1>6, <1>12
  <2>2. CASE q = r
    BY <2>2, <1>5, <1>6, <1>12
  <2>3. CASE p # r /\ q # r
    BY <2>3, <1>5 DEF SlotsSpaced, Claimed
  <2> QED BY <2>1, <2>2, <2>3
<1>16. NoNeedlessWait'
  <2> SUFFICES ASSUME NEW p \in Requests, Claimed(p)'
               PROVE  \/ slot'[p] = asked'[p]
                      \/ \E q \in Requests \ {p} : Claimed(q)' /\ slot'[p] - slot'[q] \in Gaps
    BY DEF NoNeedlessWait
  <2>1. CASE p = r
    <3>1. CASE Due(g) = now
      BY <2>1, <3>1, <1>6
    <3>2. CASE last # Never /\ Due(g) = last + g
      <4>1. PICK q \in Requests : slot[q] = last /\ ~Before(q)
        BY <3>2 DEF LastIsLatest
      <4>2. q # r /\ slot'[q] = last
        BY <4>1, <1>4, <1>5 DEF Before
      <4>3. slot'[p] - slot'[q] = g
        BY <4>2, <3>2, <2>1, <1>6, <1>2
      <4> QED BY <4>2, <4>3, <3>2, <2>1 DEF Claimed
    <3> QED BY <3>1, <3>2, <1>3
  <2>2. CASE p # r
    <3>1. Claimed(p) /\ slot'[p] = slot[p] /\ asked'[p] = asked[p]
      BY <2>2, <1>5 DEF Claimed
    <3>2. CASE slot[p] = asked[p]
      BY <3>1, <3>2
    <3>3. CASE \E q \in Requests \ {p} : Claimed(q) /\ slot[p] - slot[q] \in Gaps
      <4>1. PICK q \in Requests \ {p} : Claimed(q) /\ slot[p] - slot[q] \in Gaps
        BY <3>3
      <4>2. q # r
        BY <4>1, <1>8 DEF Claimed
      <4> QED BY <4>1, <4>2, <3>1, <1>5 DEF Claimed
    <3> QED BY <3>1, <3>2, <3>3 DEF NoNeedlessWait
  <2> QED BY <2>1, <2>2
<1> QED BY <1>9, <1>10, <1>11, <1>13, <1>14, <1>15, <1>16

\* Every other step leaves the slots alone.
LEMMA OthersKeep ==
  ASSUME IInv, [Next]_vars, \A r \in Requests : ~Reserve(r)
  PROVE  IInv'
<1> USE PacingAssumption DEF IInv, Types, Mutex, Times, Points, Goto, Never
<1> DEFINE Same == SlotsSpaced' /\ NoNeedlessWait'
<1>0. ASSUME UNCHANGED <<slot, asked>>
      PROVE  Same
  BY <1>0 DEF SlotsSpaced, NoNeedlessWait, Claimed
<1>1. ASSUME NEW r \in Requests, Arrive(r)
      PROVE  IInv'
  <2>1. Types' /\ Mutex' /\ SlotOnceReserved' /\ NotEarly'
    BY <1>1 DEF Arrive, SlotOnceReserved, Before, NotEarly
  <2>2. LastIsLatest'
    BY <1>1 DEF Arrive, LastIsLatest, SlotOnceReserved, Before, Claimed
  <2> QED BY <1>0, <1>1, <2>1, <2>2 DEF Arrive
<1>2. ASSUME NEW r \in Requests, Claim(r)
      PROVE  IInv'
  <2>1. slot[r] \in Nat /\ last' = slot[r] /\ pc[r] = "reserving"
        /\ pc' = [pc EXCEPT ![r] = "waiting"]
    BY <1>2 DEF Claim, SlotOnceReserved, Before
  <2>2. Types' /\ SlotOnceReserved' /\ NotEarly'
    BY <1>2, <2>1 DEF Claim, SlotOnceReserved, Before, NotEarly
  <2>3. Mutex'
    BY <1>2, <2>1 DEF Claim
  <2>4. \A q \in Requests : q # r /\ Claimed(q) => slot[q] <= slot[r]
    BY <2>1 DEF LastIsLatest, Claimed
  <2>5. LastIsLatest'
    BY <1>2, <2>1, <2>4 DEF Claim, LastIsLatest, Before, Claimed
  <2> QED BY <1>0, <1>2, <2>2, <2>3, <2>5 DEF Claim
<1>3. ASSUME NEW r \in Requests, Wake(r) \/ GiveUp(r) \/ Send(r)
      PROVE  IInv'
  <2>1. /\ pc[r] \in {"waiting", "awake"} /\ UNCHANGED <<slot, asked, last, locked, now>>
        /\ \E to \in {"awake", "failed", "sent"} : pc' = [pc EXCEPT ![r] = to]
    BY <1>3 DEF Wake, GiveUp, Send
  <2>2. Types'
    BY <1>3 DEF Wake, GiveUp, Send
  <2>3. Mutex' /\ SlotOnceReserved'
    BY <2>1 DEF SlotOnceReserved, Before
  <2>4. LastIsLatest'
    BY <2>1 DEF LastIsLatest, Before, Claimed
  <2>5. NotEarly'
    BY <1>3 DEF NotEarly, Wake, GiveUp, Send, Over
  <2> QED BY <1>0, <2>1, <2>2, <2>3, <2>4, <2>5
<1>4. ASSUME NEW r \in Requests, Cancel(r)
      PROVE  IInv'
  BY <1>0, <1>4 DEF Cancel, SlotOnceReserved, Before, LastIsLatest, NotEarly, Claimed
<1>5. CASE Tick
  BY <1>0, <1>5 DEF Tick, SlotOnceReserved, Before, LastIsLatest, NotEarly, Claimed
<1>6. CASE UNCHANGED vars
  BY <1>0, <1>6 DEF vars, SlotOnceReserved, Before, LastIsLatest, NotEarly, Claimed
<1> QED BY <1>1, <1>2, <1>3, <1>4, <1>5, <1>6 DEF Next, Step

LEMMA Inductive == IInv /\ [Next]_vars => IInv'
  BY ReserveKeeps, OthersKeep

THEOREM Invariance == Spec => []IInv
  BY InitHolds, Inductive, PTL DEF Spec

-----------------------------------------------------------------------------

\* The state stays well-formed, and the mutex is held exactly inside reserve.
THEOREM TypeCorrect == Spec => []TypeOK
<1>1. IInv => TypeOK
  BY DEF IInv, Types, Mutex, TypeOK
<1> QED BY <1>1, Invariance, PTL

\* Any two claimed start times are a gap apart.
THEOREM SlotsSpacedAlways == Spec => []SlotsSpaced
<1>1. IInv => SlotsSpaced
  BY DEF IInv
<1> QED BY <1>1, Invariance, PTL

\* No request goes out inside the gap after an earlier claim.
THEOREM SentOutsideGapsAlways == Spec => []SentOutsideGaps
<1>1. IInv => SentOutsideGaps
  <2> SUFFICES ASSUME IInv, NEW r \in Requests, NEW q \in Requests, r # q, Claimed(r),
                      sentAt[q] # Never
               PROVE  slot[r] + MinGap <= sentAt[q] \/ slot[q] + MinGap <= slot[r]
    BY DEF SentOutsideGaps
  <2>1. pc[q] = "sent" /\ slot[q] <= sentAt[q]
    BY DEF IInv, NotEarly
  <2>2. Claimed(q)
    BY <2>1 DEF IInv, SlotOnceReserved, Before, Claimed
  <2>3. slot[r] + MinGap <= slot[q] \/ slot[q] + MinGap <= slot[r]
    BY <2>2 DEF IInv, SlotsSpaced
  <2>4. slot[r] \in Int /\ slot[q] \in Int /\ sentAt[q] \in Int /\ MinGap \in Nat
    BY PacingAssumption DEF IInv, Types, Times, Never
  <2> QED BY <2>1, <2>3, <2>4
<1> QED BY <1>1, Invariance, PTL

\* A request waits for its predecessor only.
THEOREM NoNeedlessWaitAlways == Spec => []NoNeedlessWait
<1>1. IInv => NoNeedlessWait
  BY DEF IInv
<1> QED BY <1>1, Invariance, PTL
=============================================================================
