--------------------------- MODULE LifecycleProofs ---------------------------
(***************************************************************************)
(* Proofs about Lifecycle for both modes and any number of requests: type  *)
(* correctness, the safety invariants, the action properties, and that it  *)
(* implements ReadinessGate.                                               *)
(***************************************************************************)
EXTENDS Lifecycle, TLAPS

Live == {"serving", "draining", "stopping", "returning", "exiting"}

\* The mutex is held exactly inside publish's critical section.
LockHeldInside == mu = "publish" <=> collector \in Publishing

\* What a drain leaves true for the rest of the process.
DrainIsFinal ==
    drained => /\ cancelled /\ ~ready
               /\ main \in {"stopping", "returning", "exiting"}
               /\ collector \notin {"setting", "marking", "readying"}

\* The collector's goroutine lives inside webhttp.Run and its deferred calls.
CollectorLifetime ==
    /\ collector # "off" => main \in Live
    /\ main \in {"serving", "draining", "stopping"} => collector # "off"
    /\ main = "draining" => cancelled
    /\ main \in {"returning", "exiting"} /\ ~late => collector \in {"off", "done"}

\* Nothing is published before the loop starts.
BootIsBlank ==
    main \notin Live => gauges = "none" /\ ~ready /\ ~late

\* Who can have written the marker, by the phase of run().
MarkerByPhase ==
    /\ main = "down" => marker # "own"
    /\ main \in {"unbound", "bound"} => marker = "absent"
    /\ marker = "inherited" => main \in {"down", "booting"}
    /\ main = "exiting" /\ ~late => marker = "absent"

\* What the collector's position says of the marker and the gauges.
PublishInOrder ==
    /\ collector = "refreshing" /\ main \in {"serving", "draining", "stopping"}
           => marker = "own"
    /\ collector \in {"locking"} \union Publishing => result # "none"
    /\ collector \in {"marking", "readying"} => gauges = result
    /\ collector = "readying" /\ ~late => marker = PublishedMarker

IInv ==
    /\ TypeOK
    /\ LockHeldInside
    /\ DrainIsFinal
    /\ CollectorLifetime
    /\ BootIsBlank
    /\ MarkerByPhase
    /\ PublishInOrder
    /\ MarkerMatchesGauges

\* Every conjunct of the inductive invariant, for the leaves below.
USE DEF MainStates, CollectorStates, Publishing, Live, PublishedMarker

-----------------------------------------------------------------------------
(* The inductive invariant, one lemma per part of Next.                    *)

LEMMA InitIInv == Init => IInv
<1> SUFFICES ASSUME Init PROVE IInv
  OBVIOUS
<1>1. TypeOK
  <2>1. requests \in 0..MaxRequests
    BY LifecycleAssumption DEF Init
  <2>2. {cancelled, ready, drained, late} \subseteq BOOLEAN
    BY DEF Init
  <2>3. QED
    BY <2>1, <2>2 DEF Init, TypeOK
<1>2. LockHeldInside /\ DrainIsFinal /\ CollectorLifetime
  BY DEF Init, LockHeldInside, DrainIsFinal, CollectorLifetime
<1>3. BootIsBlank /\ MarkerByPhase /\ PublishInOrder /\ MarkerMatchesGauges
  BY DEF Init, BootIsBlank, MarkerByPhase, PublishInOrder, MarkerMatchesGauges
<1>4. QED
  BY <1>1, <1>2, <1>3 DEF IInv

\* Boot happens before the collector exists, so only main and marker move.
LEMMA BootPreservesIInv == IInv /\ Boot => IInv'
<1> SUFFICES ASSUME IInv, Boot PROVE IInv'
  OBVIOUS
<1> USE LifecycleAssumption
    DEF IInv, TypeOK, LockHeldInside, DrainIsFinal, CollectorLifetime,
        BootIsBlank, MarkerByPhase, PublishInOrder, MarkerMatchesGauges
<1>1. CASE Launch
  BY <1>1 DEF Launch
<1>2. CASE Prepare
  BY <1>2 DEF Prepare, BootMarker
<1>3. CASE Bind
  BY <1>3 DEF Bind
<1>4. CASE BindFail
  BY <1>4 DEF BindFail
<1>5. CASE Arm
  BY <1>5 DEF Arm
<1>6. CASE Serve
  BY <1>6 DEF Serve
<1>7. QED
  BY <1>1, <1>2, <1>3, <1>4, <1>5, <1>6 DEF Boot

\* Outside the critical section the collector can only disturb the marker.
LEMMA CollectPreservesIInv == IInv /\ Collect => IInv'
<1> SUFFICES ASSUME IInv, Collect PROVE IInv'
  OBVIOUS
<1> USE LifecycleAssumption
    DEF IInv, TypeOK, LockHeldInside, DrainIsFinal, CollectorLifetime,
        BootIsBlank, MarkerByPhase, PublishInOrder, MarkerMatchesGauges
<1>1. CASE BeginCycle
  BY <1>1 DEF BeginCycle
<1>2. CASE StopLoop
  BY <1>2 DEF StopLoop
<1>3. CASE SendRequest
  BY <1>3 DEF SendRequest, MayRequest
<1>4. CASE CheckMarker
  BY <1>4 DEF CheckMarker, Refreshable
<1>5. CASE RefreshMarker
  BY <1>5 DEF RefreshMarker
<1>6. CASE EndCollect
  BY <1>6 DEF EndCollect
<1>7. QED
  BY <1>1, <1>2, <1>3, <1>4, <1>5, <1>6 DEF Collect

\* Inside it the context check keeps a drained process from being written.
LEMMA PublishPreservesIInv == IInv /\ Publish => IInv'
<1> SUFFICES ASSUME IInv, Publish PROVE IInv'
  OBVIOUS
<1> USE LifecycleAssumption
    DEF IInv, TypeOK, LockHeldInside, DrainIsFinal, CollectorLifetime,
        BootIsBlank, MarkerByPhase, PublishInOrder, MarkerMatchesGauges
<1>1. CASE LockPublication
  BY <1>1 DEF LockPublication
<1>2. CASE CheckContext
  BY <1>2 DEF CheckContext, Refused, ReleasedMu, AfterCycle
<1>3. CASE SetGauges
  BY <1>3 DEF SetGauges
<1>4. CASE SetMarker
  BY <1>4 DEF SetMarker, PublishedMarker
<1>5. CASE SetReady
  BY <1>5 DEF SetReady, PublishedReady, PublishedMarker, ReleasedMu, AfterCycle
<1>6. QED
  BY <1>1, <1>2, <1>3, <1>4, <1>5 DEF Publish

\* The end of a process, orderly or not, leaves a state a boot can start from.
LEMMA DiePreservesIInv == IInv /\ main # "down" /\ Die => IInv'
<1> SUFFICES ASSUME IInv, Die PROVE IInv'
  OBVIOUS
<1>1. TypeOK'
  <2>1. requests' \in 0..MaxRequests
    BY LifecycleAssumption DEF Die
  <2>2. {cancelled', ready', drained', late'} \subseteq BOOLEAN
    BY DEF Die
  <2>3. QED
    BY <2>1, <2>2 DEF IInv, Die, TypeOK
<1>2. (LockHeldInside /\ DrainIsFinal /\ CollectorLifetime)'
  BY DEF Die, LockHeldInside, DrainIsFinal, CollectorLifetime
<1>3. (BootIsBlank /\ MarkerByPhase /\ PublishInOrder /\ MarkerMatchesGauges)'
  BY DEF IInv, TypeOK, Die, BootIsBlank, MarkerByPhase, PublishInOrder,
         MarkerMatchesGauges
<1>4. QED
  BY <1>1, <1>2, <1>3 DEF IInv

LEMMA ShutdownPreservesIInv == IInv /\ Shutdown => IInv'
<1> SUFFICES ASSUME IInv, Shutdown PROVE IInv'
  OBVIOUS
<1> USE LifecycleAssumption
    DEF IInv, TypeOK, LockHeldInside, DrainIsFinal, CollectorLifetime,
        BootIsBlank, MarkerByPhase, PublishInOrder, MarkerMatchesGauges
<1>1. CASE Signal
  BY <1>1 DEF Signal
<1>2. CASE PreDrain
  BY <1>2 DEF PreDrain
<1>3. CASE Drain
  BY <1>3 DEF Drain, DrainMayRun
<1>4. CASE ServeError
  BY <1>4 DEF ServeError
<1>5. CASE AwaitCollector
  BY <1>5 DEF AwaitCollector, LoopEnded
<1>6. CASE DeadlineExpires
  BY <1>6 DEF DeadlineExpires
<1>7. CASE CleanupMarker
  BY <1>7 DEF CleanupMarker
<1>8. CASE Exit
  BY <1>8, DiePreservesIInv DEF Exit
<1>9. QED
  BY <1>1, <1>2, <1>3, <1>4, <1>5, <1>6, <1>7, <1>8 DEF Shutdown

LEMMA StepPreservesIInv == IInv /\ [Next]_vars => IInv'
<1>1. ASSUME IInv, UNCHANGED vars PROVE IInv'
  BY <1>1
  DEF vars, IInv, TypeOK, LockHeldInside, DrainIsFinal, CollectorLifetime,
      BootIsBlank, MarkerByPhase, PublishInOrder, PublishedMarker, MarkerMatchesGauges
<1>2. ASSUME IInv, Next PROVE IInv'
  BY <1>2, BootPreservesIInv, CollectPreservesIInv, PublishPreservesIInv,
     ShutdownPreservesIInv, DiePreservesIInv DEF Next, Crash
<1>3. QED
  BY <1>1, <1>2

LEMMA InvariantIInv == Spec => []IInv
  BY InitIInv, StepPreservesIInv, PTL DEF Spec

-----------------------------------------------------------------------------
(* The theorems.                                                           *)

\* Type correctness: every variable keeps to its range in both modes.
THEOREM TypeCorrect == Spec => []TypeOK
  BY InvariantIInv, PTL DEF IInv

\* No publish re-opens /api/health after the drain (main.go:192-213).
THEOREM DrainedStaysUnreadyAlways == Spec => []DrainedStaysUnready
<1>1. IInv => DrainedStaysUnready
  BY DEF IInv, DrainIsFinal, DrainedStaysUnready
<1>2. QED
  BY <1>1, InvariantIInv, PTL

\* The marker and the gauges never tell two stories (main.go:198-205, 232-236).
THEOREM MarkerMatchesGaugesAlways == Spec => []MarkerMatchesGauges
  BY InvariantIInv, PTL DEF IInv

\* An inherited marker never vouches for the next process (main.go:76-78).
THEOREM UnboundIsUnhealthyAlways == Spec => []UnboundIsUnhealthy
<1>1. IInv => UnboundIsUnhealthy
  BY DEF IInv, MarkerByPhase, UnboundIsUnhealthy
<1>2. QED
  BY <1>1, InvariantIInv, PTL

\* An orderly exit within the deadline leaves no marker (main.go:78, 127-131).
THEOREM CleanExitAlways == Spec => []CleanExitLeavesNoMarker
<1>1. IInv => CleanExitLeavesNoMarker
  BY DEF IInv, MarkerByPhase, CleanExitLeavesNoMarker
<1>2. QED
  BY <1>1, InvariantIInv, PTL

\* No step after the drain changes the image gauges or readiness
\* (main.go:192-213).
THEOREM FrozenAlways == Spec => FrozenAfterDrain
<1>1. IInv /\ [Next]_vars =>
        [drained /\ drained' => gauges' = gauges /\ ready' = ready]_vars
  <2> SUFFICES ASSUME IInv, Next, drained, drained'
               PROVE  gauges' = gauges /\ ready' = ready
    BY DEF vars
  <2>1. collector \notin {"setting", "readying"} /\ main \in {"stopping", "returning", "exiting"}
    BY DEF IInv, DrainIsFinal
  <2>2. CASE Boot
    BY <2>1, <2>2 DEF Boot, Launch, Prepare, Bind, BindFail, Arm, Serve
  <2>3. CASE Collect
    BY <2>3 DEF Collect, BeginCycle, StopLoop, SendRequest, CheckMarker,
                RefreshMarker, EndCollect
  <2>4. CASE Publish
    BY <2>1, <2>4 DEF Publish, LockPublication, CheckContext, SetGauges, SetMarker, SetReady
  <2>5. ~Die
    BY DEF Die
  <2>6. CASE Shutdown
    BY <2>1, <2>5, <2>6 DEF Shutdown, Signal, PreDrain, Drain, ServeError,
       AwaitCollector, DeadlineExpires, CleanupMarker, Exit
  <2>7. QED
    BY <2>2, <2>3, <2>4, <2>5, <2>6 DEF Next, Crash
<1>2. QED
  BY <1>1, InvariantIInv, PTL DEF Spec, FrozenAfterDrain

\* The gate opens only behind the data and the marker (main.go:198-205).
THEOREM ReadyAfterDataAlways == Spec => ReadyAfterData
<1>1. IInv /\ [Next]_vars =>
        [~ready /\ ready' => gauges = "images" /\ (marker = "own" \/ late)]_vars
  <2> SUFFICES ASSUME IInv, Next, ~ready, ready'
               PROVE  gauges = "images" /\ (marker = "own" \/ late)
    BY DEF vars
  <2>1. ~Boot
    BY DEF Boot, Launch, Prepare, Bind, BindFail, Arm, Serve
  <2>2. ~Collect
    BY DEF Collect, BeginCycle, StopLoop, SendRequest, CheckMarker,
           RefreshMarker, EndCollect
  <2>3. ~Die
    BY DEF Die
  <2>4. ~Shutdown
    BY <2>3 DEF Shutdown, Signal, PreDrain, Drain, ServeError,
       AwaitCollector, DeadlineExpires, CleanupMarker, Exit
  <2>5. Publish
    BY <2>1, <2>2, <2>3, <2>4 DEF Next, Crash
  <2>6. SetReady
    BY <2>5 DEF Publish, LockPublication, CheckContext, SetGauges, SetMarker
  <2>7. QED
    BY <2>6 DEF SetReady, PublishedReady, IInv, PublishInOrder
<1>2. QED
  BY <1>1, InvariantIInv, PTL DEF Spec, ReadyAfterData

\* Lifecycle implements ReadinessGate: every step of it opens, shuts, starts or
\* stops the gate as the promise allows, or leaves it alone.
THEOREM ImplementsGate == Spec => GatePromise
<1>1. Init => Gate!GateInit
  BY DEF Init, Gate!GateInit
<1>2. IInv /\ [Next]_vars => [Gate!GateNext]_Gate!gateVars
  <2> SUFFICES ASSUME IInv, Next
               PROVE  Gate!GateNext \/ UNCHANGED Gate!gateVars
    BY DEF vars, Gate!gateVars
  <2> USE DEF Gate!GateNext, Gate!gateVars
  <2>1. CASE Boot
    BY <2>1 DEF Boot, Launch, Prepare, Bind, BindFail, Arm, Serve, Gate!Start
  <2>2. CASE Collect
    BY <2>2 DEF Collect, BeginCycle, StopLoop, SendRequest, CheckMarker,
                RefreshMarker, EndCollect
  <2>3. CASE Publish
    <3>1. CASE SetReady
      BY <2>3, <3>1 DEF SetReady, PublishedReady, IInv, TypeOK, DrainIsFinal,
                        CollectorLifetime, Gate!Open
    <3>2. QED
      BY <2>3, <3>1 DEF Publish, LockPublication, CheckContext, SetGauges, SetMarker
  <2>4. ASSUME main # "down", Die PROVE Gate!GateNext
    BY <2>4 DEF Die, Gate!Stop
  <2>5. CASE Shutdown
    <3>1. CASE Drain
      BY <3>1 DEF Drain, IInv, DrainIsFinal, Gate!Shut
    <3>2. CASE Exit
      BY <2>4, <3>2 DEF Exit
    <3>3. QED
      BY <2>5, <3>1, <3>2 DEF Shutdown, Signal, PreDrain, ServeError,
         AwaitCollector, DeadlineExpires, CleanupMarker
  <2>6. QED
    BY <2>1, <2>2, <2>3, <2>4, <2>5 DEF Next, Crash
<1>3. QED
  BY <1>1, <1>2, InvariantIInv, PTL DEF Spec, GatePromise, Gate!GateSpec

\* The only cycle of one-shot mode: once it has decided the gauges, its
\* goroutine is on the way out of publish or has ended.
OnlyCycle ==
    ~Scheduled /\ gauges # "none" => collector \in {"marking", "readying", "done"}

LEMMA InvariantOnlyCycle == Spec => []OnlyCycle
<1>1. Init => OnlyCycle
  BY DEF Init, OnlyCycle
<1>2. IInv /\ OnlyCycle /\ [Next]_vars => OnlyCycle'
  <2> SUFFICES ASSUME IInv, OnlyCycle, [Next]_vars, ~Scheduled, gauges' # "none"
               PROVE  collector' \in {"marking", "readying", "done"}
    BY DEF OnlyCycle
  <2> USE DEF OnlyCycle
  <2>1. CASE Boot
    \* the loop starts before anything is published
    <3>1. CASE Serve
      BY <3>1 DEF Serve, IInv, BootIsBlank
    <3>2. QED
      BY <2>1, <3>1 DEF Boot, Launch, Prepare, Bind, BindFail, Arm
  <2>2. CASE Collect
    BY <2>2 DEF Collect, BeginCycle, StopLoop, SendRequest, CheckMarker,
                RefreshMarker, EndCollect
  <2>3. CASE Publish
    BY <2>3 DEF Publish, LockPublication, CheckContext, AfterCycle, SetGauges,
                SetMarker, SetReady
  <2>4. ~Die
    BY DEF Die
  <2>5. CASE Shutdown
    BY <2>4, <2>5 DEF Shutdown, Signal, PreDrain, Drain, ServeError,
       AwaitCollector, DeadlineExpires, CleanupMarker, Exit
  <2>6. CASE UNCHANGED vars
    BY <2>6 DEF vars
  <2>7. QED
    BY <2>1, <2>2, <2>3, <2>4, <2>5, <2>6 DEF Next, Crash
<1>3. QED
  BY <1>1, <1>2, InvariantIInv, PTL DEF Spec

\* In one-shot mode nothing but the end of the process takes back what the only
\* cycle published (main.go:142-151).
THEOREM OneShotPublishesOnceAlways == Spec => OneShotPublishesOnce
<1>1. OnlyCycle /\ [Next]_vars =>
        [~Scheduled /\ gauges # "none" /\ main' # "down" => gauges' = gauges]_vars
  <2> SUFFICES ASSUME OnlyCycle, Next, ~Scheduled, gauges # "none", main' # "down"
               PROVE  gauges' = gauges
    BY DEF vars
  <2>1. collector # "setting" /\ ~Die
    BY DEF OnlyCycle, Die
  <2>2. CASE Boot
    BY <2>2 DEF Boot, Launch, Prepare, Bind, BindFail, Arm, Serve
  <2>3. CASE Collect
    BY <2>3 DEF Collect, BeginCycle, StopLoop, SendRequest, CheckMarker,
                RefreshMarker, EndCollect
  <2>4. CASE Publish
    BY <2>1, <2>4 DEF Publish, LockPublication, CheckContext, SetGauges, SetMarker, SetReady
  <2>5. CASE Shutdown
    BY <2>1, <2>5 DEF Shutdown, Signal, PreDrain, Drain, ServeError,
       AwaitCollector, DeadlineExpires, CleanupMarker, Exit
  <2>6. QED
    BY <2>1, <2>2, <2>3, <2>4, <2>5 DEF Next, Crash
<1>2. QED
  BY <1>1, InvariantOnlyCycle, PTL DEF Spec, OneShotPublishesOnce
=============================================================================
