------------------------------ MODULE Lifecycle ------------------------------
(***************************************************************************)
(* One container slot of registry-stats across process lifetimes: run(),   *)
(* the collect loop, the publication of a cycle, and the shutdown of       *)
(* src/main.go.                                                            *)
(*                                                                         *)
(* Two goroutines meet here.  "main" is run(): it clears the inherited     *)
(* health marker, binds, arms the marker, starts the collect loop, serves, *)
(* and on a signal drains.  "collector" is collectLoop: it sends requests, *)
(* each of which refreshes the marker if one is present, and publishes the *)
(* finished cycle under publication.mu.  They share the readiness flag,    *)
(* the marker file, the context and the mutex.  The marker is a file, so   *)
(* it is the one variable a crash leaves behind.                           *)
(***************************************************************************)
EXTENDS Naturals

CONSTANTS
    Scheduled,   \* POLL_INTERVAL_HOURS > 0; otherwise one check, then serving
    MaxRequests  \* bound: registry requests of one cycle

ASSUME LifecycleAssumption ==
    /\ Scheduled \in BOOLEAN
    /\ MaxRequests \in Nat

VARIABLES
    main,       \* where run() is; "down" when no process runs
    collector,  \* where the collect loop's goroutine is
    cancelled,  \* ctx.Err() # nil, by a signal or by stop()
    mu,         \* publication.mu: "free", or held by "publish"
    ready,      \* webhttp.Ready, what GET /api/health answers from
    marker,     \* /tmp/.healthy: "absent", "own" or left by an "inherited" process
    gauges,     \* what the image gauges hold: "none" yet, an "empty" cycle, "images"
    result,     \* what the running cycle collected
    requests,   \* requests the running cycle may still send
    drained,    \* history: publication.drain has run in this process
    late        \* history: shutdown gave up waiting for the collector

vars == <<main, collector, cancelled, mu, ready, marker, gauges, result,
          requests, drained, late>>

MainStates == {"down", "booting", "unbound", "bound", "armed", "serving",
               "draining", "stopping", "returning", "exiting"}

\* The states in which the collector is inside publish's critical section.
Publishing == {"checking", "setting", "marking", "readying"}

CollectorStates == {"off", "starting", "collecting", "sending", "refreshing",
                    "locking", "waiting", "done"} \union Publishing

TypeOK ==
    /\ main \in MainStates
    /\ collector \in CollectorStates
    /\ cancelled \in BOOLEAN
    /\ mu \in {"free", "publish"}
    /\ ready \in BOOLEAN
    /\ marker \in {"absent", "own", "inherited"}
    /\ gauges \in {"none", "empty", "images"}
    /\ result \in {"none", "empty", "images"}
    /\ requests \in 0..MaxRequests
    /\ drained \in BOOLEAN
    /\ late \in BOOLEAN

Init ==
    /\ main = "down" /\ collector = "off" /\ mu = "free"
    /\ marker \in {"absent", "inherited"}
    /\ gauges = "none" /\ result = "none" /\ requests = 0
    /\ cancelled = FALSE /\ ready = FALSE /\ drained = FALSE /\ late = FALSE

-----------------------------------------------------------------------------
(* run(): boot.                                                            *)

Launch ==
    /\ main = "down"
    /\ main' = "booting"
    /\ UNCHANGED <<collector, cancelled, mu, ready, marker, gauges, result,
                   requests, drained, late>>

\* Mutant: the marker a killed process left is not cleared.
BootMarkerKept == marker

\* What the clean-up before the bind leaves of the marker.
BootMarker == "absent"

\* signal.NotifyContext, then the clean-up of a marker inherited from a prior
\* process.
Prepare ==
    /\ main = "booting"
    /\ main' = "unbound"
    /\ marker' = BootMarker
    /\ UNCHANGED <<collector, cancelled, mu, ready, gauges, result, requests,
                   drained, late>>

Bind ==
    /\ main = "unbound"
    /\ main' = "bound"
    /\ UNCHANGED <<collector, cancelled, mu, ready, marker, gauges, result,
                   requests, drained, late>>

\* Listen failed, on its own or because the context was cancelled: run
\* returns, through its deferred clean-up.
BindFail ==
    /\ main = "unbound"
    /\ main' = "returning"
    /\ UNCHANGED <<collector, cancelled, mu, ready, marker, gauges, result,
                   requests, drained, late>>

\* The listener is up: the container is healthy before the first cycle ends,
\* and requests have a marker to refresh.
Arm ==
    /\ main = "bound"
    /\ main' = "armed"
    /\ marker' = "own"
    /\ UNCHANGED <<collector, cancelled, mu, ready, gauges, result, requests,
                   drained, late>>

\* go collectLoop, then webhttp.Run.
Serve ==
    /\ main = "armed"
    /\ main' = "serving"
    /\ collector' = "starting"
    /\ UNCHANGED <<cancelled, mu, ready, marker, gauges, result, requests,
                   drained, late>>

-----------------------------------------------------------------------------
(* collectLoop and collect.Run.                                            *)

\* collect(ctx) in one-shot mode, a fire of scheduler.RunLoop otherwise.  A
\* tick and the cancellation can be ready together, so a cycle may begin late.
BeginCycle ==
    /\ collector \in {"starting", "waiting"}
    /\ collector' = "collecting"
    /\ requests' = MaxRequests
    /\ UNCHANGED <<main, cancelled, mu, ready, marker, gauges, result,
                   drained, late>>

\* scheduler.RunLoop returns on a cancelled context.
StopLoop ==
    /\ Scheduled /\ cancelled
    /\ collector \in {"starting", "waiting"}
    /\ collector' = "done"
    /\ UNCHANGED <<main, cancelled, mu, ready, marker, gauges, result,
                   requests, drained, late>>

\* Mutant: a retry loop without its attempt limit.
MayRequestForever == ~cancelled

\* The pacing transport refuses a cancelled request, and a cycle has finitely
\* many of them.
MayRequest == ~cancelled /\ requests > 0

\* A request leaves the pacing transport.
SendRequest ==
    /\ collector = "collecting" /\ MayRequest
    /\ collector' = "sending"
    /\ requests' = requests - 1
    /\ UNCHANGED <<main, cancelled, mu, ready, marker, gauges, result,
                   drained, late>>

\* Mutant: the refresh creates a marker that is not there.
RefreshableAlways == TRUE

\* A marker that refreshPresentMarker takes for present.
Refreshable == marker # "absent"

\* refreshPresentMarker reads the file ...
CheckMarker ==
    /\ collector = "sending"
    /\ collector' = IF Refreshable THEN "refreshing" ELSE "collecting"
    /\ UNCHANGED <<main, cancelled, mu, ready, marker, gauges, result,
                   requests, drained, late>>

\* ... and writes it in a second step, which the clean-up may have overtaken.
RefreshMarker ==
    /\ collector = "refreshing"
    /\ collector' = "collecting"
    /\ marker' = "own"
    /\ UNCHANGED <<main, cancelled, mu, ready, gauges, result, requests,
                   drained, late>>

\* collect.Run returns; a cancelled cycle returns what it had by then.
EndCollect ==
    /\ collector = "collecting"
    /\ collector' = "locking"
    /\ result' \in {"empty", "images"}
    /\ UNCHANGED <<main, cancelled, mu, ready, marker, gauges, requests,
                   drained, late>>

-----------------------------------------------------------------------------
(* publication.publish, one step per shared write.                         *)

\* Mutant: one-shot mode runs the scheduled loop.
AfterCycleLoops == "waiting"

\* collectLoop after one cycle.
AfterCycle == IF Scheduled THEN "waiting" ELSE "done"

\* Mutant: a return path of publish forgets to unlock.
LeakedMu == mu

\* publication.mu after publish's deferred unlock.
ReleasedMu == "free"

LockPublication ==
    /\ collector = "locking" /\ mu = "free"
    /\ collector' = "checking"
    /\ mu' = "publish"
    /\ UNCHANGED <<main, cancelled, ready, marker, gauges, result, requests,
                   drained, late>>

\* Mutant: publish does not look at the context.
RefusedNever == FALSE

\* publish refuses a cancelled cycle: its Set calls delete what it lacks.
Refused == cancelled

CheckContext ==
    /\ collector = "checking"
    /\ IF Refused THEN collector' = AfterCycle /\ mu' = ReleasedMu
                  ELSE collector' = "setting" /\ mu' = mu
    /\ UNCHANGED <<main, cancelled, ready, marker, gauges, result, requests,
                   drained, late>>

SetGauges ==
    /\ collector = "setting"
    /\ collector' = "marking"
    /\ gauges' = result
    /\ UNCHANGED <<main, cancelled, mu, ready, marker, result, requests,
                   drained, late>>

\* marker.Set(ok) creates the marker or removes it.
PublishedMarker == IF result = "images" THEN "own" ELSE "absent"

SetMarker ==
    /\ collector = "marking"
    /\ collector' = "readying"
    /\ marker' = PublishedMarker
    /\ UNCHANGED <<main, cancelled, mu, ready, gauges, result, requests,
                   drained, late>>

\* Mutant: readiness set by every published cycle.
PublishedReadyAlways == TRUE

\* Mutant: readiness that follows each cycle instead of latching.
PublishedReadyUnlatched == result = "images"

\* Mutant: readiness never set.
PublishedReadyForgotten == ready

\* A cycle with images opens the gate; one without leaves it as it is.
PublishedReady == ready \/ result = "images"

\* The last write, and the deferred unlock.
SetReady ==
    /\ collector = "readying"
    /\ collector' = AfterCycle
    /\ ready' = PublishedReady
    /\ mu' = ReleasedMu
    /\ UNCHANGED <<main, cancelled, marker, gauges, result, requests,
                   drained, late>>

-----------------------------------------------------------------------------
(* Shutdown.                                                               *)

\* SIGTERM or SIGINT, at any point after NotifyContext.
Signal ==
    /\ main \in {"unbound", "bound", "armed", "serving"}
    /\ ~cancelled
    /\ cancelled' = TRUE
    /\ UNCHANGED <<main, collector, mu, ready, marker, gauges, result,
                   requests, drained, late>>

\* webhttp.Run sees the cancelled context and calls preDrain.
PreDrain ==
    /\ main = "serving" /\ cancelled
    /\ main' = "draining"
    /\ UNCHANGED <<collector, cancelled, mu, ready, marker, gauges, result,
                   requests, drained, late>>

\* Mutant: drain does not take the lock.
DrainUnlocked == TRUE

\* publication.drain's p.mu.Lock().
DrainMayRun == mu = "free"

\* publication.drain: lock, ready.Set(false), unlock; nothing else writes or
\* reads under the lock in between.
Drain ==
    /\ main = "draining" /\ DrainMayRun
    /\ main' = "stopping"
    /\ ready' = FALSE
    /\ drained' = TRUE
    /\ UNCHANGED <<collector, cancelled, mu, marker, gauges, result, requests,
                   late>>

\* The server failed: serveExit calls stop() and waits; nothing is drained.
ServeError ==
    /\ main = "serving"
    /\ main' = "stopping"
    /\ cancelled' = TRUE
    /\ UNCHANGED <<collector, mu, ready, marker, gauges, result, requests,
                   drained, late>>

\* Mutant: shutdown does not wait for the collector.
LoopEndedIgnored == TRUE

\* bgDone is closed.
LoopEnded == collector = "done"

\* waitForCollect: webhttp.AwaitDone(ctx, bgDone) ends on the closed channel
AwaitCollector ==
    /\ main = "stopping" /\ LoopEnded
    /\ main' = "returning"
    /\ UNCHANGED <<collector, cancelled, mu, ready, marker, gauges, result,
                   requests, drained, late>>

\* or on the shutdown deadline, with the collector still running.
DeadlineExpires ==
    /\ main = "stopping" /\ collector # "done"
    /\ main' = "returning"
    /\ late' = TRUE
    /\ UNCHANGED <<collector, cancelled, mu, ready, marker, gauges, result,
                   requests, drained>>

\* The deferred marker.Cleanup of run().
CleanupMarker ==
    /\ main = "returning"
    /\ main' = "exiting"
    /\ marker' = "absent"
    /\ UNCHANGED <<collector, cancelled, mu, ready, gauges, result, requests,
                   drained, late>>

\* The process is gone: its memory is lost and its marker outlives it.
Die ==
    /\ main' = "down" /\ collector' = "off" /\ mu' = "free"
    /\ marker' = IF marker = "own" THEN "inherited" ELSE marker
    /\ gauges' = "none" /\ result' = "none" /\ requests' = 0
    /\ cancelled' = FALSE /\ ready' = FALSE /\ drained' = FALSE /\ late' = FALSE

Exit == main = "exiting" /\ Die

\* A kill, an OOM or a host failure, anywhere.
Crash == main # "down" /\ Die

-----------------------------------------------------------------------------
Boot == Launch \/ Prepare \/ Bind \/ BindFail \/ Arm \/ Serve

Publish == LockPublication \/ CheckContext \/ SetGauges \/ SetMarker \/ SetReady

Collect == \/ BeginCycle \/ StopLoop \/ SendRequest \/ CheckMarker
           \/ RefreshMarker \/ EndCollect

Shutdown == \/ Signal \/ PreDrain \/ Drain \/ ServeError \/ AwaitCollector
            \/ DeadlineExpires \/ CleanupMarker \/ Exit

Next == Boot \/ Collect \/ Publish \/ Shutdown \/ Crash

Spec == Init /\ [][Next]_vars

(***************************************************************************)
(* Both goroutines keep running, sync.Mutex starves no waiter, every       *)
(* request has a timeout and a cycle sends finitely many, and the shutdown *)
(* deadline is a timer.  A signal, a server error and a crash need never   *)
(* come, and nobody owes the container a restart.                          *)
(***************************************************************************)
Fairness ==
    /\ WF_vars(Prepare) /\ WF_vars(Bind \/ BindFail) /\ WF_vars(Arm) /\ WF_vars(Serve)
    /\ WF_vars(Collect \/ Publish)
    /\ WF_vars(PreDrain) /\ SF_vars(Drain)
    /\ WF_vars(AwaitCollector \/ DeadlineExpires)
    /\ WF_vars(CleanupMarker) /\ WF_vars(Exit)

FairSpec == Spec /\ Fairness

-----------------------------------------------------------------------------
(* Properties.                                                             *)

\* Once shutdown has drained, GET /api/health never answers ok again: no
\* publish that began before the drain may re-open the gate (main.go:192-213).
DrainedStaysUnready == drained => ~ready

\* After the drain a late cycle moves neither the image gauges nor readiness: a
\* scrape during the server's grace period reads the images of the last complete
\* cycle (main.go:192-213).  It may still count itself (collect.go:124-126, 148)
\* and a pending refresh may still touch the marker.
FrozenAfterDrain ==
    [][drained /\ drained' => gauges' = gauges /\ ready' = ready]_vars

\* While a process serves and no publish is half done, the marker says what the
\* gauges say: absent exactly when the last published cycle had no image.
\* A refresh by a request in flight may not contradict it (main.go:202, 232).
MarkerMatchesGauges ==
    main \in {"armed", "serving", "draining", "stopping"} /\ collector # "marking"
        => (marker = "own" <=> gauges # "empty")

\* A marker left by a killed process never reports the next one healthy once
\* that one has passed its clean-up and has not yet bound (main.go:76-78).
UnboundIsUnhealthy ==
    /\ main \in {"unbound", "bound"} => marker = "absent"
    /\ marker = "inherited" => main \in {"down", "booting"}

\* An orderly exit leaves no marker behind, unless the collector outlived the
\* shutdown deadline, whose pending refresh may still re-create it.
CleanExitLeavesNoMarker == main = "exiting" /\ ~late => marker = "absent"

\* The gate opens only on a cycle whose images are already in the gauges and
\* whose marker is already written (the order of main.go:198-205).  The one
\* exception is a publish that outlives the deadline of a failed server: the
\* clean-up can take its marker away before it sets the gate.
ReadyAfterData ==
    [][~ready /\ ready' => gauges = "images" /\ (marker = "own" \/ late)]_vars

\* GET /api/health implements its promise: latched, and shut for good.
Gate == INSTANCE ReadinessGate WITH alive <- main # "down", open <- ready, shut <- drained

GatePromise == Gate!GateSpec

\* In one-shot mode a process publishes once: what its only cycle decided
\* stands until the process ends (docs/how-it-works.md, "Health and readiness").
OneShotPublishesOnce ==
    [][~Scheduled /\ gauges # "none" /\ main' # "down" => gauges' = gauges]_vars

\* A cancelled process always ends: no drain waits for ever on the mutex, and
\* no collector keeps the process past the deadline.
ShutdownCompletes == cancelled ~> main = "down"

\* A cycle that has begun always ends in the waiting or the ended loop.
CycleEnds == collector = "collecting" ~> collector \in {"waiting", "done", "off"}

\* A cycle with images makes the container ready unless shutdown intervenes.
ImagesLeadToReady ==
    (collector = "locking" /\ result = "images") ~> (ready \/ cancelled \/ main = "down")
=============================================================================
