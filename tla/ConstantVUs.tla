----------------------------- MODULE ConstantVUs -----------------------------
(***************************************************************************)
(* TaskEngine.executeConstantVUs of internal/slave/task_engine.go: one      *)
(* call of the constant-vus mode, with the goroutines it creates.           *)
(*                                                                          *)
(*   main       launches the first VUs, waits for them or for scheduleCtx,  *)
(*              sets stopping, cancels, waits for controller and waiter;    *)
(*   controller on every tick compares activeVUs with e.maxVUs and calls    *)
(*              startVU or stopOneVU for the difference;                    *)
(*   waiter     calls wg.Wait() and closes vusDone;                         *)
(*   VU i       runs runVU, then its deferred calls in order.               *)
(*                                                                          *)
(* A step is what happens under one lock or in one atomic operation.  What  *)
(* an iteration computes is left out: it succeeds, fails or panics.         *)
(***************************************************************************)
EXTENDS Integers, FiniteSets

CONSTANTS
    VUs,          \* the vus argument: VUs launched before the controller runs
    Iterations,   \* the iterations argument; 0 is a duration-based execution
    HasDuration,  \* duration > 0: scheduleCtx carries a timeout
    PoolSize,     \* maxVUs given to NewTaskEngine: size of vuPool, first e.maxVUs
    ScaleTargets, \* values ScaleVUs may be called with
    MaxVUIDs,     \* bound: VU ids one call may hand out
    MaxScales     \* bound: calls of ScaleVUs

ASSUME VUsAssumption        == VUs \in Nat
ASSUME IterationsAssumption == Iterations \in Nat
ASSUME DurationAssumption   == HasDuration \in BOOLEAN
ASSUME PoolAssumption       == PoolSize \in Nat
ASSUME TargetsAssumption    == ScaleTargets \subseteq Nat
ASSUME BoundsAssumption     == MaxVUIDs \in Nat /\ MaxScales \in Nat /\ VUs <= MaxVUIDs

VUIDs == 0 .. (MaxVUIDs - 1)
NoVU  == -1

VARIABLES
    main,       \* program counter of executeConstantVUs itself
    ctl,        \* program counter of the controller goroutine
    waiter,     \* program counter of the goroutine that calls wg.Wait()
    vu,         \* vu[i]: where startVU and then goroutine i are
    todo,       \* calls of startVU (> 0) or stopOneVU (< 0) the loop still makes
    starting,   \* id the current call of startVU has reserved, or NoVU
    stopping,   \* the flag under vuMu
    nextVUID,
    vuCancels,  \* keys of the vuCancels map
    cancelled,  \* VUs whose own vuCancel has been called
    wg,         \* counter of the WaitGroup
    baseDone,   \* baseCtx is done (stopAll, or ctx cancelled by the caller)
    timeUp,     \* the duration has elapsed
    maxVUs,     \* e.maxVUs
    scales,     \* calls of ScaleVUs made so far
    activeVUs,  \* e.activeVUs
    inUse,      \* ids with vuPool.inUse[id] = true
    iteration,  \* iteration[i]: completed iterations of VU i when they are limited
    stopper,    \* program counter of TaskEngine.Stop
    crashed     \* a goroutine has panicked outside a recover: the process is gone

mainVars == <<main, stopping, baseDone>>
ctlVars  == <<ctl, todo, starting, nextVUID>>
envVars  == <<timeUp, maxVUs, scales, stopper>>
vuVars   == <<vu, vuCancels, cancelled, wg, activeVUs, inUse, iteration>>
vars     == <<mainVars, ctlVars, envVars, vuVars, waiter, crashed>>

scheduleDone == baseDone \/ timeUp
vuDone(i)    == scheduleDone \/ i \in cancelled

\* VUs between wg.Add(1) and wg.Done(), and between activeVUs.Add(1) and Add(-1).
Launched == {"loop", "iter", "delete", "release", "uncount"}
Pending  == {"acquire", "register"} \cup Launched \cup {"done"}
Waited   == {i \in VUIDs : vu[i] \in Pending}
Counted  == {i \in VUIDs : vu[i] \in Launched}

Init ==
    /\ main = "launch" /\ ctl = "off" /\ waiter = "off" /\ stopper = "idle"
    /\ vu = [i \in VUIDs |-> "none"]
    /\ todo = VUs /\ starting = NoVU /\ nextVUID = 0
    /\ stopping = FALSE /\ baseDone = FALSE /\ timeUp = FALSE /\ crashed = FALSE
    /\ vuCancels = {} /\ cancelled = {} /\ inUse = {}
    /\ wg = 0 /\ activeVUs = 0
    /\ maxVUs = PoolSize /\ scales = 0
    /\ iteration = [i \in VUIDs |-> 0]

-----------------------------------------------------------------------------
(* startVU, called by main's launch loop and by the controller.             *)

StartLoop == main = "launch" \/ ctl = "scale"

\* Under vuMu: return when stopping, else take an id and wg.Add(1).  A call
\* beyond the bound MaxVUIDs does nothing.
StartVU ==
    /\ StartLoop /\ todo > 0 /\ starting = NoVU
    /\ IF stopping \/ nextVUID = MaxVUIDs
       THEN /\ todo' = todo - 1
            /\ UNCHANGED <<starting, nextVUID, vu, wg>>
       ELSE /\ starting' = nextVUID
            /\ nextVUID' = nextVUID + 1
            /\ wg' = wg + 1
            /\ vu' = [vu EXCEPT ![nextVUID] = "acquire"]
            /\ UNCHANGED todo
    /\ UNCHANGED <<mainVars, ctl, envVars, vuCancels, cancelled, activeVUs,
                   inUse, iteration, waiter, crashed>>

\* vuPool.Acquire(id): nil when the id is beyond the pool or in use; startVU
\* then goes on with a VU of its own, so the outcome only changes inUse.
Acquire ==
    /\ starting # NoVU /\ vu[starting] = "acquire"
    /\ inUse' = IF starting < PoolSize THEN inUse \cup {starting} ELSE inUse
    /\ vu' = [vu EXCEPT ![starting] = "register"]
    /\ UNCHANGED <<mainVars, ctlVars, envVars, vuCancels, cancelled, wg,
                   activeVUs, iteration, waiter, crashed>>

\* Registers vuCancel, counts the VU and starts its goroutine.
LaunchVU ==
    /\ starting # NoVU /\ vu[starting] = "register"
    /\ vuCancels' = vuCancels \cup {starting}
    /\ activeVUs' = activeVUs + 1
    /\ vu' = [vu EXCEPT ![starting] = "loop"]
    /\ starting' = NoVU
    /\ todo' = todo - 1
    /\ UNCHANGED <<mainVars, ctl, nextVUID, envVars, cancelled, wg, inUse,
                   iteration, waiter, crashed>>

-----------------------------------------------------------------------------
(* The goroutine of VU i: runVU and the deferred calls.                     *)

Move(i, from, to) == vu[i] = from /\ vu' = [vu EXCEPT ![i] = to]

QuotaReached(i) == Iterations > 0 /\ iteration[i] >= Iterations

\* Mutated form: the loop looks at the VU's own cancel function only.
RunVULoopOwnCancel(i) ==
    /\ Move(i, "loop", IF i \in cancelled \/ QuotaReached(i) THEN "delete" ELSE "iter")
    /\ UNCHANGED <<mainVars, ctlVars, envVars, vuCancels, cancelled, wg,
                   activeVUs, inUse, iteration, waiter, crashed>>

\* The select at the head of runVU's loop and the quota test.
RunVULoop(i) ==
    /\ Move(i, "loop", IF vuDone(i) \/ QuotaReached(i) THEN "delete" ELSE "iter")
    /\ UNCHANGED <<mainVars, ctlVars, envVars, vuCancels, cancelled, wg,
                   activeVUs, inUse, iteration, waiter, crashed>>

CountIteration(i) ==
    iteration' = IF Iterations > 0 THEN [iteration EXCEPT ![i] = @ + 1] ELSE iteration

IterationOk(i) ==
    /\ Move(i, "iter", "loop")
    /\ CountIteration(i)
    /\ UNCHANGED <<mainVars, ctlVars, envVars, vuCancels, cancelled, wg,
                   activeVUs, inUse, waiter, crashed>>

\* A failed iteration ends the VU when iterCtx is done or iterations are
\* limited; otherwise it counts and the loop goes on.
IterationFails(i) ==
    /\ Move(i, "iter", IF baseDone \/ Iterations > 0 THEN "delete" ELSE "loop")
    /\ UNCHANGED <<mainVars, ctlVars, envVars, vuCancels, cancelled, wg,
                   activeVUs, inUse, iteration, waiter, crashed>>

\* Mutated form: a panic skips the deferred clean-up but for wg.Done().
IterationPanicsNoCleanup(i) ==
    /\ Move(i, "iter", "done")
    /\ UNCHANGED <<mainVars, ctlVars, envVars, vuCancels, cancelled, wg,
                   activeVUs, inUse, iteration, waiter, crashed>>

\* A panic outside the step executors reaches runVU's recover, which returns.
IterationPanics(i) ==
    /\ Move(i, "iter", "delete")
    /\ UNCHANGED <<mainVars, ctlVars, envVars, vuCancels, cancelled, wg,
                   activeVUs, inUse, iteration, waiter, crashed>>

\* Mutated form: the deferred delete is missing.
DeleteCancelMissing(i) ==
    /\ Move(i, "delete", "release")
    /\ UNCHANGED <<mainVars, ctlVars, envVars, vuCancels, cancelled, wg, activeVUs,
                   inUse, iteration, waiter, crashed>>

DeleteCancel(i) ==
    /\ Move(i, "delete", "release")
    /\ vuCancels' = vuCancels \ {i}
    /\ UNCHANGED <<mainVars, ctlVars, envVars, cancelled, wg, activeVUs, inUse,
                   iteration, waiter, crashed>>

Release(i) ==
    /\ Move(i, "release", "uncount")
    /\ inUse' = inUse \ {i}
    /\ UNCHANGED <<mainVars, ctlVars, envVars, vuCancels, cancelled, wg,
                   activeVUs, iteration, waiter, crashed>>

Uncount(i) ==
    /\ Move(i, "uncount", "done")
    /\ activeVUs' = activeVUs - 1
    /\ UNCHANGED <<mainVars, ctlVars, envVars, vuCancels, cancelled, wg, inUse,
                   iteration, waiter, crashed>>

\* wg.Done(): the call that brings the counter to 0 releases a parked Wait.
WgDone(i) ==
    /\ Move(i, "done", "exited")
    /\ wg' = wg - 1
    /\ waiter' = IF wg = 1 /\ waiter = "parked" THEN "woken" ELSE waiter
    /\ UNCHANGED <<mainVars, ctlVars, envVars, vuCancels, cancelled, activeVUs,
                   inUse, iteration, crashed>>

VU(i) ==
    \/ RunVULoop(i) \/ IterationOk(i) \/ IterationFails(i) \/ IterationPanics(i)
    \/ DeleteCancel(i) \/ Release(i) \/ Uncount(i) \/ WgDone(i)

-----------------------------------------------------------------------------
(* The controller goroutine.                                                *)

\* case <-scheduleCtx.Done(): return
ControllerDone ==
    /\ ctl = "select" /\ scheduleDone
    /\ ctl' = "done"
    /\ UNCHANGED <<mainVars, todo, starting, nextVUID, envVars, vuVars, waiter, crashed>>

\* A tick: read stopping under vuMu.
Tick ==
    /\ ctl = "select"
    /\ ctl' = IF stopping THEN "done" ELSE "compare"
    /\ UNCHANGED <<mainVars, todo, starting, nextVUID, envVars, vuVars, waiter, crashed>>

\* Mutated form: the branch that scales down is missing.
CompareUpOnly ==
    /\ ctl = "compare"
    /\ todo' = IF maxVUs > activeVUs THEN maxVUs - activeVUs ELSE 0
    /\ ctl' = "scale"
    /\ UNCHANGED <<mainVars, starting, nextVUID, envVars, vuVars, waiter, crashed>>

\* target := e.maxVUs, current := e.activeVUs.
Compare ==
    /\ ctl = "compare"
    /\ todo' = maxVUs - activeVUs
    /\ ctl' = "scale"
    /\ UNCHANGED <<mainVars, starting, nextVUID, envVars, vuVars, waiter, crashed>>

\* stopOneVU: cancel the registered VU with the greatest id, and leave it
\* registered until it exits.
StopOneVU ==
    /\ ctl = "scale" /\ todo < 0
    /\ todo' = todo + 1
    /\ cancelled' = cancelled \cup
          {i \in vuCancels : \A j \in vuCancels : j <= i}
    /\ UNCHANGED <<mainVars, ctl, starting, nextVUID, envVars, vu, vuCancels, wg,
                   activeVUs, inUse, iteration, waiter, crashed>>

ScaleDone ==
    /\ ctl = "scale" /\ todo = 0 /\ starting = NoVU
    /\ ctl' = "select"
    /\ UNCHANGED <<mainVars, todo, starting, nextVUID, envVars, vuVars, waiter, crashed>>

Controller == ControllerDone \/ Tick \/ Compare \/ StopOneVU \/ ScaleDone

-----------------------------------------------------------------------------
(* The waiter goroutine; sync.WaitGroup is modelled as the Go library does  *)
(* it: a Wait that parked and finds the counter raised again panics.        *)

Wait ==
    /\ waiter = "call"
    /\ waiter' = IF wg = 0 THEN "ready" ELSE "parked"
    /\ UNCHANGED <<mainVars, ctlVars, envVars, vuVars, crashed>>

Wake ==
    /\ waiter = "woken"
    /\ IF wg = 0
       THEN waiter' = "ready" /\ UNCHANGED crashed
       ELSE crashed' = TRUE /\ UNCHANGED waiter
    /\ UNCHANGED <<mainVars, ctlVars, envVars, vuVars>>

CloseVUsDone ==
    /\ waiter = "ready"
    /\ waiter' = "closed"
    /\ UNCHANGED <<mainVars, ctlVars, envVars, vuVars, crashed>>

Waiter == Wait \/ Wake \/ CloseVUsDone

-----------------------------------------------------------------------------
(* executeConstantVUs itself.                                               *)

vusDone == waiter = "closed"

\* The launch loop is over: start the controller and the waiter.
StartGoroutines ==
    /\ main = "launch" /\ todo = 0 /\ starting = NoVU
    /\ main' = "select" /\ ctl' = "select" /\ waiter' = "call"
    /\ UNCHANGED <<stopping, baseDone, todo, starting, nextVUID, envVars, vuVars, crashed>>

\* select { case <-vusDone: case <-scheduleCtx.Done(): }
Select ==
    /\ main = "select" /\ (vusDone \/ scheduleDone)
    /\ main' = "stop"
    /\ UNCHANGED <<stopping, baseDone, ctlVars, envVars, vuVars, waiter, crashed>>

SetStopping ==
    /\ main = "stop"
    /\ stopping' = TRUE /\ main' = "cancel"
    /\ UNCHANGED <<baseDone, ctlVars, envVars, vuVars, waiter, crashed>>

StopAll ==
    /\ main = "cancel"
    /\ baseDone' = TRUE /\ main' = "controllerDone"
    /\ UNCHANGED <<stopping, ctlVars, envVars, vuVars, waiter, crashed>>

\* Mutated form: returns without waiting for the controller.
AwaitControllerSkipped ==
    /\ main = "controllerDone"
    /\ main' = "vusDone"
    /\ UNCHANGED <<stopping, baseDone, ctlVars, envVars, vuVars, waiter, crashed>>

\* <-controllerDone
AwaitController ==
    /\ main = "controllerDone" /\ ctl = "done"
    /\ main' = "vusDone"
    /\ UNCHANGED <<stopping, baseDone, ctlVars, envVars, vuVars, waiter, crashed>>

\* <-vusDone, and return
AwaitVUs ==
    /\ main = "vusDone" /\ vusDone
    /\ main' = "returned"
    /\ UNCHANGED <<stopping, baseDone, ctlVars, envVars, vuVars, waiter, crashed>>

Main == StartGoroutines \/ Select \/ SetStopping \/ StopAll \/ AwaitController \/ AwaitVUs

-----------------------------------------------------------------------------
(* The callers: ScaleVUs, the duration, and TaskEngine.Stop.                *)

\* A rejected target (negative, or above maxAllowedVUs) changes nothing.
ScaleVUs(n) ==
    /\ scales < MaxScales
    /\ maxVUs' = n /\ scales' = scales + 1
    /\ UNCHANGED <<mainVars, ctlVars, timeUp, stopper, vuVars, waiter, crashed>>

DurationElapses ==
    /\ HasDuration /\ ~timeUp
    /\ timeUp' = TRUE
    /\ UNCHANGED <<mainVars, ctlVars, maxVUs, scales, stopper, vuVars, waiter, crashed>>

\* TaskEngine.Stop: cancelFunc(), and then vuPool.StopAll() frees every slot
\* although its VU may still run.  ControlSurface.StopExecution is the first half.
StopCancel ==
    /\ stopper = "idle"
    /\ baseDone' = TRUE /\ stopper' = "pool"
    /\ UNCHANGED <<main, stopping, ctlVars, timeUp, maxVUs, scales, vuVars, waiter, crashed>>

StopPool ==
    /\ stopper = "pool"
    /\ inUse' = {} /\ stopper' = "done"
    /\ UNCHANGED <<mainVars, ctlVars, timeUp, maxVUs, scales, vu, vuCancels,
                   cancelled, wg, activeVUs, iteration, waiter, crashed>>

Start == StartVU \/ Acquire \/ LaunchVU

\* The process is gone, or the call has returned and no goroutine of it is left.
Finished ==
    /\ crashed \/ (main = "returned" /\ \A i \in VUIDs : vu[i] \in {"none", "exited"})
    /\ UNCHANGED vars

Step ==
    \/ Start \/ Controller \/ Waiter \/ Main
    \/ \E i \in VUIDs : VU(i)
    \/ \E n \in ScaleTargets : ScaleVUs(n)
    \/ DurationElapses \/ StopCancel \/ StopPool

Next == (~crashed /\ Step) \/ Finished

\* Every goroutine that can take a step takes one.  Stopping, scaling and the
\* length of the duration are up to the callers.
Fairness ==
    /\ WF_vars(~crashed /\ Start)
    /\ WF_vars(~crashed /\ Controller)
    /\ WF_vars(~crashed /\ Waiter)
    /\ WF_vars(~crashed /\ Main)
    /\ \A i \in VUIDs : WF_vars(~crashed /\ VU(i))

Spec == Init /\ [][Next]_vars /\ Fairness

-----------------------------------------------------------------------------
(* Properties.                                                              *)

TypeOK ==
    /\ main \in {"launch", "select", "stop", "cancel", "controllerDone", "vusDone", "returned"}
    /\ ctl \in {"off", "select", "compare", "scale", "done"}
    /\ waiter \in {"off", "call", "parked", "woken", "ready", "closed"}
    /\ stopper \in {"idle", "pool", "done"}
    /\ vu \in [VUIDs -> {"none", "exited"} \cup Pending]
    /\ todo \in Int /\ starting \in VUIDs \cup {NoVU}
    /\ nextVUID \in 0 .. MaxVUIDs
    /\ stopping \in BOOLEAN /\ baseDone \in BOOLEAN
    /\ timeUp \in BOOLEAN /\ crashed \in BOOLEAN
    /\ vuCancels \subseteq VUIDs /\ cancelled \subseteq VUIDs /\ inUse \subseteq VUIDs
    /\ wg \in Int /\ activeVUs \in Int
    /\ maxVUs \in Nat /\ scales \in 0 .. MaxScales
    /\ iteration \in [VUIDs -> Nat]

\* e.activeVUs, which the controller and the time series read, is at every
\* moment the number of VUs between their Add(1) and Add(-1), and the
\* WaitGroup counts the VUs startVU has reserved and that have not finished.
CountersAgree == activeVUs = Cardinality(Counted) /\ wg = Cardinality(Waited)

\* The controller's scaling never raises activeVUs above the largest number
\* anybody asked for: starts are limited to target - current although VUs
\* exit, are cancelled and restarted while the loop runs.
PeakVUs == {VUs, PoolSize} \cup ScaleTargets
NeverAbovePeak == \E p \in PeakVUs : activeVUs <= p

\* A VU that has gone leaves nothing behind in the pool or among the cancel
\* functions, whichever way it ended and however Stop interleaved with it.
NothingLeftBehind ==
    \A i \in VUIDs : vu[i] \in {"none", "exited"} => i \notin inUse /\ i \notin vuCancels

\* stopping and wg.Add(1) are under the same mutex: once stopping is set no
\* VU is started any more, not even by a controller loop half way through.
NoStartOnceStopping == [][stopping => nextVUID' = nextVUID]_vars

\* When executeConstantVUs has returned, whatever VU still runs has been
\* cancelled and nobody can start another.
ReturnIsFinal ==
    main = "returned" => /\ scheduleDone /\ stopping
                         /\ ctl = "done" /\ starting = NoVU

\* A stop (manual, or the duration) makes the call return and every VU exit, the
\* ones that outlive the return too, or the process dies of a WaitGroup panic.
StopReturns ==
    scheduleDone ~> \/ crashed
                    \/ /\ main = "returned" /\ activeVUs = 0
                       /\ \A i \in VUIDs : vu[i] \in {"none", "exited"}

\* The number of running VUs settles on the last target of ScaleVUs as long
\* as nothing stops the run, although stopOneVU may cancel the same VU
\* several times and the controller may act on a count that is out of date.
\* A target of 0 ends the run.  A run that has used up the ids of the
\* model may stay below its target.
ScalingSettles ==
    \A n \in ScaleTargets :
        (maxVUs = n /\ scales = MaxScales) ~>
            [](\/ activeVUs = n \/ scheduleDone \/ crashed
               \/ activeVUs < n /\ nextVUID = MaxVUIDs)

=============================================================================
