----------------------------- MODULE StagedModes -----------------------------
(***************************************************************************)
(* The modes whose number of VUs follows stages or the demand:              *)
(* executeRampingVUs (task_engine.go), and the two arrival-rate modes the    *)
(* task engine runs from internal/execution, where a generator puts work     *)
(* into a bounded channel, VUs take it out, and a full channel makes the     *)
(* generator start one VU more.  A stage's progress is a choice of its next  *)
(* point between the last one and its target.                                *)
(***************************************************************************)
EXTENDS Integers, Sequences, FiniteSets

CONSTANTS
    MaxVUs,        \* size of the pool, or ModeConfig.MaxVUs
    Limits,        \* what e.maxVUs may be when a stage starts: ScaleVUs changes it
    PreAllocated,  \* ModeConfig.PreAllocatedVUs
    Stages,        \* the targets of the stages
    MaxStarts,     \* bound: VU goroutines ever started
    MaxTicks       \* bound: ticks of the generator or of the ramp

ASSUME SizeAssumption  == MaxVUs \in Nat \ {0} /\ PreAllocated \in Nat /\ PreAllocated <= MaxStarts
ASSUME LimitAssumption == Limits \subseteq Nat /\ MaxVUs \in Limits
ASSUME StageAssumption == Stages \in Seq(Nat) /\ Len(Stages) > 0
ASSUME BoundAssumption == MaxStarts \in Nat /\ MaxTicks \in Nat

Modes == {"ramping-vus", "constant-arrival-rate", "ramping-arrival-rate"}
QueueCap == 2 * MaxVUs
Starts == 1 .. MaxStarts

VARIABLES
    mode,
    timed,     \* the constant rate has a duration
    main,      \* where the call is
    stage, at, \* the stage, and the number of VUs the ramp has last aimed at
    target,    \* targetVUs of the ramp's stage
    index,     \* of the loop that starts VUs
    ticks,
    ctxDone, stopped,  \* the caller's context; TaskEngine.Stop
    overtime,  \* the duration is over: execCtx is done
    vu,        \* the goroutines: id and place
    vuCtxs,    \* vuCtxs[i]: the goroutine whose cancel function is in the map, 0: none
    cancelled, \* goroutines whose own context is cancelled
    inUse, wg,
    activeVUs, \* e.activeVUs
    work       \* what is in workCh

mainVars == <<mode, timed, target, main, stage, at, index, ticks>>
ctxVars  == <<ctxDone, stopped, overtime>>
vuVars   == <<vu, vuCtxs, cancelled, inUse, wg, activeVUs>>
vars == <<mainVars, ctxVars, vuVars, work>>

IDs == 0 .. (MaxVUs - 1)
Ramping == mode = "ramping-vus"
Registered == {i \in IDs : vuCtxs[i] # 0}
ScheduleDone == ctxDone \/ overtime

\* The target of a stage, cut to the limit at its start; the pool keeps its size.
Targets(s) == IF s <= Len(Stages) THEN {IF Stages[s] > m THEN m ELSE Stages[s] : m \in Limits} ELSE {0}

Init ==
    /\ mode \in Modes /\ timed \in {FALSE, mode = "constant-arrival-rate"}
    /\ main = IF Ramping THEN "stage" ELSE "start"
    /\ target \in IF Ramping THEN Targets(1) ELSE {0}
    /\ stage = 1 /\ at = 0 /\ index = 0 /\ ticks = 0
    /\ ctxDone = FALSE /\ stopped = FALSE /\ overtime = FALSE
    /\ vu = [g \in Starts |-> [id |-> 0, pc |-> "none"]]
    /\ vuCtxs = [i \in IDs |-> 0] /\ cancelled = {}
    /\ inUse = {} /\ wg = 0 /\ activeVUs = 0 /\ work = 0

-----------------------------------------------------------------------------
(* Starting a VU.                                                            *)

Fresh == {g \in Starts : vu[g].pc = "none"}

Launch(i) ==
    \E g \in Fresh :
        /\ \A h \in Fresh : g <= h
        /\ vu' = [vu EXCEPT ![g] = [id |-> i, pc |-> "loop"]]
        /\ vuCtxs' = [vuCtxs EXCEPT ![i] = g]
        /\ wg' = wg + 1 /\ activeVUs' = activeVUs + 1

\* startVULocked, with OnVUStart.
StartVULocked(i) ==
    /\ IF i < MaxVUs /\ i \notin Registered THEN Launch(i) ELSE UNCHANGED <<vu, vuCtxs, wg, activeVUs>>
    /\ UNCHANGED <<cancelled, inUse>>

\* Mutated form: the pool hands out a VU that is still in use.
AcquireAny(i) == i < MaxVUs

\* vuPool.Acquire gives nil for an id that is in use.
Acquire(i) == i < MaxVUs /\ i \notin inUse

\* One round of the loop that scales up; an id the pool refuses is skipped.
StartRampVU(i) ==
    /\ IF Acquire(i) THEN Launch(i) /\ inUse' = inUse \cup {i}
                     ELSE UNCHANGED <<vu, vuCtxs, wg, activeVUs, inUse>>
    /\ UNCHANGED cancelled

-----------------------------------------------------------------------------
(* executeRampingVUs.                                                        *)

\* Where the ramp may be at its next tick: it gets to its target only when it
\* starts from it.
Points == IF at < target THEN at .. (target - 1)
          ELSE IF at > target THEN (target + 1) .. at
          ELSE {at}

RampTick ==
    /\ Ramping /\ main = "stage" /\ stage <= Len(Stages)
    /\ ticks < MaxTicks /\ Cardinality(Fresh) >= MaxVUs
    /\ ticks' = ticks + 1
    /\ at' \in Points
    /\ main' = "up" /\ index' = Cardinality(Registered)
    /\ UNCHANGED <<mode, timed, target, stage, ctxVars, vuVars, work>>

ScaleUp ==
    /\ main = "up" /\ index < at
    /\ StartRampVU(index)
    /\ index' = index + 1
    /\ UNCHANGED <<mode, timed, target, main, stage, at, ticks, ctxVars, work>>

\* From len(vuCtxs) - 1 down to the point: an id that is not in the map is passed over.
ScaleDown ==
    /\ main = "up" /\ index >= at
    /\ LET gone == {i \in Registered : at <= i /\ i < Cardinality(Registered)} IN
       /\ cancelled' = cancelled \cup {vuCtxs[i] : i \in gone}
       /\ vuCtxs' = [i \in IDs |-> IF i \in gone THEN 0 ELSE vuCtxs[i]]
    /\ main' = "stage"
    /\ UNCHANGED <<mode, timed, target, stage, at, index, ticks, ctxVars, vu, inUse, wg, activeVUs, work>>

\* The stage's time is over, or the context is done; the next starts from its target.
StageEnds ==
    /\ main = IF Ramping THEN "stage" ELSE "generate"
    /\ mode # "constant-arrival-rate" /\ stage <= Len(Stages)
    /\ stage' = stage + 1
    /\ at' = IF Ramping THEN target ELSE at
    /\ target' \in IF Ramping THEN Targets(stage + 1) ELSE {target}
    /\ UNCHANGED <<mode, timed, main, index, ticks, ctxVars, vuVars, work>>

-----------------------------------------------------------------------------
(* The arrival-rate modes.                                                   *)

\* The VUs that are allocated before the first tick.
PreAllocate ==
    /\ main = "start"
    /\ IF index < PreAllocated
       THEN StartVULocked(index) /\ index' = index + 1 /\ UNCHANGED main
       ELSE UNCHANGED <<index, vuVars>> /\ main' = "generate"
    /\ UNCHANGED <<mode, timed, target, stage, at, ticks, ctxVars, work>>

Queue == work' = work + 1

\* A tick of runRateGenerator, or one of the iterations a tick of executeStage generates.
Generate ==
    /\ main = "generate" /\ ticks < MaxTicks /\ Fresh # {}
    /\ mode = "ramping-arrival-rate" => stage <= Len(Stages)
    /\ ticks' = ticks + 1
    /\ IF work < QueueCap THEN Queue /\ UNCHANGED main
                          ELSE main' = "grow" /\ UNCHANGED work
    /\ UNCHANGED <<mode, timed, target, stage, at, index, ctxVars, vuVars>>

\* The queue is full.
Grow ==
    /\ main = "grow"
    /\ StartVULocked(Cardinality(Registered))
    /\ main' = "again"
    /\ UNCHANGED <<mode, timed, target, stage, at, index, ticks, ctxVars, work>>

\* Still full: this iteration is dropped.
TryAgain ==
    /\ main = "again"
    /\ IF work < QueueCap THEN Queue ELSE UNCHANGED work
    /\ main' = "generate"
    /\ UNCHANGED <<mode, timed, target, stage, at, index, ticks, ctxVars, vuVars>>

-----------------------------------------------------------------------------
(* The end of the call.                                                      *)

\* The schedule is over: all stages, the duration or the context.
ScheduleEnds ==
    /\ main = IF Ramping THEN "stage" ELSE "generate"
    /\ IF mode = "constant-arrival-rate" THEN ScheduleDone
       ELSE stage > Len(Stages) \/ (mode = "ramping-arrival-rate" /\ ctxDone)
    /\ main' = "stop"
    /\ UNCHANGED <<mode, timed, target, stage, at, index, ticks, ctxVars, vuVars, work>>

\* Mutated form: nobody cancels the VUs that are left.
StopNobody ==
    /\ main = "stop"
    /\ main' = "wait"
    /\ UNCHANGED <<mode, timed, target, stage, at, index, ticks, ctxVars, vuVars, work>>

\* stopAllVUs.
StopAllVUs ==
    /\ main = "stop"
    /\ cancelled' = cancelled \cup {vuCtxs[i] : i \in Registered}
    /\ main' = "wait"
    /\ UNCHANGED <<mode, timed, target, stage, at, index, ticks, ctxVars, vu, vuCtxs, inUse, wg, activeVUs, work>>

\* Mutated form: the return for a done context is made without wg.Wait().
ReturnEarly ==
    /\ main = "wait" /\ (ctxDone \/ wg = 0)
    /\ main' = "returned"
    /\ UNCHANGED <<mode, timed, target, stage, at, index, ticks, ctxVars, vuVars, work>>

Return ==
    /\ main = "wait" /\ wg = 0
    /\ main' = "returned"
    /\ UNCHANGED <<mode, timed, target, stage, at, index, ticks, ctxVars, vuVars, work>>

-----------------------------------------------------------------------------
(* The goroutine of a VU.                                                    *)

Move(g, from, to) == vu[g].pc = from /\ vu' = [vu EXCEPT ![g].pc = to]

VUDone(g) == g \in cancelled \/ ScheduleDone

Leave(g) ==
    /\ VUDone(g)
    /\ Move(g, "loop", IF Ramping THEN "release" ELSE "done")
    /\ UNCHANGED <<mainVars, ctxVars, vuCtxs, cancelled, inUse, wg, activeVUs, work>>

\* The head of the task engine's runVU, which tests the context first, or work that
\* the mode's runVU finds in the channel, maybe although its context is done.
StartIteration(g) ==
    /\ IF Ramping THEN ~VUDone(g) /\ UNCHANGED work
                  ELSE work > 0 /\ work' = work - 1
    /\ Move(g, "loop", "iter")
    /\ UNCHANGED <<mainVars, ctxVars, vuCtxs, cancelled, inUse, wg, activeVUs>>

\* A panic outside a step, or an error once the context is done, ends a VU of the
\* ramp; in the other modes nothing recovers such a panic, and the process ends.
EndIteration(g) ==
    /\ \/ Move(g, "iter", "loop")
       \/ Ramping /\ Move(g, "iter", "release")
    /\ UNCHANGED <<mainVars, ctxVars, vuCtxs, cancelled, inUse, wg, activeVUs, work>>

Release(g) ==
    /\ Move(g, "release", "uncount")
    /\ inUse' = inUse \ {vu[g].id}
    /\ UNCHANGED <<mainVars, ctxVars, vuCtxs, cancelled, wg, activeVUs, work>>

\* e.activeVUs.Add(-1), deferred or in OnVUStop.
Uncount(g) ==
    /\ Move(g, "uncount", IF Ramping THEN "done" ELSE "exited")
    /\ activeVUs' = activeVUs - 1
    /\ UNCHANGED <<mainVars, ctxVars, vuCtxs, cancelled, inUse, wg, work>>

\* wg.Done(): the last deferred call of the ramp, the first of the other modes.
WgDone(g) ==
    /\ Move(g, "done", IF Ramping THEN "exited" ELSE "delete")
    /\ wg' = wg - 1
    /\ UNCHANGED <<mainVars, ctxVars, vuCtxs, cancelled, inUse, activeVUs, work>>

Delete(g) ==
    /\ Move(g, "delete", "uncount")
    /\ vuCtxs' = [vuCtxs EXCEPT ![vu[g].id] = 0]
    /\ UNCHANGED <<mainVars, ctxVars, cancelled, inUse, wg, activeVUs, work>>

VU(g) ==
    \/ Leave(g) \/ StartIteration(g) \/ EndIteration(g)
    \/ Release(g) \/ Uncount(g) \/ WgDone(g) \/ Delete(g)

-----------------------------------------------------------------------------
(* The environment.                                                          *)

Cancel ==
    /\ ~ctxDone /\ ctxDone' = TRUE
    /\ UNCHANGED <<mainVars, stopped, overtime, vuVars, work>>

\* TaskEngine.Stop cancels the context and marks every VU of the pool as free.
Stop ==
    /\ ~stopped /\ stopped' = TRUE /\ ctxDone' = TRUE
    /\ inUse' = {}
    /\ UNCHANGED <<mainVars, overtime, vu, vuCtxs, cancelled, wg, activeVUs, work>>

DurationOver ==
    /\ timed /\ ~overtime /\ overtime' = TRUE
    /\ UNCHANGED <<mainVars, ctxDone, stopped, vuVars, work>>

Finished == main = "returned" /\ UNCHANGED vars

Tick == RampTick \/ Generate
Main == ScaleUp \/ ScaleDown \/ StageEnds \/ PreAllocate \/ Grow \/ TryAgain
        \/ ScheduleEnds \/ StopAllVUs \/ Return

Next == Tick \/ Main \/ (\E g \in Starts : VU(g))
        \/ Cancel \/ Stop \/ DurationOver \/ Finished

\* Goroutines go on, iterations end, and time passes.  A select whose context is
\* done takes that case at last, although a tick or work may be ready as well:
\* the model has finitely many of both.
Fairness ==
    /\ WF_vars(Main) /\ WF_vars(DurationOver)
    /\ \A g \in Starts : WF_vars(VU(g))

Spec == Init /\ [][Next]_vars /\ Fairness

-----------------------------------------------------------------------------
(* Properties.                                                               *)

TypeOK ==
    /\ mode \in Modes /\ timed \in BOOLEAN
    /\ main \in {"start", "stage", "up", "generate", "grow", "again", "stop", "wait", "returned"}
    /\ stage \in 1 .. (Len(Stages) + 1) /\ at \in Nat /\ target \in Nat /\ index \in Nat /\ ticks \in 0 .. MaxTicks
    /\ ctxDone \in BOOLEAN /\ stopped \in BOOLEAN /\ overtime \in BOOLEAN
    /\ vu \in [Starts -> [id : IDs, pc : {"none", "loop", "iter", "release", "uncount", "done", "delete", "exited"}]]
    /\ vuCtxs \in [IDs -> {0} \cup Starts] /\ cancelled \subseteq Starts
    /\ inUse \subseteq IDs /\ wg \in Int /\ activeVUs \in Int /\ work \in 0 .. QueueCap

Working(g) == vu[g].pc \in {"loop", "iter"}

\* Two goroutines never run iterations under one VU id, although an id is given
\* again while the goroutine that had it last is still ending, until Stop has
\* marked the VUs of the pool as free.
OneVUPerId ==
    ~stopped => \A g, h \in Starts : Working(g) /\ Working(h) /\ vu[g].id = vu[h].id => g = h

\* When the call returns no VU is left that could run an iteration, and of the
\* ramp nothing is left at all; the other modes may still be counting down.
ReturnsAlone ==
    main = "returned" =>
        /\ \A g \in Starts : vu[g].pc \in {"none", "exited"} \cup (IF Ramping THEN {} ELSE {"delete", "uncount"})
        /\ Ramping => activeVUs = 0

\* When the schedule is over or the context done the call returns, and the number
\* of active VUs the slave reports goes back to 0.
Settles == ctxDone \/ main = "stop" ~> main = "returned" /\ activeVUs = 0
=============================================================================
