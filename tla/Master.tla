------------------------------- MODULE Master --------------------------------
(***************************************************************************)
(* WorkflowMaster (internal/master/master.go): how executions are admitted, *)
(* scheduled, run in the background, paused, resumed and stopped, by        *)
(* concurrent API calls and one goroutine per execution.  A local execution *)
(* has one engine (simulateExecution); a distributed one has an engine per  *)
(* assigned slave (executeTaskLocally).  What an engine does is ConstantVUs *)
(* and its siblings: here it returns Completed or Failed, or blocks.        *)
(***************************************************************************)
EXTENDS Integers, FiniteSets

CONSTANTS Executions,              \* workflows that callers submit
          Slaves,                  \* the slaves of every distributed plan
          Local,                   \* workflows whose selector has the local mode
          Standalone,              \* config.StandaloneMode
          MaxConcurrentExecutions, \* config.MaxConcurrentExecutions
          Callers                  \* bound: SubmitWorkflow calls at the same time

ASSUME ExecutionsAssumption == IsFiniteSet(Executions)
\* scheduleExecution refuses an execution for which no slave is selected, and the
\* scheduler makes one assignment per slave.
ASSUME SlavesAssumption     == Slaves # {} /\ "local" \notin Slaves
ASSUME StandaloneAssumption == Standalone \in BOOLEAN
ASSUME LimitAssumption      == MaxConcurrentExecutions \in Nat
ASSUME CallersAssumption    == Callers \in Nat \ {0}

\* useLocal of e, and where its engines run.
UseLocal(e) == Standalone \/ e \in Local
Assigned(e) == IF UseLocal(e) THEN {"local"} ELSE Slaves
Slots       == Slaves \cup {"local"}

VARIABLES
    started,        \* m.started
    stopDone,       \* stopOnce has been used
    executionCount,
    submit,         \* submit[e]: how far SubmitWorkflow of e is
    status,         \* status[e]: State.Status, "none" before e is stored
    run,            \* run[e]: how far runExecution of e is
    stopCh,         \* executions whose stopCh is closed
    ctxDone,        \* executions whose submitter's context has ended
    endTime,        \* executions with an EndTime
    work,           \* work[e][s]: the engine of e at s
    slaveState,     \* slaveState[e][s]: State.SlaveStates
    crashed         \* close of a closed channel: the process is gone

masterVars == <<started, stopDone>>
execVars   == <<status, stopCh, ctxDone, endTime>>
workVars   == <<work, slaveState>>
vars == <<masterVars, executionCount, submit, run, execVars, workVars, crashed>>

Ended    == {"Completed", "Failed", "Aborted"}
Result   == {"Completed", "Failed"}
Statuses == {"none", "Pending", "Running", "Paused"} \cup Ended
InCall   == {"checked", "stored"}
Active   == {"start", "select", "await"}

Init ==
    /\ started = FALSE /\ stopDone = FALSE /\ crashed = FALSE
    /\ executionCount = 0
    /\ submit = [e \in Executions |-> "new"]
    /\ status = [e \in Executions |-> "none"]
    /\ run = [e \in Executions |-> "none"]
    /\ stopCh = {} /\ ctxDone = {} /\ endTime = {}
    /\ work = [e \in Executions |-> [s \in Slots |-> "none"]]
    /\ slaveState = [e \in Executions |-> [s \in Slots |-> "Pending"]]

-----------------------------------------------------------------------------
(* The master itself.                                                       *)

StartMaster ==
    /\ ~started
    /\ started' = TRUE
    /\ UNCHANGED <<stopDone, executionCount, submit, run, execVars, workVars, crashed>>

\* Closes stopCh of every execution whose status is Running, without a look at
\* whether it is closed.
StopMaster ==
    /\ ~stopDone
    /\ stopDone' = TRUE /\ started' = FALSE
    /\ LET running == {e \in Executions : status[e] = "Running"} IN
         /\ stopCh' = stopCh \cup running
         /\ crashed' = (running \cap stopCh # {})
    /\ UNCHANGED <<executionCount, submit, run, status, ctxDone, endTime, workVars>>

-----------------------------------------------------------------------------
(* SubmitWorkflow of e.                                                     *)

Calls == {e \in Executions : submit[e] \in InCall}

SubmitCheck(e) ==
    /\ submit[e] = "new" /\ Cardinality(Calls) < Callers
    /\ submit' = [submit EXCEPT ![e] =
         IF started /\ executionCount < MaxConcurrentExecutions
         THEN "checked" ELSE "refused"]
    /\ UNCHANGED <<masterVars, executionCount, run, execVars, workVars, crashed>>

\* The check above and this step are not one: no lock is held in between.
SubmitStore(e) ==
    /\ submit[e] = "checked"
    /\ submit' = [submit EXCEPT ![e] = "stored"]
    /\ status' = [status EXCEPT ![e] = "Pending"]
    /\ executionCount' = executionCount + 1
    /\ UNCHANGED <<masterVars, run, stopCh, ctxDone, endTime, workVars, crashed>>

scheduleExecution(e) ==
    /\ submit[e] = "stored"
    /\ submit' = [submit EXCEPT ![e] = "returned"]
    /\ status' = [status EXCEPT ![e] = "Running"]
    /\ run' = [run EXCEPT ![e] = "start"]
    /\ UNCHANGED <<masterVars, executionCount, stopCh, ctxDone, endTime, workVars, crashed>>

\* No slave can be selected: nothing gives the place in executionCount back.  The
\* scheduler itself fails only without a workflow or slaves, both tested before.
ScheduleFails(e) ==
    /\ ~UseLocal(e) /\ submit[e] = "stored"
    /\ submit' = [submit EXCEPT ![e] = "returned"]
    /\ status' = [status EXCEPT ![e] = "Failed"]
    /\ UNCHANGED <<masterVars, executionCount, run, stopCh, ctxDone, endTime, workVars, crashed>>

-----------------------------------------------------------------------------
(* The API calls on execution e, each under execInfo.mu.                    *)

\* Nothing to do when stopCh is closed.
StopExecution(e) ==
    /\ status[e] \in {"Running", "Paused"} /\ e \notin stopCh
    /\ stopCh' = stopCh \cup {e}
    /\ UNCHANGED <<masterVars, executionCount, submit, run, status, ctxDone, endTime, workVars, crashed>>

\* Mutated form: the status is not tested.
PauseAnyStatus(e) ==
    /\ status[e] # "none"
    /\ status' = [status EXCEPT ![e] = "Paused"]
    /\ UNCHANGED <<masterVars, executionCount, submit, run, stopCh, ctxDone, endTime, workVars, crashed>>

\* pauseCh has no reader: the engines are not told.
PauseExecution(e) ==
    /\ status[e] = "Running"
    /\ status' = [status EXCEPT ![e] = "Paused"]
    /\ UNCHANGED <<masterVars, executionCount, submit, run, stopCh, ctxDone, endTime, workVars, crashed>>

ResumeExecution(e) ==
    /\ status[e] = "Paused"
    /\ status' = [status EXCEPT ![e] = "Running"]
    /\ UNCHANGED <<masterVars, executionCount, submit, run, stopCh, ctxDone, endTime, workVars, crashed>>

\* The context SubmitWorkflow was called with ends: execCtx is derived from it.
CallerLeaves(e) ==
    /\ submit[e] \in {"stored", "returned"} /\ e \notin ctxDone
    /\ ctxDone' = ctxDone \cup {e}
    /\ UNCHANGED <<masterVars, executionCount, submit, run, status, stopCh, endTime, workVars, crashed>>

\* execCtx of e is cancelled: runExecution's watcher takes stopCh over into it.
Cancelled(e) == e \in stopCh \cup ctxDone

-----------------------------------------------------------------------------
(* runExecution of e: simulateExecution or distributeExecution.             *)

At(e, from, to) == run[e] = from /\ run' = [run EXCEPT ![e] = to]

\* Sets the status to Running, whatever it has become.  The plan has assignments
\* (SlavesAssumption), so distributeExecution goes on.
RunStart(e) ==
    /\ At(e, "start", "select")
    /\ status' = [status EXCEPT ![e] = "Running"]
    /\ UNCHANGED <<masterVars, executionCount, submit, stopCh, ctxDone, endTime, workVars, crashed>>

\* The goroutine that runs the engine at s.  distributeExecution also hands the
\* task to the slave (AssignTask) and, whether that succeeds or not, runs it here.
\* For a local execution nothing touches SlaveStates, and the goroutine may get
\* going only after an abort.
Dispatch(e, s) ==
    /\ run[e] \notin {"none", "start"} /\ s \in Assigned(e) /\ work[e][s] = "none"
    /\ work' = [work EXCEPT ![e][s] = "running"]
    /\ slaveState' = [slaveState EXCEPT ![e][s] = IF UseLocal(e) THEN @ ELSE "Running"]
    /\ UNCHANGED <<masterVars, executionCount, submit, run, execVars, crashed>>

\* TaskEngine.Execute returns, with an error or a completed result.
EngineReturns(e, s) ==
    /\ work[e][s] = "running"
    /\ \E r \in Result : work' = [work EXCEPT ![e][s] = r]
    /\ UNCHANGED <<masterVars, executionCount, submit, run, execVars, slaveState, crashed>>

\* Shared iterations whose errChan is full: Execute never returns (FixedIterations).
EngineBlocks(e, s) ==
    /\ work[e][s] = "running"
    /\ work' = [work EXCEPT ![e][s] = "stuck"]
    /\ UNCHANGED <<masterVars, executionCount, submit, run, execVars, slaveState, crashed>>

\* The last thing simulateExecution and distributeExecution do.
Conclude(e, to) ==
    /\ status' = [status EXCEPT ![e] = to]
    /\ endTime' = endTime \cup {e}
    /\ UNCHANGED <<masterVars, executionCount, submit, stopCh, ctxDone, workVars, crashed>>

\* simulateExecution: a result is in resultCh or errCh.
TakeResult(e) ==
    /\ UseLocal(e) /\ At(e, "select", "ended")
    /\ work[e]["local"] \in Result
    /\ Conclude(e, work[e]["local"])

\* simulateExecution: stopCh or the context; then the engine's end is awaited.
SeeStop(e) ==
    /\ UseLocal(e) /\ At(e, "select", "await")
    /\ Cancelled(e)
    /\ UNCHANGED <<masterVars, executionCount, submit, execVars, workVars, crashed>>

\* Mutated form: the loop goes on after an abort.
AbortNoReturn(e) ==
    /\ At(e, "await", "select")
    /\ Conclude(e, "Aborted")

\* The engine has returned, or ten seconds have passed and it runs on.
Abort(e) ==
    /\ At(e, "await", "ended")
    /\ Conclude(e, "Aborted")

\* distributeExecution: one result from resultsCh.
Collect(e, s) ==
    /\ ~UseLocal(e) /\ run[e] = "select" /\ s \in Assigned(e)
    /\ work[e][s] \in Result /\ slaveState[e][s] = "Running"
    /\ slaveState' = [slaveState EXCEPT ![e][s] = work[e][s]]
    /\ UNCHANGED <<masterVars, executionCount, submit, run, execVars, work, crashed>>

\* Mutated form: one result is enough.
FinishEarly(e) ==
    /\ ~UseLocal(e) /\ At(e, "select", "ended")
    /\ \E s \in Assigned(e) : slaveState[e][s] \in Result
    /\ Conclude(e, IF \E s \in Assigned(e) : slaveState[e][s] = "Failed" THEN "Failed"
                   ELSE "Completed")

\* resultsCh is closed: all results are in.
Finish(e) ==
    /\ ~UseLocal(e) /\ At(e, "select", "ended")
    /\ \A s \in Assigned(e) : slaveState[e][s] \in Result
    /\ Conclude(e, IF \E s \in Assigned(e) : slaveState[e][s] = "Failed" THEN "Failed"
                   ELSE "Completed")

\* Mutated form: an aborted execution does not give its place back.
UncountNotAborted(e) ==
    /\ At(e, "ended", "done")
    /\ executionCount' = IF status[e] = "Aborted" THEN executionCount ELSE executionCount - 1
    /\ UNCHANGED <<masterVars, submit, execVars, workVars, crashed>>

\* The deferred executionCount.Add(-1).
Uncount(e) ==
    /\ At(e, "ended", "done")
    /\ executionCount' = executionCount - 1
    /\ UNCHANGED <<masterVars, submit, execVars, workVars, crashed>>

-----------------------------------------------------------------------------

Submit(e) == SubmitCheck(e) \/ SubmitStore(e) \/ scheduleExecution(e) \/ ScheduleFails(e)

Control(e) == StopExecution(e) \/ PauseExecution(e) \/ ResumeExecution(e) \/ CallerLeaves(e)

runExecution(e) ==
    \/ RunStart(e) \/ TakeResult(e) \/ SeeStop(e) \/ Abort(e) \/ Finish(e) \/ Uncount(e)
    \/ \E s \in Slots : Dispatch(e, s) \/ Collect(e, s)

Step ==
    \/ StartMaster \/ StopMaster
    \/ \E e \in Executions :
         \/ Submit(e) \/ Control(e) \/ runExecution(e)
         \/ \E s \in Slots : EngineReturns(e, s) \/ EngineBlocks(e, s)

\* Nothing is left to submit or to run.
Quiet ==
    /\ crashed \/ \A e \in Executions : submit[e] \in {"returned", "refused"}
    /\ UNCHANGED vars

Next == (~crashed /\ Step) \/ Quiet

\* Calls and background goroutines go on; an engine whose context is cancelled
\* returns unless it is stuck (ConstantVUs, StagedModes, FixedIterations).  Nobody
\* has to start, stop or submit.
Fairness ==
    \A e \in Executions :
      /\ WF_vars(~crashed /\ runExecution(e))
      /\ WF_vars(~crashed /\ submit[e] \in InCall /\ Submit(e))
      /\ \A s \in Slots : WF_vars(~crashed /\ Cancelled(e) /\ EngineReturns(e, s))

Spec == Init /\ [][Next]_vars /\ Fairness

-----------------------------------------------------------------------------
(* Properties.                                                              *)

TypeOK ==
    /\ started \in BOOLEAN /\ stopDone \in BOOLEAN /\ crashed \in BOOLEAN
    /\ executionCount \in Nat
    /\ submit \in [Executions -> {"new", "refused", "returned"} \cup InCall]
    /\ status \in [Executions -> Statuses]
    /\ run \in [Executions -> {"none", "ended", "done"} \cup Active]
    /\ stopCh \subseteq Executions /\ ctxDone \subseteq Executions /\ endTime \subseteq Executions
    /\ work \in [Executions -> [Slots -> {"none", "running", "stuck"} \cup Result]]
    /\ slaveState \in [Executions -> [Slots -> {"Pending", "Running"} \cup Result]]

\* However the calls of SubmitWorkflow interleave, the limit is exceeded by less
\* than the number of calls made at the same time, also counting those that have
\* passed the check and not yet stored their execution.
Overshoot ==
    executionCount + Cardinality({e \in Executions : submit[e] = "checked"})
        <= MaxConcurrentExecutions + Callers - 1

\* Every execution that runs in the background has its place in executionCount.
RunningCounted ==
    Cardinality({e \in Executions : run[e] \in Active \cup {"ended"}}) <= executionCount

\* What the manual says of -max-executions and the refusal in SubmitWorkflow of
\* MaxConcurrentExecutions: no more executions than that have a running engine.
\* The code does not keep it: the test of executionCount and its increment are two
\* steps, and the engine of an abort that gave up after ten seconds is not counted.
MaxConcurrentHeld ==
    Cardinality({e \in Executions : \E s \in Slots : work[e][s] \in {"running", "stuck"}})
        <= MaxConcurrentExecutions

\* executionCount is the executions between their store and the end of their
\* runExecution, plus, for good, those whose scheduling failed: every way a run
\* can end gives back one place, and none gives back two.
PlacesAccounted ==
    executionCount =
        Cardinality({e \in Executions : submit[e] = "stored"})
      + Cardinality({e \in Executions : run[e] \in Active \cup {"ended"}})
      + Cardinality({e \in Executions : submit[e] = "returned" /\ run[e] = "none"})

\* An execution with an end time has one of the final states, whatever pause,
\* resume or stop came in between.
EndTimeIsFinal == \A e \in endTime : status[e] \in Ended

\* A distributed execution is Completed only when every slave's part is.
CompletedMeansAll ==
    \A e \in Executions : ~UseLocal(e) /\ status[e] = "Completed" =>
        \A s \in Slaves : slaveState[e][s] = "Completed"

\* No call and no late result changes a final status.
FinalStatusIsFinal ==
    [][\A e \in Executions : status[e] \in Ended => status'[e] = status[e]]_vars

\* An execution whose stopCh is closed, by StopExecution or by Stop, or whose
\* submitter's context has ended, ends: a local one in any case, through the ten
\* second give-up when its engine is stuck; a distributed one, which waits for all
\* its results, unless an engine is stuck.
StopEnds ==
    \A e \in Executions : Cancelled(e) /\ run[e] # "none" ~>
        \/ run[e] = "done" \/ crashed
        \/ ~UseLocal(e) /\ \E s \in Slaves : work[e][s] = "stuck"
=============================================================================
