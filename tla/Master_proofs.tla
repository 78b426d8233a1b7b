---------------------------- MODULE Master_proofs ----------------------------
(***************************************************************************)
(* Proofs about Master for any executions, slaves, limit and number of      *)
(* concurrent calls.  IInv ties the three records of an execution together: *)
(* how far its submission is, how far its background goroutine is and the   *)
(* status the API shows; and it says which executions executionCount holds. *)
(***************************************************************************)
EXTENDS Master, FiniteSetTheorems, TLAPS

\* The submission, the goroutine and the status of an execution agree.
Sync ==
    \A e \in Executions :
      /\ submit[e] \in {"new", "checked", "refused"} => status[e] = "none"
      /\ submit[e] = "stored" => status[e] = "Pending"
      /\ submit[e] = "returned" => status[e] \notin {"none", "Pending"}
      /\ run[e] # "none" => submit[e] = "returned"
      /\ run[e] \in Active <=> status[e] \in {"Running", "Paused"}
      /\ e \in endTime => run[e] \in {"ended", "done"}

\* The executions that hold a place: stored and not given back.
Held == {e \in Executions : submit[e] \in {"stored", "returned"} /\ run[e] # "done"}
Checked == {e \in Executions : submit[e] = "checked"}

Counted == executionCount = Cardinality(Held)

\* A part whose result is in has been run.
Worked == \A e \in Executions, s \in Slots : slaveState[e][s] \in Result => work[e][s] # "none"

IInv == TypeOK /\ Sync /\ Counted /\ Worked

\* Subsets of Executions are finite and have a size.
LEMMA Sizes == \A S : S \subseteq Executions => IsFiniteSet(S) /\ Cardinality(S) \in Nat
BY ExecutionsAssumption, FS_Subset, FS_CardinalityType

-----------------------------------------------------------------------------

\* The types, but for executionCount, and the agreement of the records.
LEMMA SyncStep ==
    ASSUME TypeOK, Sync, Counted, [Next]_vars, executionCount' \in Nat
    PROVE  TypeOK' /\ Sync'
<1> USE DEF TypeOK, Sync, InCall, Active, Statuses, Ended, Result,
            masterVars, execVars, workVars, vars
<1>1. CASE UNCHANGED vars BY <1>1
<1>2. CASE StartMaster BY <1>2 DEF StartMaster
<1>3. CASE StopMaster BY <1>3 DEF StopMaster
<1>4. ASSUME NEW e \in Executions, Submit(e) PROVE TypeOK' /\ Sync'
  <2>1. CASE SubmitCheck(e) BY <2>1 DEF SubmitCheck
  <2>2. CASE SubmitStore(e) BY <2>2 DEF SubmitStore
  <2>3. CASE scheduleExecution(e) BY <2>3 DEF scheduleExecution
  <2>4. CASE ScheduleFails(e) BY <2>4 DEF ScheduleFails
  <2> QED BY <1>4, <2>1, <2>2, <2>3, <2>4 DEF Submit
<1>5. ASSUME NEW e \in Executions, Control(e) PROVE TypeOK' /\ Sync'
  <2>1. CASE StopExecution(e) BY <2>1 DEF StopExecution
  <2>2. CASE PauseExecution(e) BY <2>2 DEF PauseExecution
  <2>3. CASE ResumeExecution(e) BY <2>3 DEF ResumeExecution
  <2>4. CASE CallerLeaves(e) BY <2>4 DEF CallerLeaves
  <2> QED BY <1>5, <2>1, <2>2, <2>3, <2>4 DEF Control
<1>6. ASSUME NEW e \in Executions, runExecution(e) PROVE TypeOK' /\ Sync'
  <2>1. CASE RunStart(e) BY <2>1 DEF RunStart, At
  <2>2. CASE TakeResult(e) BY <2>2 DEF TakeResult, At, Conclude
  <2>3. CASE SeeStop(e) BY <2>3 DEF SeeStop, At
  <2>4. CASE Abort(e) BY <2>4 DEF Abort, At, Conclude
  <2>5. CASE Finish(e) BY <2>5 DEF Finish, At, Conclude
  <2>6. CASE Uncount(e) BY <2>6 DEF Uncount, At
  <2>7. ASSUME NEW s \in Slots, Dispatch(e, s) PROVE TypeOK' /\ Sync'
    BY <2>7 DEF Dispatch
  <2>8. ASSUME NEW s \in Slots, Collect(e, s) PROVE TypeOK' /\ Sync'
    BY <2>8 DEF Collect
  <2> QED BY <1>6, <2>1, <2>2, <2>3, <2>4, <2>5, <2>6, <2>7, <2>8 DEF runExecution
<1>7. ASSUME NEW e \in Executions, NEW s \in Slots, EngineReturns(e, s) \/ EngineBlocks(e, s)
      PROVE  TypeOK' /\ Sync'
  <2>1. PICK r \in {"stuck"} \cup Result : work' = [work EXCEPT ![e][s] = r]
    BY <1>7 DEF EngineReturns, EngineBlocks
  <2>2. work' \in [Executions -> [Slots -> {"none", "running", "stuck"} \cup Result]] BY <2>1
  <2>3. UNCHANGED <<masterVars, submit, run, execVars, slaveState, crashed>>
    BY <1>7 DEF EngineReturns, EngineBlocks
  <2> QED BY <2>2, <2>3
<1> QED BY <1>1, <1>2, <1>3, <1>4, <1>5, <1>6, <1>7 DEF Next, Step, Quiet

\* What a step does to executionCount and to the executions that hold a place.
LEMMA CountStep ==
    ASSUME TypeOK, Sync, Counted, [Next]_vars
    PROVE  executionCount' \in Nat /\ Counted'
<1>0. Held \subseteq Executions /\ IsFiniteSet(Held) /\ Cardinality(Held) \in Nat
  BY Sizes DEF Held
<1>1. ASSUME NEW e \in Executions, SubmitStore(e)
      PROVE  executionCount' \in Nat /\ Counted'
  <2>1. Held' = Held \cup {e} /\ e \notin Held
    BY <1>1 DEF SubmitStore, Held, TypeOK, Sync
  <2>2. Cardinality(Held') = Cardinality(Held) + 1
    BY <2>1, <1>0, FS_AddElement
  <2> QED BY <2>2, <1>0, <1>1 DEF SubmitStore, Counted
<1>2. ASSUME NEW e \in Executions, Uncount(e)
      PROVE  executionCount' \in Nat /\ Counted'
  <2>1. Held' = Held \ {e} /\ e \in Held
    BY <1>2 DEF Uncount, At, Held, TypeOK, Sync
  <2>2. Cardinality(Held') = Cardinality(Held) - 1
    BY <2>1, <1>0, FS_RemoveElement
  <2>3. Cardinality(Held') \in Nat
    BY Sizes DEF Held
  <2> QED BY <2>2, <2>3, <1>0, <1>2 DEF Uncount, Counted
<1>3. ASSUME executionCount' = executionCount, Held' = Held
      PROVE  executionCount' \in Nat /\ Counted'
  BY <1>3, <1>0 DEF Counted
<1> USE DEF TypeOK, Held, InCall, Active, masterVars, execVars, workVars, vars
<1>4. CASE UNCHANGED vars BY <1>3, <1>4
<1>5. CASE StartMaster BY <1>3, <1>5 DEF StartMaster
<1>6. CASE StopMaster BY <1>3, <1>6 DEF StopMaster
<1>7. ASSUME NEW e \in Executions, Submit(e), ~SubmitStore(e)
      PROVE  executionCount' = executionCount /\ Held' = Held
  BY <1>7 DEF Submit, SubmitCheck, scheduleExecution, ScheduleFails, Sync
<1>8. ASSUME NEW e \in Executions, Control(e)
      PROVE  executionCount' = executionCount /\ Held' = Held
  BY <1>8 DEF Control, StopExecution, PauseExecution, ResumeExecution, CallerLeaves
<1>9. ASSUME NEW e \in Executions, runExecution(e), ~Uncount(e)
      PROVE  executionCount' = executionCount /\ Held' = Held
  BY <1>9 DEF runExecution, RunStart, TakeResult, SeeStop, Abort, Finish,
              Dispatch, Collect, At, Conclude
<1>10. ASSUME NEW e \in Executions, NEW s \in Slots, EngineReturns(e, s) \/ EngineBlocks(e, s)
       PROVE  executionCount' = executionCount /\ Held' = Held
  BY <1>10 DEF EngineReturns, EngineBlocks
<1> HIDE DEF TypeOK, Held
<1> QED BY <1>1, <1>2, <1>3, <1>4, <1>5, <1>6, <1>7, <1>8, <1>9, <1>10
        DEF Next, Step, Quiet

\* Results come from engines that were run, and none goes back to not run.
LEMMA WorkedStep ==
    ASSUME TypeOK, Worked, [Next]_vars
    PROVE  Worked'
<1> USE DEF Worked, masterVars, execVars, workVars
<1> /\ work \in [Executions -> [Slots -> {"none", "running", "stuck"} \cup Result]]
    /\ slaveState \in [Executions -> [Slots -> {"Pending", "Running"} \cup Result]]
    BY DEF TypeOK
<1>1. CASE UNCHANGED workVars BY <1>1
<1>2. ASSUME NEW e \in Executions, NEW s \in Slots, Dispatch(e, s) PROVE Worked'
  BY <1>2 DEF Dispatch, Result
<1>3. ASSUME NEW e \in Executions, NEW s \in Slots, Collect(e, s) PROVE Worked'
  BY <1>3 DEF Collect, Result
<1>4. ASSUME NEW e \in Executions, NEW s \in Slots, EngineReturns(e, s) \/ EngineBlocks(e, s)
      PROVE  Worked'
  BY <1>4 DEF EngineReturns, EngineBlocks, Result
<1>5. ASSUME NEW e \in Executions, runExecution(e) PROVE Worked'
  <2>1. CASE UNCHANGED workVars BY <1>1, <2>1
  <2>2. CASE \E s \in Slots : Dispatch(e, s) \/ Collect(e, s) BY <1>2, <1>3, <2>2
  <2> QED BY <1>5, <2>1, <2>2 DEF runExecution, RunStart, TakeResult, SeeStop, Abort, Finish,
                                  Uncount, Conclude
<1>6. ASSUME NEW e \in Executions, Submit(e) \/ Control(e) PROVE UNCHANGED workVars
  BY <1>6 DEF Submit, SubmitCheck, SubmitStore, scheduleExecution, ScheduleFails,
     Control, StopExecution, PauseExecution, ResumeExecution, CallerLeaves
<1>7. CASE StartMaster \/ StopMaster BY <1>1, <1>7 DEF StartMaster, StopMaster
<1>8. CASE UNCHANGED vars BY <1>1, <1>8 DEF vars
<1> HIDE DEF Worked
<1> QED BY <1>1, <1>4, <1>5, <1>6, <1>7, <1>8 DEF Next, Step, Quiet

\* The inductive invariant.
THEOREM Inductive == Spec => []IInv
<1>1. Init => IInv
  <2> SUFFICES ASSUME Init PROVE IInv
      OBVIOUS
  <2>1. Held = {} BY DEF Init, Held
  <2>2. Counted BY <2>1, FS_EmptySet DEF Init, Counted
  <2>3. TypeOK /\ Sync /\ Worked
    BY DEF Init, TypeOK, Sync, Worked, InCall, Active, Statuses, Ended, Result
  <2> QED BY <2>2, <2>3 DEF IInv
<1>2. IInv /\ [Next]_vars => IInv'
  BY SyncStep, CountStep, WorkedStep DEF IInv
<1> QED BY <1>1, <1>2, PTL DEF Spec

-----------------------------------------------------------------------------

\* The state of the master has its type: executionCount never goes below 0,
\* although every execution that ends takes one away.
THEOREM TypeCorrect == Spec => []TypeOK
BY Inductive, PTL DEF IInv

\* An execution with an end time has a final status.
THEOREM EndTimeTheorem == Spec => []EndTimeIsFinal
<1>1. IInv => EndTimeIsFinal
  BY DEF IInv, TypeOK, Sync, EndTimeIsFinal, Active, Ended, Statuses
<1> QED BY <1>1, Inductive, PTL

\* Every execution that runs has its place in executionCount.
THEOREM RunningCountedTheorem == Spec => []RunningCounted
<1>1. IInv => RunningCounted
  <2> SUFFICES ASSUME IInv PROVE RunningCounted
      OBVIOUS
  <2> DEFINE R == {e \in Executions : run[e] \in Active \cup {"ended"}}
  <2>1. R \subseteq Held BY DEF IInv, Sync, Held, Active
  <2>2. IsFiniteSet(Held) BY Sizes DEF Held
  <2>3. Cardinality(R) <= Cardinality(Held) BY <2>1, <2>2, FS_Subset
  <2> QED BY <2>3 DEF IInv, Counted, RunningCounted
<1> QED BY <1>1, Inductive, PTL

\* executionCount is exact: the places are those of submissions between store and
\* schedule, of running executions, and of the ones whose scheduling failed.
THEOREM PlacesTheorem == Spec => []PlacesAccounted
<1>1. IInv => PlacesAccounted
  <2> SUFFICES ASSUME IInv PROVE PlacesAccounted
      OBVIOUS
  <2> DEFINE A == {e \in Executions : submit[e] = "stored"}
             R == {e \in Executions : run[e] \in Active \cup {"ended"}}
             F == {e \in Executions : submit[e] = "returned" /\ run[e] = "none"}
  <2>1. Held = (A \cup R) \cup F /\ A \cap R = {} /\ (A \cup R) \cap F = {}
    BY DEF IInv, TypeOK, Sync, Held, Active
  <2>2. /\ IsFiniteSet(A) /\ Cardinality(A) \in Nat /\ IsFiniteSet(R) /\ Cardinality(R) \in Nat
        /\ IsFiniteSet(F) /\ Cardinality(F) \in Nat /\ IsFiniteSet(A \cup R)
    <3>1. A \subseteq Executions /\ R \subseteq Executions /\ F \subseteq Executions
      OBVIOUS
    <3>2. A \cup R \subseteq Executions BY <3>1
    <3> HIDE DEF A, R, F
    <3> QED BY <3>1, <3>2, Sizes
  <2>a. Counted BY DEF IInv
  <2> HIDE DEF A, R, F
  <2>3. Cardinality(A \cup R) = Cardinality(A) + Cardinality(R)
    BY <2>1, <2>2, FS_EmptySet, FS_Union
  <2>4. Cardinality(Held) = Cardinality(A \cup R) + Cardinality(F)
    <3>1. PICK U : U = A \cup R OBVIOUS
    <3>2. /\ IsFiniteSet(U) /\ Cardinality(U) \in Nat /\ U \cap F = {} /\ Held = U \cup F
      BY <2>1, <2>2, <2>3, <3>1
    <3>3. Cardinality(U \cup F) = Cardinality(U) + Cardinality(F)
      BY <2>2, <3>2, FS_EmptySet, FS_Union
    <3> QED BY <3>1, <3>2, <3>3
  <2>5. executionCount = Cardinality(A) + Cardinality(R) + Cardinality(F)
    BY <2>a, <2>2, <2>3, <2>4 DEF Counted
  <2> QED BY <2>5 DEF PlacesAccounted, A, R, F
<1> QED BY <1>1, Inductive, PTL

\* No step changes a final status.
THEOREM FinalStatusTheorem == Spec => FinalStatusIsFinal
<1>1. ASSUME IInv, [Next]_vars, NEW f \in Executions, status[f] \in Ended
      PROVE  status'[f] = status[f]
  <2> USE <1>1 DEF IInv, TypeOK, Sync, InCall, Active, Ended,
                   masterVars, execVars, workVars, vars
  <2>1. CASE UNCHANGED vars BY <2>1
  <2>2. CASE StartMaster \/ StopMaster BY <2>2 DEF StartMaster, StopMaster
  <2>3. ASSUME NEW e \in Executions, Submit(e) PROVE status'[f] = status[f]
    BY <2>3 DEF Submit, SubmitCheck, SubmitStore, scheduleExecution, ScheduleFails
  <2>4. ASSUME NEW e \in Executions, Control(e) PROVE status'[f] = status[f]
    BY <2>4 DEF Control, StopExecution, PauseExecution, ResumeExecution, CallerLeaves
  <2>5. ASSUME NEW e \in Executions, runExecution(e) PROVE status'[f] = status[f]
    BY <2>5 DEF runExecution, RunStart, TakeResult, SeeStop, Abort, Finish,
                Uncount, Dispatch, Collect, At, Conclude
  <2>6. ASSUME NEW e \in Executions, NEW s \in Slots, EngineReturns(e, s) \/ EngineBlocks(e, s)
        PROVE  status'[f] = status[f]
    BY <2>6 DEF EngineReturns, EngineBlocks
  <2> QED BY <2>1, <2>2, <2>3, <2>4, <2>5, <2>6 DEF Next, Step, Quiet
<1>2. IInv /\ [Next]_vars =>
        [\A e \in Executions : status[e] \in Ended => status'[e] = status[e]]_vars
  BY <1>1
<1> QED BY <1>2, Inductive, PTL DEF Spec, FinalStatusIsFinal

\* The limit is exceeded by less than the number of concurrent calls.  A call
\* that passes the check finds executionCount below the limit, and no more
\* than Callers have passed it and not stored; a store moves one from the
\* second summand to the first.
THEOREM OvershootTheorem == Spec => []Overshoot
<1>1. Init => Overshoot
  <2> SUFFICES ASSUME Init PROVE Overshoot
      OBVIOUS
  <2>1. {e \in Executions : submit[e] = "checked"} = {} BY DEF Init
  <2>2. Cardinality({e \in Executions : submit[e] = "checked"}) = 0
    BY <2>1, FS_EmptySet
  <2>3. executionCount = 0 BY DEF Init
  <2> QED BY <2>2, <2>3, LimitAssumption, CallersAssumption DEF Overshoot
<1>2. IInv /\ Overshoot /\ [Next]_vars => Overshoot'
  <2> SUFFICES ASSUME IInv, Overshoot, [Next]_vars PROVE Overshoot'
      OBVIOUS
  <2>1. IsFiniteSet(Checked) /\ Cardinality(Checked) \in Nat
    BY Sizes DEF Checked
  <2>2. executionCount \in Nat BY DEF IInv, TypeOK
  <2>3. executionCount + Cardinality(Checked) <= MaxConcurrentExecutions + Callers - 1
    BY DEF Overshoot, Checked
  <2>4. ASSUME executionCount' \in Int, executionCount' <= executionCount, Checked' = Checked
        PROVE  Overshoot'
    <3>1. executionCount' + Cardinality(Checked') <= MaxConcurrentExecutions + Callers - 1
      BY <2>1, <2>2, <2>3, <2>4, LimitAssumption, CallersAssumption
    <3> QED BY <3>1 DEF Overshoot, Checked
  <2>5. ASSUME NEW e \in Executions, SubmitCheck(e) PROVE Overshoot'
    <3>1. CASE started /\ executionCount < MaxConcurrentExecutions
      <4>1. Checked' = Checked \cup {e} /\ e \notin Checked
        BY <2>5, <3>1 DEF SubmitCheck, Checked, IInv, TypeOK
      <4>2. Cardinality(Checked') = Cardinality(Checked) + 1
        BY <4>1, <2>1, FS_AddElement
      <4>3. Checked \subseteq Calls /\ IsFiniteSet(Calls) /\ Cardinality(Calls) \in Nat
        BY Sizes DEF Checked, Calls, InCall
      <4>4. Cardinality(Checked) <= Cardinality(Calls) BY <4>3, FS_Subset
      <4>5. Cardinality(Calls) < Callers /\ executionCount' = executionCount
        BY <2>5 DEF SubmitCheck
      <4>6. executionCount' + Cardinality(Checked') <= MaxConcurrentExecutions + Callers - 1
        BY <2>1, <2>2, <3>1, <4>2, <4>3, <4>4, <4>5, LimitAssumption, CallersAssumption
      <4> QED BY <4>6 DEF Overshoot, Checked
    <3>2. CASE ~(started /\ executionCount < MaxConcurrentExecutions)
      <4>1. Checked' = Checked /\ executionCount' = executionCount
        BY <2>5, <3>2 DEF SubmitCheck, Checked, IInv, TypeOK
      <4> QED BY <4>1, <2>2, <2>4
    <3> QED BY <3>1, <3>2
  <2>6. ASSUME NEW e \in Executions, SubmitStore(e) PROVE Overshoot'
    <3>1. Checked' = Checked \ {e} /\ e \in Checked /\ executionCount' = executionCount + 1
      BY <2>6 DEF SubmitStore, Checked, IInv, TypeOK
    <3>2. Cardinality(Checked') = Cardinality(Checked) - 1
      BY <3>1, <2>1, FS_RemoveElement
    <3>3. executionCount' + Cardinality(Checked') <= MaxConcurrentExecutions + Callers - 1
      BY <3>1, <3>2, <2>1, <2>2, <2>3, LimitAssumption, CallersAssumption
    <3> QED BY <3>3 DEF Overshoot, Checked
  <2>7. ASSUME ~ \E e \in Executions : SubmitCheck(e) \/ SubmitStore(e)
        PROVE  Checked' = Checked /\ executionCount' \in Int /\ executionCount' <= executionCount
    <3> USE <2>7, <2>2 DEF IInv, TypeOK, Checked, InCall, Active,
                           masterVars, execVars, workVars, vars
    <3>1. CASE UNCHANGED vars BY <3>1
    <3>2. CASE StartMaster \/ StopMaster BY <3>2 DEF StartMaster, StopMaster
    <3>3. ASSUME NEW e \in Executions, scheduleExecution(e) \/ ScheduleFails(e)
          PROVE  Checked' = Checked /\ executionCount' = executionCount
      BY <3>3 DEF scheduleExecution, ScheduleFails
    <3>4. ASSUME NEW e \in Executions, Control(e)
          PROVE  Checked' = Checked /\ executionCount' = executionCount
      BY <3>4 DEF Control, StopExecution, PauseExecution, ResumeExecution, CallerLeaves
    <3>5. ASSUME NEW e \in Executions, runExecution(e)
          PROVE  Checked' = Checked /\ executionCount' \in Int /\ executionCount' <= executionCount
      BY <3>5 DEF runExecution, RunStart, TakeResult, SeeStop, Abort, Finish,
                  Uncount, Dispatch, Collect, At, Conclude
    <3>6. ASSUME NEW e \in Executions, NEW s \in Slots, EngineReturns(e, s) \/ EngineBlocks(e, s)
          PROVE  Checked' = Checked /\ executionCount' = executionCount
      BY <3>6 DEF EngineReturns, EngineBlocks
    <3> QED BY <3>1, <3>2, <3>3, <3>4, <3>5, <3>6 DEF Next, Step, Quiet, Submit
  <2> QED BY <2>4, <2>5, <2>6, <2>7
<1> QED BY <1>1, <1>2, Inductive, PTL DEF Spec

\* A distributed execution is Completed only when every slave's part is: the
\* goroutines that write SlaveStates act only while the execution is active.
THEOREM CompletedTheorem == Spec => []CompletedMeansAll
<1>1. Init => CompletedMeansAll
  BY DEF Init, CompletedMeansAll
<1>2. IInv /\ CompletedMeansAll /\ [Next]_vars => CompletedMeansAll'
  <2> SUFFICES ASSUME IInv, CompletedMeansAll, [Next]_vars PROVE CompletedMeansAll'
      OBVIOUS
  <2> USE DEF IInv, TypeOK, Sync, Worked, CompletedMeansAll, InCall, Active, Result, Slots,
              masterVars, execVars, workVars, vars
  <2>1. CASE UNCHANGED vars BY <2>1
  <2>2. CASE StartMaster \/ StopMaster BY <2>2 DEF StartMaster, StopMaster
  <2>3. ASSUME NEW e \in Executions, Submit(e) PROVE CompletedMeansAll'
    BY <2>3 DEF Submit, SubmitCheck, SubmitStore, scheduleExecution, ScheduleFails
  <2>4. ASSUME NEW e \in Executions, Control(e) PROVE CompletedMeansAll'
    BY <2>4 DEF Control, StopExecution, PauseExecution, ResumeExecution, CallerLeaves
  <2>5. ASSUME NEW e \in Executions, runExecution(e) PROVE CompletedMeansAll'
    <3>1. CASE RunStart(e) \/ SeeStop(e) \/ Uncount(e)
      BY <3>1 DEF RunStart, SeeStop, Uncount, At
    <3>2. CASE TakeResult(e) \/ Abort(e)
      <4>1. /\ slaveState' = slaveState
            /\ \A f \in Executions : f # e => status'[f] = status[f]
        BY <3>2 DEF TakeResult, Abort, Conclude
      <4>2. UseLocal(e) \/ status'[e] = "Aborted"
        BY <3>2 DEF TakeResult, Abort, Conclude
      <4> QED BY <4>1, <4>2
    <3>3. CASE Finish(e)
      <4>1. /\ Assigned(e) = Slaves /\ slaveState' = slaveState
            /\ \A f \in Executions : f # e => status'[f] = status[f]
        BY <3>3 DEF Finish, At, Conclude, Assigned
      <4>2. \A s \in Slaves : slaveState[e][s] \in {"Completed", "Failed"}
        BY <3>3, <4>1 DEF Finish
      <4>3. status'[e] = "Completed" => \A s \in Slaves : slaveState[e][s] # "Failed"
        BY <3>3, <4>1 DEF Finish, At, Conclude
      <4> QED BY <4>1, <4>2, <4>3
    <3>4. ASSUME NEW s \in Slots, Dispatch(e, s) \/ Collect(e, s)
          PROVE  CompletedMeansAll'
      <4>1. /\ status' = status
            /\ UseLocal(e) \/ status[e] # "Completed"
        <5>1. ASSUME Dispatch(e, s), ~ UseLocal(e), status[e] = "Completed" PROVE FALSE
          <6>1. s \in Slaves /\ work[e][s] = "none" BY <5>1 DEF Dispatch, Assigned
          <6>2. slaveState[e][s] = "Completed" BY <5>1, <6>1
          <6> QED BY <6>1, <6>2
        <5>2. Collect(e, s) => status[e] # "Completed" BY DEF Collect
        <5>3. status' = status BY <3>4 DEF Dispatch, Collect
        <5> QED BY <3>4, <5>1, <5>2, <5>3
      <4>2. \A f \in Executions : f # e => slaveState'[f] = slaveState[f]
        BY <3>4 DEF Dispatch, Collect
      <4> QED BY <4>1, <4>2
    <3> HIDE DEF IInv, TypeOK, Sync, CompletedMeansAll
    <3> QED BY <2>5, <3>1, <3>2, <3>3, <3>4 DEF runExecution
  <2>6. ASSUME NEW e \in Executions, NEW s \in Slots, EngineReturns(e, s) \/ EngineBlocks(e, s)
        PROVE  CompletedMeansAll'
    BY <2>6 DEF EngineReturns, EngineBlocks
  <2> QED BY <2>1, <2>2, <2>3, <2>4, <2>5, <2>6 DEF Next, Step, Quiet
<1> QED BY <1>1, <1>2, Inductive, PTL DEF Spec
=============================================================================
