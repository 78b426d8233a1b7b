------------------------- MODULE ConstantVUs_proofs -------------------------
(***************************************************************************)
(* Proofs about ConstantVUs for every number of VUs, ids, iterations and    *)
(* scale targets.  IInv strengthens the checked invariants: it says where   *)
(* main is when the controller runs, which part of its life a VU is in when *)
(* its slot and its cancel function are held, and how many starts are left. *)
(***************************************************************************)
EXTENDS ConstantVUs, FiniteSetTheorems, TLAPS

Assumptions == /\ VUs \in Nat /\ Iterations \in Nat /\ HasDuration \in BOOLEAN
               /\ PoolSize \in Nat /\ ScaleTargets \subseteq Nat
               /\ MaxVUIDs \in Nat /\ MaxScales \in Nat /\ VUs <= MaxVUIDs

\* The assumptions on the constants, together.
LEMMA ConstantsOK == Assumptions
BY VUsAssumption, IterationsAssumption, DurationAssumption, PoolAssumption,
   TargetsAssumption, BoundsAssumption DEF Assumptions

\* Main launches VUs before the controller exists, and waits for it afterwards.
Phases ==
    /\ main = "launch" <=> ctl = "off"
    /\ main \in {"cancel", "controllerDone", "vusDone", "returned"} => stopping
    /\ main \in {"controllerDone", "vusDone", "returned"} => baseDone
    /\ main \in {"vusDone", "returned"} => ctl = "done"
    /\ starting # NoVU => StartLoop /\ todo > 0
    /\ starting # NoVU => vu[starting] \in {"acquire", "register"}

\* Ids are handed out in order.
Fresh == \A i \in VUIDs : i >= nextVUID => vu[i] = "none"

\* A slot of the pool is held from Acquire to Release, a cancel function from
\* its registration to its deletion.
Held ==
    /\ \A i \in inUse : vu[i] \in {"register", "loop", "iter", "delete", "release"}
    /\ \A i \in vuCancels : vu[i] \in {"loop", "iter", "delete"}

\* The VUs that run and the ones the loop will still start fit under a target.
Left == IF StartLoop /\ todo > 0 THEN todo ELSE 0
Fits == /\ maxVUs \in PeakVUs
        /\ \E p \in PeakVUs : activeVUs + Left <= p

IInv == TypeOK /\ Phases /\ Fresh /\ Held /\ Fits

\* Type correctness is inductive by itself.
LEMMA TypeStep == TypeOK /\ [Next]_vars => TypeOK'
<1> SUFFICES ASSUME TypeOK, [Next]_vars PROVE TypeOK'
    OBVIOUS
<1> USE ConstantsOK DEF Assumptions, TypeOK, VUIDs, NoVU, Pending, Launched, Move, StartLoop
<1>1. CASE UNCHANGED vars
  BY <1>1 DEF vars, mainVars, ctlVars, envVars, vuVars
<1>2. CASE Start
  <2>1. CASE StartVU
    <3>1. CASE stopping \/ nextVUID = MaxVUIDs
      BY <2>1, <3>1 DEF StartVU, mainVars, ctlVars, envVars
    <3>2. CASE ~(stopping \/ nextVUID = MaxVUIDs)
      <4>1. nextVUID \in VUIDs BY <3>2
      <4> QED BY <2>1, <3>2, <4>1 DEF StartVU, mainVars, ctlVars, envVars
    <3> QED BY <3>1, <3>2
  <2>2. CASE Acquire BY <2>2 DEF Acquire, mainVars, ctlVars, envVars
  <2>3. CASE LaunchVU BY <2>3 DEF LaunchVU, mainVars, ctlVars, envVars
  <2> QED BY <1>2, <2>1, <2>2, <2>3 DEF Start
<1>3. CASE Controller
  <2>1. CASE ControllerDone BY <2>1 DEF ControllerDone, mainVars, envVars, vuVars
  <2>2. CASE Tick BY <2>2 DEF Tick, mainVars, envVars, vuVars
  <2>3. CASE Compare BY <2>3 DEF Compare, mainVars, envVars, vuVars
  <2>4. CASE StopOneVU
    <3>1. cancelled' \subseteq VUIDs BY <2>4 DEF StopOneVU
    <3>2. todo' \in Int BY <2>4 DEF StopOneVU
    <3> QED BY <2>4, <3>1, <3>2 DEF StopOneVU, mainVars, envVars
  <2>5. CASE ScaleDone BY <2>5 DEF ScaleDone, mainVars, envVars, vuVars
  <2> QED BY <1>3, <2>1, <2>2, <2>3, <2>4, <2>5 DEF Controller
<1>4. CASE Waiter
  <2>1. CASE Wait BY <2>1 DEF Wait, mainVars, ctlVars, envVars, vuVars
  <2>2. CASE Wake
    <3>1. CASE wg = 0 BY <2>2, <3>1 DEF Wake, mainVars, ctlVars, envVars, vuVars
    <3>2. CASE wg # 0 BY <2>2, <3>2 DEF Wake, mainVars, ctlVars, envVars, vuVars
    <3> QED BY <3>1, <3>2
  <2>3. CASE CloseVUsDone BY <2>3 DEF CloseVUsDone, mainVars, ctlVars, envVars, vuVars
  <2> QED BY <1>4, <2>1, <2>2, <2>3 DEF Waiter
<1>5. CASE Main
  <2>1. CASE StartGoroutines BY <2>1 DEF StartGoroutines, envVars, vuVars
  <2>2. CASE Select BY <2>2 DEF Select, ctlVars, envVars, vuVars
  <2>3. CASE SetStopping BY <2>3 DEF SetStopping, ctlVars, envVars, vuVars
  <2>4. CASE StopAll BY <2>4 DEF StopAll, ctlVars, envVars, vuVars
  <2>5. CASE AwaitController BY <2>5 DEF AwaitController, ctlVars, envVars, vuVars
  <2>6. CASE AwaitVUs BY <2>6 DEF AwaitVUs, ctlVars, envVars, vuVars
  <2> QED BY <1>5, <2>1, <2>2, <2>3, <2>4, <2>5, <2>6 DEF Main
<1>6. ASSUME NEW i \in VUIDs, VU(i) PROVE TypeOK'
  <2>1. CASE RunVULoop(i) BY <2>1 DEF RunVULoop, mainVars, ctlVars, envVars
  <2>2. CASE IterationOk(i) BY <2>2 DEF IterationOk, CountIteration, mainVars, ctlVars, envVars
  <2>3. CASE IterationFails(i) BY <2>3 DEF IterationFails, mainVars, ctlVars, envVars
  <2>4. CASE IterationPanics(i) BY <2>4 DEF IterationPanics, mainVars, ctlVars, envVars
  <2>5. CASE DeleteCancel(i) BY <2>5 DEF DeleteCancel, mainVars, ctlVars, envVars
  <2>6. CASE Release(i) BY <2>6 DEF Release, mainVars, ctlVars, envVars
  <2>7. CASE Uncount(i) BY <2>7 DEF Uncount, mainVars, ctlVars, envVars
  <2>8. CASE WgDone(i) BY <2>8 DEF WgDone, mainVars, ctlVars, envVars
  <2> QED BY <1>6, <2>1, <2>2, <2>3, <2>4, <2>5, <2>6, <2>7, <2>8 DEF VU
<1>7. ASSUME NEW n \in ScaleTargets, ScaleVUs(n) PROVE TypeOK'
  BY <1>7 DEF ScaleVUs, mainVars, ctlVars, vuVars
<1>8. CASE DurationElapses \/ StopCancel \/ StopPool
  <2>1. CASE DurationElapses BY <2>1 DEF DurationElapses, mainVars, ctlVars, vuVars
  <2>2. CASE StopCancel BY <2>2 DEF StopCancel, ctlVars, vuVars
  <2>3. CASE StopPool BY <2>3 DEF StopPool, mainVars, ctlVars
  <2> QED BY <1>8, <2>1, <2>2, <2>3
<1> QED
  BY <1>1, <1>2, <1>3, <1>4, <1>5, <1>6, <1>7, <1>8 DEF Next, Step, Finished

\* The initial state is well typed.
LEMMA InitTypeOK == Init => TypeOK
<1> SUFFICES ASSUME Init PROVE TypeOK
    OBVIOUS
<1> USE ConstantsOK DEF Assumptions, Init
<1>1. /\ vu \in [VUIDs -> {"none", "exited"} \cup Pending]
      /\ iteration \in [VUIDs -> Nat]
  OBVIOUS
<1>2. /\ nextVUID \in 0 .. MaxVUIDs /\ scales \in 0 .. MaxScales
      /\ maxVUs \in Nat /\ todo \in Int /\ wg \in Int /\ activeVUs \in Int
  OBVIOUS
<1>3. /\ stopping \in BOOLEAN /\ baseDone \in BOOLEAN
      /\ timeUp \in BOOLEAN /\ crashed \in BOOLEAN
  OBVIOUS
<1> QED BY <1>1, <1>2, <1>3 DEF TypeOK

\* TypeOK holds in every reachable state of executeConstantVUs.
THEOREM TypeCorrect == Spec => []TypeOK
BY InitTypeOK, TypeStep, PTL DEF Spec

\* The controller and the launch loop never start VUs at the same time, and
\* the steps of main are ordered as the comments in the code require.
LEMMA PhasesStep == TypeOK /\ Phases /\ [Next]_vars => Phases'
<1> SUFFICES ASSUME TypeOK, Phases, [Next]_vars PROVE Phases'
    OBVIOUS
<1> USE DEF Phases, StartLoop, NoVU
<1> vu \in [VUIDs -> {"none", "exited"} \cup Pending] /\ starting \in VUIDs \cup {NoVU} /\ todo \in Int
    BY DEF TypeOK
<1>1. CASE UNCHANGED vars
  BY <1>1 DEF vars, mainVars, ctlVars, envVars, vuVars
<1>2. CASE Start
  <2>1. CASE StartVU
    BY <2>1, ConstantsOK DEF StartVU, TypeOK, VUIDs, Assumptions, mainVars
  <2>2. CASE Acquire BY <2>2 DEF Acquire, mainVars, ctlVars
  <2>3. CASE LaunchVU BY <2>3 DEF LaunchVU, mainVars
  <2> QED BY <1>2, <2>1, <2>2, <2>3 DEF Start
<1>3. CASE Controller
  BY <1>3 DEF Controller, ControllerDone, Tick, Compare, StopOneVU, ScaleDone, mainVars, vuVars
<1>4. CASE Waiter
  BY <1>4 DEF Waiter, Wait, Wake, CloseVUsDone, mainVars, ctlVars, vuVars
<1>5. CASE Main
  BY <1>5 DEF Main, StartGoroutines, Select, SetStopping, StopAll, AwaitController,
              AwaitVUs, ctlVars, vuVars
<1>6. ASSUME NEW i \in VUIDs, VU(i) PROVE Phases'
  <2>1. UNCHANGED <<mainVars, ctlVars>> /\ \E to : Move(i, vu[i], to)
    BY <1>6 DEF VU, RunVULoop, IterationOk, IterationFails, IterationPanics, DeleteCancel,
                Release, Uncount, WgDone, Move
  <2>2. vu[i] \notin {"acquire", "register"}
    BY <1>6 DEF VU, RunVULoop, IterationOk, IterationFails, IterationPanics, DeleteCancel,
                Release, Uncount, WgDone, Move
  <2> QED BY <2>1, <2>2 DEF Move, mainVars, ctlVars
<1>7. ASSUME NEW n \in ScaleTargets, ScaleVUs(n) PROVE Phases'
  BY <1>7 DEF ScaleVUs, mainVars, ctlVars, vuVars
<1>8. CASE DurationElapses \/ StopCancel \/ StopPool
  BY <1>8 DEF DurationElapses, StopCancel, StopPool, mainVars, ctlVars, vuVars
<1> QED
  BY <1>1, <1>2, <1>3, <1>4, <1>5, <1>6, <1>7, <1>8 DEF Next, Step, Finished

\* An id that has not been handed out has no VU.
LEMMA FreshStep == TypeOK /\ Phases /\ Fresh /\ [Next]_vars => Fresh'
<1> SUFFICES ASSUME TypeOK, Phases, Fresh, [Next]_vars PROVE Fresh'
    OBVIOUS
<1> USE DEF Fresh, VUIDs
<1>1. CASE Start
  <2>1. CASE StartVU BY <2>1, ConstantsOK DEF StartVU, TypeOK, Assumptions
  <2>2. CASE Acquire \/ LaunchVU
    BY <2>2 DEF Acquire, LaunchVU, TypeOK, NoVU, Phases, ctlVars
  <2> QED BY <1>1, <2>1, <2>2 DEF Start
<1>2. ASSUME NEW i \in VUIDs, VU(i) PROVE Fresh'
  <2>1. nextVUID' = nextVUID /\ vu[i] # "none" /\ \E to : vu' = [vu EXCEPT ![i] = to]
    BY <1>2 DEF VU, RunVULoop, IterationOk, IterationFails, IterationPanics, DeleteCancel,
                Release, Uncount, WgDone, Move, ctlVars
  <2> QED BY <2>1 DEF TypeOK
<1>3. CASE UNCHANGED <<vu, nextVUID>>
  BY <1>3
<1> QED
  <2>1. \/ Start \/ (\E i \in VUIDs : VU(i)) \/ UNCHANGED <<vu, nextVUID>>
    BY DEF Next, Step, Finished, vars, Controller, ControllerDone, Tick, Compare, StopOneVU,
           ScaleDone, Waiter, Wait, Wake, CloseVUsDone, Main, StartGoroutines, Select,
           SetStopping, StopAll, AwaitController, AwaitVUs, ScaleVUs, DurationElapses,
           StopCancel, StopPool, ctlVars, vuVars
  <2> QED BY <2>1, <1>1, <1>2, <1>3

\* Whoever holds a slot or a cancel function has not reached its release.
LEMMA HeldStep == TypeOK /\ Phases /\ Fresh /\ Held /\ [Next]_vars => Held'
<1> SUFFICES ASSUME TypeOK, Phases, Fresh, Held, [Next]_vars PROVE Held'
    OBVIOUS
<1> USE DEF Held
<1> /\ vu \in [VUIDs -> {"none", "exited"} \cup Pending] /\ starting \in VUIDs \cup {NoVU}
    /\ inUse \subseteq VUIDs /\ vuCancels \subseteq VUIDs
    BY DEF TypeOK
<1>1. CASE Start
  <2>1. CASE StartVU
    <3>1. nextVUID # MaxVUIDs => nextVUID \in VUIDs /\ vu[nextVUID] = "none"
      BY ConstantsOK DEF Fresh, TypeOK, VUIDs, Assumptions
    <3> QED BY <2>1, <3>1 DEF StartVU
  <2>2. CASE Acquire BY <2>2 DEF Acquire
  <2>3. CASE LaunchVU BY <2>3 DEF LaunchVU
  <2> QED BY <1>1, <2>1, <2>2, <2>3 DEF Start
<1>2. ASSUME NEW i \in VUIDs, VU(i) PROVE Held'
  <2>1. CASE RunVULoop(i) \/ IterationOk(i) \/ IterationFails(i) \/ IterationPanics(i)
    BY <2>1 DEF RunVULoop, IterationOk, IterationFails, IterationPanics, Move
  <2>2. CASE DeleteCancel(i) BY <2>2 DEF DeleteCancel, Move
  <2>3. CASE Release(i) BY <2>3 DEF Release, Move
  <2>4. CASE Uncount(i) \/ WgDone(i) BY <2>4 DEF Uncount, WgDone, Move
  <2> QED BY <1>2, <2>1, <2>2, <2>3, <2>4 DEF VU
<1>3. CASE UNCHANGED <<vu, vuCancels>> /\ inUse' \in {inUse, {}}
  BY <1>3
<1> QED
  <2>1. \/ Start \/ (\E i \in VUIDs : VU(i))
        \/ UNCHANGED <<vu, vuCancels>> /\ inUse' \in {inUse, {}}
    BY DEF Next, Step, Finished, vars, Controller, ControllerDone, Tick, Compare, StopOneVU,
           ScaleDone, Waiter, Wait, Wake, CloseVUsDone, Main, StartGoroutines, Select,
           SetStopping, StopAll, AwaitController, AwaitVUs, ScaleVUs, DurationElapses,
           StopCancel, StopPool, ctlVars, vuVars
  <2> QED BY <2>1, <1>1, <1>2, <1>3

\* Arithmetic of FitsStep: with fewer active VUs the same starts still fit.
LEMMA FewerFit == \A a, b, l, p \in Int : a <= b /\ b + l <= p => a + l <= p
OBVIOUS

\* The VUs that run and those still to be started stay within a target.
LEMMA FitsStep == TypeOK /\ Phases /\ Fits /\ [Next]_vars => Fits'
<1> SUFFICES ASSUME TypeOK, Phases, Fits, [Next]_vars PROVE Fits'
    OBVIOUS
<1> PeakVUs \subseteq Int /\ activeVUs \in Int /\ todo \in Int /\ maxVUs \in Int
    BY ConstantsOK DEF Assumptions, PeakVUs, TypeOK
<1> USE DEF Fits, Left, StartLoop
<1> PICK p \in PeakVUs : activeVUs + Left <= p
    BY DEF Fits
<1>1. CASE Start
  <2>1. CASE StartVU
    BY <2>1 DEF StartVU, mainVars, envVars
  <2>2. CASE Acquire BY <2>2 DEF Acquire, mainVars, ctlVars, envVars
  <2>3. CASE LaunchVU BY <2>3 DEF LaunchVU, Phases, mainVars, envVars
  <2> QED BY <1>1, <2>1, <2>2, <2>3 DEF Start
<1>2. CASE Controller
  <2>1. CASE Compare
    <3>1. CASE maxVUs > activeVUs
      BY <2>1, <3>1 DEF Compare, envVars, vuVars
    <3>2. CASE ~(maxVUs > activeVUs)
      BY <2>1, <3>2 DEF Compare, Phases, mainVars, envVars, vuVars
    <3> QED BY <3>1, <3>2
  <2>2. CASE ControllerDone \/ Tick \/ StopOneVU \/ ScaleDone
    BY <2>2 DEF ControllerDone, Tick, StopOneVU, ScaleDone, Phases, mainVars, envVars, vuVars
  <2> QED BY <1>2, <2>1, <2>2 DEF Controller
<1>3. ASSUME NEW i \in VUIDs, VU(i) PROVE Fits'
  <2>1. UNCHANGED <<main, ctl, todo, maxVUs>> /\ activeVUs' \in {activeVUs, activeVUs - 1}
    BY <1>3 DEF VU, RunVULoop, IterationOk, IterationFails, IterationPanics, DeleteCancel,
                Release, Uncount, WgDone, mainVars, ctlVars, envVars
  <2>2. Left' = Left BY <2>1
  <2>3. activeVUs' + Left' <= p
    <3>1. Left \in Int /\ p \in Int OBVIOUS
    <3>2. activeVUs + Left <= p OBVIOUS
    <3>3. activeVUs' <= activeVUs BY <2>1
    <3>4. activeVUs' \in Int BY <2>1
    <3>5. activeVUs' + Left <= p BY <3>1, <3>2, <3>3, <3>4, FewerFit, Zenon
    <3> QED BY <2>2, <3>5, Zenon
  <2> QED BY <2>1, <2>3 DEF PeakVUs
<1>4. CASE StartGoroutines
  BY <1>4 DEF StartGoroutines, envVars, vuVars
<1>5. ASSUME NEW n \in ScaleTargets, ScaleVUs(n) PROVE Fits'
  BY <1>5 DEF ScaleVUs, PeakVUs, mainVars, ctlVars, vuVars
<1>6. CASE UNCHANGED <<main, ctl, todo, maxVUs, activeVUs>>
  BY <1>6
<1>7. CASE Main
  <2>1. CASE ~StartGoroutines
    <3>1. /\ UNCHANGED <<ctl, todo, maxVUs, activeVUs>>
          /\ main # "launch" /\ main' # "launch"
      BY <1>7, <2>1 DEF Main, Select, SetStopping, StopAll, AwaitController, AwaitVUs,
            ctlVars, envVars, vuVars
    <3>2. Left' = Left BY <3>1
    <3> QED BY <3>1, <3>2
  <2> QED BY <2>1, <1>4
<1> QED
  <2>1. \/ Start \/ Controller \/ Main \/ (\E i \in VUIDs : VU(i))
        \/ (\E n \in ScaleTargets : ScaleVUs(n))
        \/ UNCHANGED <<main, ctl, todo, maxVUs, activeVUs>>
    BY DEF Next, Step, Finished, vars, Waiter, Wait, Wake, CloseVUsDone, DurationElapses,
           StopCancel, StopPool, mainVars, ctlVars, envVars, vuVars
  <2> QED BY <2>1, <1>1, <1>2, <1>3, <1>5, <1>6, <1>7

\* IInv is an inductive invariant of executeConstantVUs.
THEOREM Inductive == Spec => []IInv
<1>1. Init => IInv
  <2> SUFFICES ASSUME Init PROVE IInv
      OBVIOUS
  <2>1. TypeOK BY InitTypeOK
  <2>2. Phases /\ Fresh /\ Held BY DEF Init, Phases, Fresh, Held, StartLoop, NoVU
  <2>3. Fits
    <3>1. activeVUs + Left <= VUs
      BY ConstantsOK DEF Init, Left, Assumptions
    <3> QED BY <3>1 DEF Init, Fits, PeakVUs
  <2> QED BY <2>1, <2>2, <2>3 DEF IInv
<1>2. IInv /\ [Next]_vars => IInv'
  BY TypeStep, PhasesStep, FreshStep, HeldStep, FitsStep DEF IInv
<1> QED BY <1>1, <1>2, PTL DEF Spec

\* Scaling never raises activeVUs above the largest number asked for.
THEOREM PeakTheorem == Spec => []NeverAbovePeak
<1>1. IInv => NeverAbovePeak
  <2> SUFFICES ASSUME IInv PROVE NeverAbovePeak
      OBVIOUS
  <2>1. PICK p \in PeakVUs : activeVUs + Left <= p
    BY DEF IInv, Fits
  <2>2. p \in Int /\ activeVUs \in Int /\ Left \in Int /\ Left >= 0
    BY ConstantsOK DEF Assumptions, PeakVUs, IInv, TypeOK, Left
  <2> QED BY <2>1, <2>2 DEF NeverAbovePeak
<1> QED BY <1>1, Inductive, PTL

\* A VU that has gone holds neither a slot of the pool nor a cancel function.
THEOREM NothingLeftBehindTheorem == Spec => []NothingLeftBehind
<1>1. IInv => NothingLeftBehind
  BY DEF IInv, Held, NothingLeftBehind
<1> QED BY <1>1, Inductive, PTL

\* After executeConstantVUs returns nobody can start a VU any more.
THEOREM ReturnIsFinalTheorem == Spec => []ReturnIsFinal
<1>1. IInv => ReturnIsFinal
  BY DEF IInv, Phases, StartLoop, ReturnIsFinal, scheduleDone
<1> QED BY <1>1, Inductive, PTL

\* Once stopping is set, startVU hands out no id.
THEOREM NoStartOnceStoppingTheorem == Spec => NoStartOnceStopping
<1>1. [Next]_vars => [stopping => nextVUID' = nextVUID]_vars
  BY DEF Next, Step, Finished, vars, Start, StartVU, Acquire, LaunchVU, Controller,
         ControllerDone, Tick, Compare, StopOneVU, ScaleDone, Waiter, Wait, Wake,
         CloseVUsDone, Main, StartGoroutines, Select, SetStopping, StopAll,
         AwaitController, AwaitVUs, ScaleVUs, DurationElapses, StopCancel, StopPool, VU,
         RunVULoop, IterationOk, IterationFails, IterationPanics, DeleteCancel, Release,
         Uncount, WgDone, ctlVars
<1> QED BY <1>1, PTL DEF Spec, NoStartOnceStopping

-----------------------------------------------------------------------------
(* The counters.  A step of one VU changes a set of VUs, told apart by       *)
(* their program counters, by at most that VU.                               *)

At(S, f) == {i \in VUIDs : f[i] \in S}

\* There are finitely many VUs in any set of program counters.
LEMMA AtFinite == \A S, f : IsFiniteSet(At(S, f)) /\ Cardinality(At(S, f)) \in Nat
<1> TAKE S, f
<1>1. IsFiniteSet(VUIDs)
  BY ConstantsOK, FS_Interval DEF VUIDs, Assumptions
<1>2. At(S, f) \subseteq VUIDs BY DEF At
<1> QED BY <1>1, <1>2, FS_Subset, FS_CardinalityType

\* Moving VU i from f[i] to to changes their number by what i contributes.
LEMMA AtMove ==
    ASSUME NEW S, NEW PC, NEW f \in [VUIDs -> PC], NEW i \in VUIDs, NEW to,
           NEW g, g = [f EXCEPT ![i] = to]
    PROVE  Cardinality(At(S, g)) =
             Cardinality(At(S, f)) + (IF to \in S THEN 1 ELSE 0) - (IF f[i] \in S THEN 1 ELSE 0)
<1> DEFINE A == At(S, f)
           B == At(S, g)
<1>1. IsFiniteSet(A) /\ Cardinality(A) \in Nat BY AtFinite
<1>2. g[i] = to /\ \A j \in VUIDs : j # i => g[j] = f[j] OBVIOUS
<1>3. CASE to \in S /\ f[i] \notin S
  <2>1. B = A \cup {i} /\ i \notin A BY <1>2, <1>3 DEF At
  <2> HIDE DEF A, B
  <2>2. Cardinality(B) = Cardinality(A) + 1 BY <2>1, <1>1, FS_AddElement
  <2> QED BY <2>2, <1>1, <1>3 DEF A, B
<1>4. CASE to \notin S /\ f[i] \in S
  <2>1. B = A \ {i} /\ i \in A BY <1>2, <1>4 DEF At
  <2> HIDE DEF A, B
  <2>2. Cardinality(B) = Cardinality(A) - 1 BY <2>1, <1>1, FS_RemoveElement
  <2> QED BY <2>2, <1>1, <1>4 DEF A, B
<1>5. CASE to \in S <=> f[i] \in S
  <2>1. B = A BY <1>2, <1>5 DEF At
  <2> QED BY <2>1, <1>1, <1>5
<1> QED BY <1>3, <1>4, <1>5

\* e.activeVUs and the WaitGroup count the VUs they are meant to count.
THEOREM CountersTheorem == Spec => []CountersAgree
<1> USE DEF CountersAgree
<1>1. Init => CountersAgree
  <2> SUFFICES ASSUME Init PROVE CountersAgree
      OBVIOUS
  <2>1. Counted = {} /\ Waited = {}
    BY DEF Init, Counted, Waited, Launched, Pending
  <2> QED BY <2>1, FS_EmptySet DEF Init
<1>2. IInv /\ CountersAgree /\ [Next]_vars => CountersAgree'
  <2> SUFFICES ASSUME IInv, CountersAgree, [Next]_vars PROVE CountersAgree'
      OBVIOUS
  <2> DEFINE PC == {"none", "exited"} \cup Pending
             NL(x) == IF x \in Launched THEN 1 ELSE 0
             NP(x) == IF x \in Pending THEN 1 ELSE 0
  <2>1. vu \in [VUIDs -> PC] /\ wg \in Int /\ activeVUs \in Int BY DEF IInv, TypeOK
  <2>2. Counted = At(Launched, vu) /\ Waited = At(Pending, vu) BY DEF Counted, Waited, At
  <2>3. Counted' = At(Launched, vu') /\ Waited' = At(Pending, vu') BY DEF Counted, Waited, At
  <2>4. Cardinality(Counted) \in Nat /\ Cardinality(Waited) \in Nat BY <2>2, AtFinite
  <2> DEFINE Moves(i) == /\ vu' = [vu EXCEPT ![i] = vu'[i]]
                         /\ activeVUs' = activeVUs + NL(vu'[i]) - NL(vu[i])
                         /\ wg' = wg + NP(vu'[i]) - NP(vu[i])
  <2>5. ASSUME NEW i \in VUIDs, Moves(i)
        PROVE  CountersAgree'
    <3>1. \A S : Cardinality(At(S, vu')) = Cardinality(At(S, vu))
                   + (IF vu'[i] \in S THEN 1 ELSE 0) - (IF vu[i] \in S THEN 1 ELSE 0)
      <4> TAKE S
      <4>1. vu' = [vu EXCEPT ![i] = vu'[i]] BY <2>5
      <4>2. vu \in [VUIDs -> PC] BY <2>1
      <4> HIDE DEF PC
      <4>3. \A to, g : g = [vu EXCEPT ![i] = to] =>
                Cardinality(At(S, g)) = Cardinality(At(S, vu))
                   + (IF to \in S THEN 1 ELSE 0) - (IF vu[i] \in S THEN 1 ELSE 0)
        BY <4>2, AtMove
      <4> QED BY <4>1, <4>3
    <3>2. Cardinality(At(Launched, vu')) = Cardinality(At(Launched, vu)) + NL(vu'[i]) - NL(vu[i])
      BY <3>1
    <3>3. Cardinality(At(Pending, vu')) = Cardinality(At(Pending, vu)) + NP(vu'[i]) - NP(vu[i])
      BY <3>1
    <3> HIDE DEF NL, NP
    <3> QED BY <2>2, <2>3, <2>5, <3>2, <3>3
  <2>6. CASE UNCHANGED <<vu, wg, activeVUs>>
    BY <2>2, <2>3, <2>6
  <2>7. CASE Start
    <3>1. CASE StartVU /\ ~(stopping \/ nextVUID = MaxVUIDs)
      <4>1. nextVUID \in VUIDs /\ vu[nextVUID] = "none"
        BY <3>1, ConstantsOK DEF IInv, TypeOK, Fresh, VUIDs, Assumptions
      <4>2. Moves(nextVUID) BY <2>1, <3>1, <4>1 DEF StartVU, Launched, Pending
      <4> QED BY <2>5, <4>1, <4>2
    <3>2. CASE StartVU /\ (stopping \/ nextVUID = MaxVUIDs)
      BY <2>6, <3>2 DEF StartVU
    <3>3. CASE Acquire
      <4>1. starting \in VUIDs BY <3>3 DEF Acquire, IInv, TypeOK
      <4>2. Moves(starting) BY <2>1, <3>3, <4>1 DEF Acquire, Launched, Pending
      <4> QED BY <2>5, <4>1, <4>2
    <3>4. CASE LaunchVU
      <4>1. starting \in VUIDs BY <3>4 DEF LaunchVU, IInv, TypeOK
      <4>2. Moves(starting) BY <2>1, <3>4, <4>1 DEF LaunchVU, Launched, Pending
      <4> QED BY <2>5, <4>1, <4>2
    <3> QED BY <2>7, <3>1, <3>2, <3>3, <3>4 DEF Start
  <2>8. ASSUME NEW i \in VUIDs, VU(i) PROVE CountersAgree'
    <3> USE DEF Move, Launched, Pending
    <3>1. ASSUME RunVULoop(i) PROVE Moves(i) BY <2>1, <3>1 DEF RunVULoop
    <3>2. ASSUME IterationOk(i) PROVE Moves(i) BY <2>1, <3>2 DEF IterationOk
    <3>3. ASSUME IterationFails(i) PROVE Moves(i) BY <2>1, <3>3 DEF IterationFails
    <3>4. ASSUME IterationPanics(i) PROVE Moves(i) BY <2>1, <3>4 DEF IterationPanics
    <3>5. ASSUME DeleteCancel(i) PROVE Moves(i) BY <2>1, <3>5 DEF DeleteCancel
    <3>6. ASSUME Release(i) PROVE Moves(i) BY <2>1, <3>6 DEF Release
    <3>7. ASSUME Uncount(i) PROVE Moves(i) BY <2>1, <3>7 DEF Uncount
    <3>8. ASSUME WgDone(i) PROVE Moves(i) BY <2>1, <3>8 DEF WgDone
    <3>9. Moves(i) BY <2>8, <3>1, <3>2, <3>3, <3>4, <3>5, <3>6, <3>7, <3>8 DEF VU
    <3> QED BY <2>5, <3>9
  <2>9. \/ Start \/ (\E i \in VUIDs : VU(i)) \/ UNCHANGED <<vu, wg, activeVUs>>
    BY DEF Next, Step, Finished, vars, Controller, ControllerDone, Tick, Compare, StopOneVU,
           ScaleDone, Waiter, Wait, Wake, CloseVUsDone, Main, StartGoroutines, Select,
           SetStopping, StopAll, AwaitController, AwaitVUs, ScaleVUs, DurationElapses,
           StopCancel, StopPool, vuVars
  <2> QED BY <2>6, <2>7, <2>8, <2>9
<1> QED BY <1>1, <1>2, Inductive, PTL DEF Spec
=============================================================================
