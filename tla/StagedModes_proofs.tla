-------------------------- MODULE StagedModes_proofs --------------------------
(***************************************************************************)
(* Proofs about StagedModes for any number of VUs and any stages.  A VU id  *)
(* is protected by the pool's mark in the ramp and by its entry in vuCtxs   *)
(* in the arrival-rate modes: IInv says how long a goroutine holds either,  *)
(* and which goroutines the two counters count.                             *)
(***************************************************************************)
EXTENDS StagedModes, FiniteSetTheorems, TLAPS

\* The places where a goroutine has not called wg.Done().
RampLive == {"loop", "iter", "release", "uncount", "done"}
RateLive == {"loop", "iter", "done"}
Live == IF Ramping THEN RampLive ELSE RateLive

\* The places where it counts as an active VU.
RampActive == {"loop", "iter", "release", "uncount"}
RateActive == {"loop", "iter", "done", "delete", "uncount"}
Active == IF Ramping THEN RampActive ELSE RateActive

\* The states of main and of a goroutine in each mode.
Kinds ==
    /\ main \in IF Ramping THEN {"stage", "up", "stop", "wait", "returned"}
                ELSE {"start", "generate", "grow", "again", "stop", "wait", "returned"}
    /\ \A g \in Starts : vu[g].pc # IF Ramping THEN "delete" ELSE "release"

WgCounts     == wg = Cardinality({g \in Starts : vu[g].pc \in Live})
ActiveCounts == activeVUs = Cardinality({g \in Starts : vu[g].pc \in Active})

\* The ramp: until Stop a goroutine holds the VU of its id, alone, up to its Release.
Slot(g) == vu[g].pc \in {"loop", "iter", "release"}
Slots ==
    Ramping /\ ~stopped =>
        /\ \A g \in Starts : Slot(g) => vu[g].id \in inUse
        /\ \A g, h \in Starts : Slot(g) /\ Slot(h) /\ vu[g].id = vu[h].id => g = h

\* The arrival rates: its entry in the map is its own until it deletes it.
Entries ==
    ~Ramping => \A g \in Starts :
        vu[g].pc \in {"loop", "iter", "done", "delete"} => vuCtxs[vu[g].id] = g

Alone == main = "returned" => \A g \in Starts : vu[g].pc \notin Live

IInv == TypeOK /\ Kinds /\ WgCounts /\ ActiveCounts /\ Slots /\ Entries /\ Alone

-----------------------------------------------------------------------------
(* One goroutine moves, or one is started.                                  *)

PCs == {"none", "loop", "iter", "release", "uncount", "done", "delete", "exited"}

\* The sets of ids and of goroutines are finite.
LEMMA Sizes ==
    /\ \A S : S \subseteq Starts => IsFiniteSet(S) /\ Cardinality(S) \in Nat
    /\ \A S : S \subseteq IDs => IsFiniteSet(S) /\ Cardinality(S) \in Nat
<1>1. IsFiniteSet(Starts) BY BoundAssumption, FS_Interval DEF Starts
<1>2. IsFiniteSet(IDs) BY SizeAssumption, FS_Interval DEF IDs
<1> QED BY <1>1, <1>2, FS_Subset, FS_CardinalityType

\* A goroutine that moves keeps its id, and the others keep their places.
LEMMA Moved ==
    ASSUME TypeOK, NEW g \in Starts, NEW from, NEW to \in PCs, Move(g, from, to)
    PROVE  /\ vu' \in [Starts -> [id : IDs, pc : PCs]]
           /\ vu[g].pc = from /\ vu'[g].pc = to /\ vu'[g].id = vu[g].id
           /\ \A h \in Starts : h # g => vu'[h] = vu[h]
<1>1. vu \in [Starts -> [id : IDs, pc : PCs]] BY DEF TypeOK, PCs
<1>2. vu[g].pc = from /\ vu' = [vu EXCEPT ![g].pc = to] BY DEF Move
<1> QED BY <1>1, <1>2

\* What starting a goroutine for id i does.
LEMMA Launched ==
    ASSUME TypeOK, NEW i \in IDs, Launch(i)
    PROVE  /\ vu' \in [Starts -> [id : IDs, pc : PCs]]
           /\ wg' = wg + 1 /\ activeVUs' = activeVUs + 1
           /\ \E g \in Starts :
                /\ vu[g].pc = "none" /\ vu'[g].pc = "loop" /\ vu'[g].id = i
                /\ \A h \in Starts : h # g => vu'[h] = vu[h]
                /\ vuCtxs' = [vuCtxs EXCEPT ![i] = g]
<1>1. vu \in [Starts -> [id : IDs, pc : PCs]] BY DEF TypeOK, PCs
<1>2. PICK g \in Fresh : /\ vu' = [vu EXCEPT ![g] = [id |-> i, pc |-> "loop"]]
                         /\ vuCtxs' = [vuCtxs EXCEPT ![i] = g]
                         /\ wg' = wg + 1 /\ activeVUs' = activeVUs + 1
  BY DEF Launch
<1>3. g \in Starts /\ vu[g].pc = "none" BY DEF Fresh
<1>4. [id |-> i, pc |-> "loop"] \in [id : IDs, pc : PCs] BY DEF PCs
<1>5. vu' \in [Starts -> [id : IDs, pc : PCs]] BY <1>1, <1>2, <1>3, <1>4
<1>6. vu'[g].pc = "loop" /\ vu'[g].id = i /\ \A h \in Starts : h # g => vu'[h] = vu[h]
  BY <1>1, <1>2, <1>3
<1> QED BY <1>2, <1>3, <1>5, <1>6

\* The number of goroutines in a set of places, when one moves.
LEMMA CountMoved ==
    ASSUME TypeOK, NEW P, NEW g \in Starts, NEW from, NEW to \in PCs, Move(g, from, to)
    PROVE  LET C == {h \in Starts : vu[h].pc \in P} IN
           /\ (from \in P /\ to \in P) \/ (from \notin P /\ to \notin P) => Cardinality(C') = Cardinality(C)
           /\ from \in P /\ to \notin P => Cardinality(C') = Cardinality(C) - 1
<1> DEFINE C == {h \in Starts : vu[h].pc \in P}
<1>0. /\ vu[g].pc = from /\ vu'[g].pc = to
      /\ \A h \in Starts : h # g => vu'[h] = vu[h]
  BY Moved
<1>1. IsFiniteSet(C) BY Sizes
<1>2. ASSUME (from \in P /\ to \in P) \/ (from \notin P /\ to \notin P) PROVE Cardinality(C') = Cardinality(C)
  <2>1. \A h \in Starts : vu'[h].pc \in P <=> vu[h].pc \in P BY <1>0, <1>2
  <2>2. C' = C BY <2>1
  <2> QED BY <2>2
<1>3. ASSUME from \in P, to \notin P PROVE Cardinality(C') = Cardinality(C) - 1
  <2>1. g \in C /\ C' = C \ {g} BY <1>0, <1>3
  <2> HIDE DEF C
  <2> QED BY <1>1, <2>1, FS_RemoveElement
<1> QED BY <1>2, <1>3, Zenon

\* The number of goroutines in a set of places, when one is started.
LEMMA CountLaunched ==
    ASSUME TypeOK, NEW P, "none" \notin P, "loop" \in P, NEW i \in IDs, Launch(i)
    PROVE  LET C == {h \in Starts : vu[h].pc \in P} IN Cardinality(C') = Cardinality(C) + 1
<1> DEFINE C == {h \in Starts : vu[h].pc \in P}
<1>1. PICK g \in Starts : /\ vu[g].pc = "none" /\ vu'[g].pc = "loop"
                          /\ \A h \in Starts : h # g => vu'[h] = vu[h]
  BY Launched
<1>2. g \notin C /\ C' = C \cup {g} BY <1>1
<1>3. IsFiniteSet(C) BY Sizes
<1>4. Cardinality(C') = Cardinality(C) + 1
  <2> HIDE DEF C
  <2> QED BY <1>2, <1>3, FS_AddElement
<1> QED BY <1>4

\* The loops of main start a goroutine for an id that is free, or do nothing.
LEMMA Starting ==
    ASSUME TypeOK, Kinds, ScaleUp \/ PreAllocate \/ Grow
    PROVE  /\ UNCHANGED <<mode, timed, target, stage, at, ticks, ctxVars, cancelled, work>>
           /\ main' # "returned" /\ main \notin {"returned", "wait"}
           /\ \/ UNCHANGED <<vu, vuCtxs, wg, activeVUs, inUse>>
              \/ \E i \in IDs : /\ Launch(i)
                                /\ IF Ramping THEN i \notin inUse /\ inUse' = inUse \cup {i}
                                   ELSE vuCtxs[i] = 0 /\ UNCHANGED inUse
<1> USE DEF ctxVars, vuVars
<1>0. index \in Nat /\ MaxVUs \in Nat \ {0} BY SizeAssumption DEF TypeOK
<1>1. CASE ScaleUp
  <2>1. Ramping /\ StartRampVU(index) BY <1>1 DEF ScaleUp, Kinds
  <2>2. CASE Acquire(index)
    <3>1. index \in IDs /\ index \notin inUse BY <1>0, <2>2 DEF Acquire, IDs
    <3>2. Launch(index) /\ inUse' = inUse \cup {index} /\ UNCHANGED cancelled
      BY <2>1, <2>2 DEF StartRampVU
    <3> QED BY <1>1, <2>1, <3>1, <3>2 DEF ScaleUp
  <2>3. CASE ~Acquire(index) BY <1>1, <2>1, <2>3 DEF ScaleUp, StartRampVU
  <2> QED BY <2>2, <2>3
<1>2. ASSUME NEW i \in Nat, StartVULocked(i)
      PROVE  /\ UNCHANGED <<cancelled, inUse>>
             /\ \/ UNCHANGED <<vu, vuCtxs, wg, activeVUs>>
                \/ i \in IDs /\ Launch(i) /\ vuCtxs[i] = 0
  <2>1. CASE i < MaxVUs /\ i \notin Registered
    <3>1. i \in IDs /\ vuCtxs[i] = 0 BY <1>0, <2>1 DEF IDs, Registered
    <3> QED BY <1>2, <2>1, <3>1 DEF StartVULocked
  <2>2. CASE ~(i < MaxVUs /\ i \notin Registered) BY <1>2, <2>2 DEF StartVULocked
  <2> QED BY <2>1, <2>2
<1>3. CASE PreAllocate
  <2>1. ~Ramping BY <1>3 DEF PreAllocate, Kinds
  <2>2. CASE index < PreAllocated
    <3>1. StartVULocked(index) BY <1>3, <2>2 DEF PreAllocate
    <3> QED BY <1>0, <1>2, <1>3, <2>1, <2>2, <3>1 DEF PreAllocate
  <2>3. CASE ~(index < PreAllocated) BY <1>3, <2>3 DEF PreAllocate
  <2> QED BY <2>2, <2>3
<1>4. CASE Grow
  <2>1. ~Ramping /\ StartVULocked(Cardinality(Registered)) BY <1>4 DEF Grow, Kinds
  <2>2. Cardinality(Registered) \in Nat BY Sizes DEF Registered
  <2> QED BY <1>2, <1>4, <2>1, <2>2 DEF Grow
<1> QED BY <1>1, <1>3, <1>4

-----------------------------------------------------------------------------
(* The types.                                                               *)

\* The target of a stage and the next point of the ramp are numbers.
LEMMA PointsOK ==
    ASSUME TypeOK
    PROVE  Targets(stage + 1) \subseteq Nat /\ Points \subseteq Nat
<1>1. \A n \in Nat \ {0} : Targets(n) \subseteq Nat
  <2>1. \A n \in Nat \ {0} : n <= Len(Stages) => Stages[n] \in Nat BY StageAssumption
  <2> QED BY <2>1, LimitAssumption DEF Targets
<1>2. stage + 1 \in Nat \ {0} BY StageAssumption DEF TypeOK
<1>3. Points \subseteq Nat BY DEF Points, TypeOK
<1> QED BY <1>1, <1>2, <1>3

\* The types.
LEMMA TypeStep ==
    ASSUME TypeOK, Kinds, [Next]_vars
    PROVE  TypeOK'
<1> USE SizeAssumption, StageAssumption, BoundAssumption DEF TypeOK, mainVars, ctxVars, vuVars
<1>0. Cardinality(Registered) \in Nat BY Sizes DEF Registered
<1>1. CASE UNCHANGED vars BY <1>1 DEF vars
<1>2. CASE RampTick
  <2>1. at' \in Nat BY <1>2, PointsOK DEF RampTick
  <2> QED BY <1>0, <1>2, <2>1 DEF RampTick
<1>3. CASE Generate BY <1>3 DEF Generate, Queue, QueueCap
<1>4. CASE ScaleUp \/ PreAllocate \/ Grow
  <2>1. UNCHANGED <<mode, timed, target, stage, at, ticks, ctxVars, cancelled, work>> BY <1>4, Starting
  <2>2. /\ index' \in Nat
        /\ main' \in {"start", "stage", "up", "generate", "grow", "again", "stop", "wait", "returned"}
    BY <1>4 DEF ScaleUp, PreAllocate, Grow
  <2>3. CASE UNCHANGED <<vu, vuCtxs, wg, activeVUs, inUse>> BY <2>1, <2>2, <2>3
  <2>4. CASE ~ UNCHANGED <<vu, vuCtxs, wg, activeVUs, inUse>>
    <3>1. PICK i \in IDs : Launch(i) /\ (inUse' = inUse \cup {i} \/ UNCHANGED inUse)
      BY <1>4, <2>4, Starting
    <3>2. /\ vu' \in [Starts -> [id : IDs, pc : PCs]] /\ wg' = wg + 1 /\ activeVUs' = activeVUs + 1
          /\ \E g \in Starts : vuCtxs' = [vuCtxs EXCEPT ![i] = g]
      BY <3>1, Launched
    <3>3. vuCtxs' \in [IDs -> {0} \cup Starts] BY <3>2
    <3>4. inUse' \subseteq IDs BY <3>1
    <3> QED BY <2>1, <2>2, <3>2, <3>3, <3>4 DEF PCs
  <2> QED BY <2>3, <2>4
<1>5. CASE ScaleDown
  <2>1. cancelled' \subseteq Starts BY <1>5 DEF ScaleDown, Registered
  <2>2. vuCtxs' \in [IDs -> {0} \cup Starts] BY <1>5 DEF ScaleDown
  <2> QED BY <1>5, <2>1, <2>2 DEF ScaleDown
<1>6. CASE StageEnds
  <2>1. at' \in Nat /\ target' \in Nat BY <1>6, PointsOK DEF StageEnds
  <2> QED BY <1>6, <2>1 DEF StageEnds
<1>7. CASE TryAgain BY <1>7 DEF TryAgain, Queue, QueueCap
<1>8. CASE ScheduleEnds BY <1>8 DEF ScheduleEnds
<1>9. CASE StopAllVUs
  <2>1. cancelled' \subseteq Starts BY <1>9 DEF StopAllVUs, Registered
  <2> QED BY <1>9, <2>1 DEF StopAllVUs
<1>10. CASE Return BY <1>10 DEF Return
<1>11. CASE Cancel BY <1>11 DEF Cancel
<1>12. CASE Stop BY <1>12 DEF Stop
<1>13. CASE DurationOver BY <1>13 DEF DurationOver
<1>14. ASSUME NEW g \in Starts, VU(g) PROVE TypeOK'
  <2>1. \E from, to \in PCs : Move(g, from, to)
    BY <1>14 DEF VU, Leave, StartIteration, EndIteration, Release, Uncount, WgDone, Delete, PCs
  <2>2. vu' \in [Starts -> [id : IDs, pc : {"none", "loop", "iter", "release", "uncount", "done", "delete", "exited"}]]
    BY <2>1, Moved DEF PCs
  <2>3. CASE Leave(g) BY <2>2, <2>3 DEF Leave
  <2>4. CASE StartIteration(g)
    <3>1. work' \in 0 .. QueueCap BY <2>4 DEF StartIteration, QueueCap
    <3> QED BY <2>2, <2>4, <3>1 DEF StartIteration
  <2>5. CASE EndIteration(g) BY <2>2, <2>5 DEF EndIteration
  <2>6. CASE Release(g) BY <2>2, <2>6 DEF Release
  <2>7. CASE Uncount(g) BY <2>2, <2>7 DEF Uncount
  <2>8. CASE WgDone(g) BY <2>2, <2>8 DEF WgDone
  <2>9. CASE Delete(g)
    <3>1. vuCtxs' \in [IDs -> {0} \cup Starts] BY <2>9 DEF Delete
    <3> QED BY <2>2, <2>9, <3>1 DEF Delete
  <2> QED BY <1>14, <2>3, <2>4, <2>5, <2>6, <2>7, <2>8, <2>9 DEF VU
<1> QED
  BY <1>1, <1>2, <1>3, <1>4, <1>5, <1>6, <1>7, <1>8, <1>9, <1>10, <1>11, <1>12, <1>13, <1>14
  DEF Next, Tick, Main, Finished

-----------------------------------------------------------------------------

Quiet == \/ UNCHANGED vars \/ RampTick \/ Generate \/ StageEnds \/ TryAgain \/ ScheduleEnds
         \/ Cancel \/ DurationOver

\* Main and the environment leave the goroutines alone unless they start or
\* cancel one.
LEMMA QuietSteps ==
    ASSUME Quiet
    PROVE  UNCHANGED <<mode, vuVars, stopped>> /\ (main' = "returned" => main = "returned")
BY DEF Quiet, RampTick, Generate, StageEnds, TryAgain, ScheduleEnds, Cancel, DurationOver,
   vars, mainVars, ctxVars

\* A step of a goroutine, by its place.
LEMMA VUSteps ==
    ASSUME TypeOK, Kinds, NEW g \in Starts, VU(g)
    PROVE  /\ UNCHANGED <<mode, main, stopped>>
           /\ \/ /\ \/ Move(g, "loop", IF Ramping THEN "release" ELSE "done")
                    \/ Move(g, "loop", "iter") \/ Move(g, "iter", "loop")
                    \/ Ramping /\ Move(g, "iter", "release")
                 /\ UNCHANGED <<vuCtxs, inUse, wg, activeVUs>>
              \/ /\ Ramping /\ Move(g, "release", "uncount") /\ inUse' = inUse \ {vu[g].id}
                 /\ UNCHANGED <<vuCtxs, wg, activeVUs>>
              \/ /\ Move(g, "uncount", IF Ramping THEN "done" ELSE "exited") /\ activeVUs' = activeVUs - 1
                 /\ UNCHANGED <<vuCtxs, inUse, wg>>
              \/ /\ Move(g, "done", IF Ramping THEN "exited" ELSE "delete") /\ wg' = wg - 1
                 /\ UNCHANGED <<vuCtxs, inUse, activeVUs>>
              \/ /\ ~Ramping /\ Move(g, "delete", "uncount") /\ vuCtxs' = [vuCtxs EXCEPT ![vu[g].id] = 0]
                 /\ UNCHANGED <<inUse, wg, activeVUs>>
<1> USE DEF mainVars, ctxVars
<1>0. vu[g].pc # IF Ramping THEN "delete" ELSE "release" BY DEF Kinds
<1>1. CASE Leave(g) BY <1>1 DEF Leave
<1>2. CASE StartIteration(g) BY <1>2 DEF StartIteration
<1>3. CASE EndIteration(g) BY <1>3 DEF EndIteration
<1>4. CASE Release(g)
  <2>1. Ramping BY <1>0, <1>4 DEF Release, Move
  <2> QED BY <1>4, <2>1 DEF Release
<1>5. CASE Uncount(g) BY <1>5 DEF Uncount
<1>6. CASE WgDone(g) BY <1>6 DEF WgDone
<1>7. CASE Delete(g)
  <2>1. ~Ramping BY <1>0, <1>7 DEF Delete, Move
  <2> QED BY <1>7, <2>1 DEF Delete
<1> QED BY <1>1, <1>2, <1>3, <1>4, <1>5, <1>6, <1>7 DEF VU

\* The steps, grouped by what they do to the goroutines.
LEMMA Steps ==
    ASSUME [Next]_vars
    PROVE  \/ Quiet \/ Return \/ ScaleDown \/ StopAllVUs \/ Stop
           \/ ScaleUp \/ PreAllocate \/ Grow
           \/ \E g \in Starts : VU(g)
BY DEF Next, Tick, Main, Finished, Quiet

\* The modes do not mix.
LEMMA KindsStep ==
    ASSUME TypeOK, Kinds, [Next]_vars
    PROVE  Kinds'
<1> USE DEF Kinds, Ramping, mainVars, ctxVars, vuVars
<1>1. CASE Quiet
  <2>1. UNCHANGED <<mode, vu>> BY <1>1, QuietSteps
  <2>2. main' \in IF Ramping THEN {"stage", "up", "stop", "wait", "returned"}
                  ELSE {"start", "generate", "grow", "again", "stop", "wait", "returned"}
    BY <1>1 DEF Quiet, RampTick, Generate, StageEnds, TryAgain, ScheduleEnds, Cancel, DurationOver, vars
  <2> QED BY <2>1, <2>2
<1>2. CASE Return BY <1>2 DEF Return
<1>3. CASE ScaleDown BY <1>3 DEF ScaleDown
<1>4. CASE StopAllVUs BY <1>4 DEF StopAllVUs
<1>5. CASE Stop BY <1>5 DEF Stop
<1>6. CASE ScaleUp \/ PreAllocate \/ Grow
  <2>1. UNCHANGED mode BY <1>6, Starting
  <2>2. main' \in IF Ramping THEN {"stage", "up", "stop", "wait", "returned"}
                  ELSE {"start", "generate", "grow", "again", "stop", "wait", "returned"}
    BY <1>6 DEF ScaleUp, PreAllocate, Grow
  <2>3. \A g \in Starts : vu'[g].pc = "loop" \/ vu'[g] = vu[g]
    BY <1>6, Starting, Launched
  <2> QED BY <2>1, <2>2, <2>3
<1>7. ASSUME NEW g \in Starts, VU(g) PROVE Kinds'
  <2>1. UNCHANGED <<mode, main>> BY <1>7, VUSteps
  <2>2. PICK from \in PCs, to \in PCs : Move(g, from, to) /\ to # IF Ramping THEN "delete" ELSE "release"
    BY <1>7, VUSteps DEF PCs
  <2>3. vu'[g].pc = to /\ \A h \in Starts : h # g => vu'[h] = vu[h] BY <2>2, Moved
  <2> QED BY <2>1, <2>2, <2>3
<1> QED BY <1>1, <1>2, <1>3, <1>4, <1>5, <1>6, <1>7, Steps

\* The WaitGroup counts the goroutines that have not called Done.
LEMMA WgCountsStep ==
    ASSUME TypeOK, Kinds, WgCounts, [Next]_vars
    PROVE  WgCounts'
<1> USE DEF WgCounts, mainVars, ctxVars, vuVars
<1>0. ASSUME UNCHANGED <<mode, vu, wg>> PROVE WgCounts' BY <1>0 DEF Live, Ramping
<1>1. CASE Quiet BY <1>0, <1>1, QuietSteps
<1>2. CASE Return \/ ScaleDown \/ StopAllVUs \/ Stop
  BY <1>0, <1>2 DEF Return, ScaleDown, StopAllVUs, Stop
<1>3. CASE ScaleUp \/ PreAllocate \/ Grow
  <2>1. UNCHANGED mode BY <1>3, Starting
  <2>2. CASE UNCHANGED <<vu, vuCtxs, wg, activeVUs, inUse>> BY <1>0, <2>1, <2>2
  <2>3. ASSUME NEW i \in IDs, Launch(i) PROVE WgCounts'
    <3>1. wg' = wg + 1 BY <2>3, Launched
    <3>2. CASE Ramping
      <4>1. Live = RampLive /\ Live' = RampLive BY <2>1, <3>2 DEF Live, Ramping
      <4>2. Cardinality({g \in Starts : vu'[g].pc \in RampLive})
              = Cardinality({g \in Starts : vu[g].pc \in RampLive}) + 1
        BY <2>3, CountLaunched DEF RampLive
      <4> QED BY <3>1, <4>1, <4>2
    <3>3. CASE ~Ramping
      <4>1. Live = RateLive /\ Live' = RateLive BY <2>1, <3>3 DEF Live, Ramping
      <4>2. Cardinality({g \in Starts : vu'[g].pc \in RateLive})
              = Cardinality({g \in Starts : vu[g].pc \in RateLive}) + 1
        BY <2>3, CountLaunched DEF RateLive
      <4> QED BY <3>1, <4>1, <4>2
    <3> QED BY <3>2, <3>3
  <2> QED BY <1>3, <2>2, <2>3, Starting
<1>4. ASSUME NEW g \in Starts, VU(g) PROVE WgCounts'
  <2>1. UNCHANGED mode BY <1>4, VUSteps
  <2>2. CASE Ramping
    <3>1. Live = RampLive /\ Live' = RampLive BY <2>1, <2>2 DEF Live, Ramping
    <3>2. PICK from \in PCs, to \in PCs :
            /\ Move(g, from, to)
            /\ \/ /\ (from \in RampLive /\ to \in RampLive) \/ (from \notin RampLive /\ to \notin RampLive)
                  /\ wg' = wg
               \/ from \in RampLive /\ to \notin RampLive /\ wg' = wg - 1
      BY <1>4, <2>2, VUSteps DEF PCs, RampLive
    <3>3. \/ /\ Cardinality({h \in Starts : vu'[h].pc \in RampLive})
                  = Cardinality({h \in Starts : vu[h].pc \in RampLive})
             /\ wg' = wg
          \/ /\ Cardinality({h \in Starts : vu'[h].pc \in RampLive})
                  = Cardinality({h \in Starts : vu[h].pc \in RampLive}) - 1
             /\ wg' = wg - 1
      BY <3>2, CountMoved
    <3> QED BY <3>1, <3>3
  <2>3. CASE ~Ramping
    <3>1. Live = RateLive /\ Live' = RateLive BY <2>1, <2>3 DEF Live, Ramping
    <3>2. PICK from \in PCs, to \in PCs :
            /\ Move(g, from, to)
            /\ \/ /\ (from \in RateLive /\ to \in RateLive) \/ (from \notin RateLive /\ to \notin RateLive)
                  /\ wg' = wg
               \/ from \in RateLive /\ to \notin RateLive /\ wg' = wg - 1
      BY <1>4, <2>3, VUSteps DEF PCs, RateLive
    <3>3. \/ /\ Cardinality({h \in Starts : vu'[h].pc \in RateLive})
                  = Cardinality({h \in Starts : vu[h].pc \in RateLive})
             /\ wg' = wg
          \/ /\ Cardinality({h \in Starts : vu'[h].pc \in RateLive})
                  = Cardinality({h \in Starts : vu[h].pc \in RateLive}) - 1
             /\ wg' = wg - 1
      BY <3>2, CountMoved
    <3> QED BY <3>1, <3>3
  <2> QED BY <2>2, <2>3
<1> QED BY <1>1, <1>2, <1>3, <1>4, Steps

\* The engine counts the VUs it reports as active.
LEMMA ActiveCountsStep ==
    ASSUME TypeOK, Kinds, ActiveCounts, [Next]_vars
    PROVE  ActiveCounts'
<1> USE DEF ActiveCounts, mainVars, ctxVars, vuVars
<1>0. ASSUME UNCHANGED <<mode, vu, activeVUs>> PROVE ActiveCounts' BY <1>0 DEF Active, Ramping
<1>1. CASE Quiet BY <1>0, <1>1, QuietSteps
<1>2. CASE Return \/ ScaleDown \/ StopAllVUs \/ Stop
  BY <1>0, <1>2 DEF Return, ScaleDown, StopAllVUs, Stop
<1>3. CASE ScaleUp \/ PreAllocate \/ Grow
  <2>1. UNCHANGED mode BY <1>3, Starting
  <2>2. CASE UNCHANGED <<vu, vuCtxs, wg, activeVUs, inUse>> BY <1>0, <2>1, <2>2
  <2>3. ASSUME NEW i \in IDs, Launch(i) PROVE ActiveCounts'
    <3>1. activeVUs' = activeVUs + 1 BY <2>3, Launched
    <3>2. CASE Ramping
      <4>1. Active = RampActive /\ Active' = RampActive BY <2>1, <3>2 DEF Active, Ramping
      <4>2. Cardinality({g \in Starts : vu'[g].pc \in RampActive})
              = Cardinality({g \in Starts : vu[g].pc \in RampActive}) + 1
        BY <2>3, CountLaunched DEF RampActive
      <4> QED BY <3>1, <4>1, <4>2
    <3>3. CASE ~Ramping
      <4>1. Active = RateActive /\ Active' = RateActive BY <2>1, <3>3 DEF Active, Ramping
      <4>2. Cardinality({g \in Starts : vu'[g].pc \in RateActive})
              = Cardinality({g \in Starts : vu[g].pc \in RateActive}) + 1
        BY <2>3, CountLaunched DEF RateActive
      <4> QED BY <3>1, <4>1, <4>2
    <3> QED BY <3>2, <3>3
  <2> QED BY <1>3, <2>2, <2>3, Starting
<1>4. ASSUME NEW g \in Starts, VU(g) PROVE ActiveCounts'
  <2>1. UNCHANGED mode BY <1>4, VUSteps
  <2>2. CASE Ramping
    <3>1. Active = RampActive /\ Active' = RampActive BY <2>1, <2>2 DEF Active, Ramping
    <3>2. PICK from \in PCs, to \in PCs :
            /\ Move(g, from, to)
            /\ \/ /\ (from \in RampActive /\ to \in RampActive) \/ (from \notin RampActive /\ to \notin RampActive)
                  /\ activeVUs' = activeVUs
               \/ from \in RampActive /\ to \notin RampActive /\ activeVUs' = activeVUs - 1
      BY <1>4, <2>2, VUSteps DEF PCs, RampActive
    <3>3. \/ /\ Cardinality({h \in Starts : vu'[h].pc \in RampActive})
                  = Cardinality({h \in Starts : vu[h].pc \in RampActive})
             /\ activeVUs' = activeVUs
          \/ /\ Cardinality({h \in Starts : vu'[h].pc \in RampActive})
                  = Cardinality({h \in Starts : vu[h].pc \in RampActive}) - 1
             /\ activeVUs' = activeVUs - 1
      BY <3>2, CountMoved
    <3> QED BY <3>1, <3>3
  <2>3. CASE ~Ramping
    <3>1. Active = RateActive /\ Active' = RateActive BY <2>1, <2>3 DEF Active, Ramping
    <3>2. PICK from \in PCs, to \in PCs :
            /\ Move(g, from, to)
            /\ \/ /\ (from \in RateActive /\ to \in RateActive) \/ (from \notin RateActive /\ to \notin RateActive)
                  /\ activeVUs' = activeVUs
               \/ from \in RateActive /\ to \notin RateActive /\ activeVUs' = activeVUs - 1
      BY <1>4, <2>3, VUSteps DEF PCs, RateActive
    <3>3. \/ /\ Cardinality({h \in Starts : vu'[h].pc \in RateActive})
                  = Cardinality({h \in Starts : vu[h].pc \in RateActive})
             /\ activeVUs' = activeVUs
          \/ /\ Cardinality({h \in Starts : vu'[h].pc \in RateActive})
                  = Cardinality({h \in Starts : vu[h].pc \in RateActive}) - 1
             /\ activeVUs' = activeVUs - 1
      BY <3>2, CountMoved
    <3> QED BY <3>1, <3>3
  <2> QED BY <2>2, <2>3
<1> QED BY <1>1, <1>2, <1>3, <1>4, Steps

\* The pool gives an id to one goroutine, which frees it when it is done with it.
LEMMA SlotsStep ==
    ASSUME TypeOK, Kinds, Slots, [Next]_vars
    PROVE  Slots'
<1> USE DEF Slots, Slot, mainVars, ctxVars, vuVars
<1>0. ASSUME UNCHANGED <<mode, vu, stopped, inUse>> PROVE Slots' BY <1>0 DEF Ramping
<1>1. CASE Quiet BY <1>0, <1>1, QuietSteps
<1>2. CASE Return \/ ScaleDown \/ StopAllVUs BY <1>0, <1>2 DEF Return, ScaleDown, StopAllVUs
<1>3. CASE Stop BY <1>3 DEF Stop
<1>4. CASE ScaleUp \/ PreAllocate \/ Grow
  <2>1. UNCHANGED <<mode, stopped>> BY <1>4, Starting
  <2>2. CASE UNCHANGED <<vu, vuCtxs, wg, activeVUs, inUse>> BY <1>0, <2>1, <2>2
  <2>3. CASE ~Ramping \/ stopped BY <2>1, <2>3 DEF Ramping
  <2>4. ASSUME NEW i \in IDs, Launch(i), Ramping, ~stopped, i \notin inUse, inUse' = inUse \cup {i}
        PROVE  Slots'
    <3>1. PICK g \in Starts : /\ vu[g].pc = "none" /\ vu'[g].pc = "loop" /\ vu'[g].id = i
                              /\ \A h \in Starts : h # g => vu'[h] = vu[h]
      BY <2>4, Launched
    <3>2. \A h \in Starts : h # g /\ Slot(h)' => Slot(h) /\ vu'[h].id = vu[h].id /\ vu[h].id # i
      BY <2>4, <3>1
    <3>3. \A h \in Starts : Slot(h)' => vu'[h].id \in inUse' BY <2>4, <3>1, <3>2
    <3>4. \A h, k \in Starts : Slot(h)' /\ Slot(k)' /\ vu'[h].id = vu'[k].id => h = k
      BY <2>4, <3>1, <3>2
    <3> QED BY <3>3, <3>4
  <2> QED BY <1>4, <2>2, <2>3, <2>4, Starting
<1>5. ASSUME NEW g \in Starts, VU(g) PROVE Slots'
  <2>1. UNCHANGED <<mode, stopped>> BY <1>5, VUSteps
  <2>2. CASE ~Ramping \/ stopped BY <2>1, <2>2 DEF Ramping
  <2>3. CASE Ramping /\ ~stopped
    <3>1. PICK from \in PCs, to \in PCs :
            /\ Move(g, from, to)
            /\ \/ /\ to \in {"loop", "iter", "release"} => from \in {"loop", "iter", "release"}
                  /\ UNCHANGED inUse
               \/ /\ from = "release" /\ to = "uncount"
                  /\ inUse' = inUse \ {vu[g].id}
      BY <1>5, <2>3, VUSteps DEF PCs
    <3>2. /\ vu[g].pc = from /\ vu'[g].pc = to /\ vu'[g].id = vu[g].id
          /\ \A h \in Starts : h # g => vu'[h] = vu[h]
      BY <3>1, Moved
    <3>3. \A h \in Starts : Slot(h)' => Slot(h) /\ vu'[h].id = vu[h].id BY <3>1, <3>2
    <3>4. CASE UNCHANGED inUse BY <2>1, <2>3, <3>3, <3>4
    <3>5. CASE from = "release" /\ to = "uncount" /\ inUse' = inUse \ {vu[g].id}
      <4>1. Slot(g) /\ ~ Slot(g)' BY <3>2, <3>5
      <4>2. \A h \in Starts : Slot(h)' => vu[h].id # vu[g].id BY <2>3, <3>3, <4>1
      <4>3. \A h \in Starts : Slot(h)' => vu'[h].id \in inUse' BY <2>3, <3>3, <3>5, <4>2
      <4>4. \A h, k \in Starts : Slot(h)' /\ Slot(k)' /\ vu'[h].id = vu'[k].id => h = k
        BY <2>3, <3>3
      <4> QED BY <4>3, <4>4
    <3> QED BY <3>1, <3>4, <3>5
  <2> QED BY <2>2, <2>3
<1> QED BY <1>1, <1>2, <1>3, <1>4, <1>5, Steps

\* The map gives an id to one goroutine, which deletes its entry itself.
LEMMA EntriesStep ==
    ASSUME TypeOK, Kinds, Entries, [Next]_vars
    PROVE  Entries'
<1> USE DEF Entries, mainVars, ctxVars, vuVars
<1>0. ASSUME UNCHANGED <<mode, vu, vuCtxs>> PROVE Entries' BY <1>0 DEF Ramping
<1>1. CASE Quiet BY <1>0, <1>1, QuietSteps
<1>2. CASE Return \/ StopAllVUs \/ Stop BY <1>0, <1>2 DEF Return, StopAllVUs, Stop
<1>3. CASE ScaleDown
  <2>1. Ramping /\ UNCHANGED mode BY <1>3 DEF ScaleDown, Kinds
  <2> QED BY <2>1 DEF Ramping
<1>4. CASE ScaleUp \/ PreAllocate \/ Grow
  <2>1. UNCHANGED mode BY <1>4, Starting
  <2>2. CASE UNCHANGED <<vu, vuCtxs, wg, activeVUs, inUse>> BY <1>0, <2>1, <2>2
  <2>3. CASE Ramping BY <2>1, <2>3 DEF Ramping
  <2>4. ASSUME NEW i \in IDs, Launch(i), ~Ramping, vuCtxs[i] = 0 PROVE Entries'
    <3>1. PICK g \in Starts : /\ vu'[g].pc = "loop" /\ vu'[g].id = i
                              /\ \A h \in Starts : h # g => vu'[h] = vu[h]
                              /\ vuCtxs' = [vuCtxs EXCEPT ![i] = g]
      BY <2>4, Launched
    <3>2. vuCtxs'[i] = g /\ \A j \in IDs : j # i => vuCtxs'[j] = vuCtxs[j] BY <3>1 DEF TypeOK
    <3>3. \A h \in Starts : h # 0 /\ vu[h].id \in IDs BY BoundAssumption DEF TypeOK, Starts
    <3>4. ASSUME NEW h \in Starts, vu'[h].pc \in {"loop", "iter", "done", "delete"}
          PROVE  vuCtxs'[vu'[h].id] = h
      <4>1. CASE h = g BY <3>1, <3>2, <4>1
      <4>2. CASE h # g
        <5>1. vuCtxs[vu[h].id] = h /\ vu'[h] = vu[h] BY <2>4, <3>1, <3>4, <4>2
        <5>2. vu[h].id # i BY <2>4, <3>3, <5>1
        <5> QED BY <3>2, <3>3, <5>1, <5>2
      <4> QED BY <4>1, <4>2
    <3> QED BY <3>4
  <2> QED BY <1>4, <2>2, <2>3, <2>4, Starting
<1>5. ASSUME NEW g \in Starts, VU(g) PROVE Entries'
  <2>1. UNCHANGED mode BY <1>5, VUSteps
  <2>2. CASE Ramping BY <2>1, <2>2 DEF Ramping
  <2>3. CASE ~Ramping
    <3> DEFINE P == {"loop", "iter", "done", "delete"}
    <3>1. PICK from \in PCs, to \in PCs :
            /\ Move(g, from, to)
            /\ \/ (to \in P => from \in P) /\ UNCHANGED vuCtxs
               \/ from = "delete" /\ to = "uncount" /\ vuCtxs' = [vuCtxs EXCEPT ![vu[g].id] = 0]
      BY <1>5, <2>3, VUSteps DEF PCs
    <3>2. /\ vu[g].pc = from /\ vu'[g].pc = to /\ vu'[g].id = vu[g].id
          /\ \A h \in Starts : h # g => vu'[h] = vu[h]
      BY <3>1, Moved
    <3>3. \A h \in Starts : vu[h].id \in IDs BY DEF TypeOK
    <3>4. CASE (to \in P => from \in P) /\ UNCHANGED vuCtxs
      <4>1. \A h \in Starts : vu'[h].pc \in P => vu[h].pc \in P /\ vu'[h].id = vu[h].id BY <3>2, <3>4
      <4> QED BY <2>3, <3>4, <4>1
    <3>5. CASE from = "delete" /\ to = "uncount" /\ vuCtxs' = [vuCtxs EXCEPT ![vu[g].id] = 0]
      <4>1. vuCtxs[vu[g].id] = g BY <2>3, <3>2, <3>5
      <4>2. \A h \in Starts : vu'[h].pc \in P => h # g /\ vu'[h] = vu[h] /\ vuCtxs[vu[h].id] = h
        BY <2>3, <3>2, <3>5
      <4>3. \A j \in IDs : j # vu[g].id => vuCtxs'[j] = vuCtxs[j] BY <3>5 DEF TypeOK
      <4> QED BY <3>3, <4>1, <4>2, <4>3
    <3> QED BY <3>1, <3>4, <3>5
  <2> QED BY <2>2, <2>3
<1> QED BY <1>1, <1>2, <1>3, <1>4, <1>5, Steps

\* The call returns when the WaitGroup is at zero, and starts nothing afterwards.
LEMMA AloneStep ==
    ASSUME TypeOK, Kinds, WgCounts, Alone, [Next]_vars
    PROVE  Alone'
<1> USE DEF Alone, mainVars, ctxVars, vuVars
<1>1. CASE Quiet
  <2>1. UNCHANGED <<mode, vu>> /\ (main' = "returned" => main = "returned") BY <1>1, QuietSteps
  <2> QED BY <2>1 DEF Live, Ramping
<1>2. CASE Return
  <2> DEFINE C == {g \in Starts : vu[g].pc \in Live}
  <2>1. IsFiniteSet(C) BY Sizes
  <2>2. Cardinality(C) = 0 BY <1>2 DEF Return, WgCounts
  <2>3. C = {} BY <2>1, <2>2, FS_EmptySet
  <2>4. UNCHANGED <<mode, vu>> BY <1>2 DEF Return
  <2> QED BY <2>3, <2>4 DEF Live, Ramping
<1>3. CASE ScaleDown \/ StopAllVUs BY <1>3 DEF ScaleDown, StopAllVUs
<1>4. CASE Stop BY <1>4 DEF Stop, Live, Ramping
<1>5. CASE ScaleUp \/ PreAllocate \/ Grow BY <1>5, Starting
<1>6. ASSUME NEW g \in Starts, VU(g) PROVE Alone'
  <2>1. UNCHANGED <<mode, main>> BY <1>6, VUSteps
  <2>2. Live' = Live BY <2>1 DEF Live, Ramping
  <2>3. PICK from \in PCs, to \in PCs : Move(g, from, to) /\ (from \notin Live => to \notin Live)
    BY <1>6, VUSteps DEF PCs, Live, RampLive, RateLive
  <2>4. /\ vu[g].pc = from /\ vu'[g].pc = to
        /\ \A h \in Starts : h # g => vu'[h] = vu[h]
    BY <2>3, Moved
  <2> QED BY <2>1, <2>2, <2>3, <2>4
<1> QED BY <1>1, <1>2, <1>3, <1>4, <1>5, <1>6, Steps

-----------------------------------------------------------------------------

\* The initial state: no goroutine has been started.
LEMMA InitIInv == Init => IInv
<1> SUFFICES ASSUME Init PROVE IInv
    OBVIOUS
<1> USE SizeAssumption, StageAssumption, BoundAssumption DEF Init
<1>0. \A g \in Starts : vu[g].pc = "none" OBVIOUS
<1>1. TypeOK
  <2>1. mode \in Modes /\ timed \in BOOLEAN OBVIOUS
  <2>2. main \in {"start", "stage"} OBVIOUS
  <2>3. /\ stage \in 1 .. (Len(Stages) + 1) /\ at \in Nat /\ index \in Nat
        /\ ticks \in 0 .. MaxTicks /\ wg \in Int /\ activeVUs \in Int /\ work \in 0 .. QueueCap
    BY DEF QueueCap
  <2>8. target \in Nat
    <3>1. \A m \in Limits : (IF Stages[1] > m THEN m ELSE Stages[1]) \in Nat BY LimitAssumption
    <3> QED BY <3>1 DEF Targets
  <2>4. ctxDone \in BOOLEAN /\ stopped \in BOOLEAN /\ overtime \in BOOLEAN OBVIOUS
  <2>5. 0 \in IDs BY DEF IDs
  <2>6. vu \in [Starts -> [id : IDs, pc : PCs]] BY <2>5 DEF PCs
  <2>7. vuCtxs \in [IDs -> {0} \cup Starts] /\ cancelled \subseteq Starts /\ inUse \subseteq IDs OBVIOUS
  <2> QED BY <2>1, <2>2, <2>3, <2>4, <2>6, <2>7, <2>8 DEF TypeOK, PCs
<1>2. Kinds BY <1>0 DEF Kinds
<1>3. WgCounts
  <2>1. {g \in Starts : vu[g].pc \in Live} = {} BY <1>0 DEF Live, RampLive, RateLive
  <2> QED BY <2>1, FS_EmptySet DEF WgCounts
<1>4. ActiveCounts
  <2>1. {g \in Starts : vu[g].pc \in Active} = {} BY <1>0 DEF Active, RampActive, RateActive
  <2> QED BY <2>1, FS_EmptySet DEF ActiveCounts
<1>5. Slots BY <1>0 DEF Slots, Slot
<1>6. Entries BY <1>0 DEF Entries
<1>7. Alone BY DEF Alone
<1> QED BY <1>1, <1>2, <1>3, <1>4, <1>5, <1>6, <1>7 DEF IInv

\* The inductive invariant holds in every reachable state.
THEOREM Inductive == Spec => []IInv
<1>1. IInv /\ [Next]_vars => IInv'
  BY TypeStep, KindsStep, WgCountsStep, ActiveCountsStep, SlotsStep, EntriesStep, AloneStep DEF IInv
<1> QED BY <1>1, InitIInv, PTL DEF Spec

\* TypeOK holds in every reachable state of the three modes.
THEOREM TypeCorrect == Spec => []TypeOK
<1>1. IInv => TypeOK BY DEF IInv
<1> QED BY <1>1, Inductive, PTL

\* No two goroutines run iterations under one VU id.
THEOREM OneVUPerIdTheorem == Spec => []OneVUPerId
<1>1. IInv => OneVUPerId
  BY DEF IInv, Slots, Slot, Entries, OneVUPerId, Working
<1> QED BY <1>1, Inductive, PTL

\* A call that has returned has left no VU that could run an iteration.
THEOREM ReturnsAloneTheorem == Spec => []ReturnsAlone
<1>1. IInv => ReturnsAlone
  <2> SUFFICES ASSUME IInv, main = "returned"
               PROVE  /\ \A g \in Starts : vu[g].pc \in {"none", "exited"} \cup (IF Ramping THEN {} ELSE {"delete", "uncount"})
                      /\ Ramping => activeVUs = 0
      BY DEF ReturnsAlone
  <2>0. \A g \in Starts : vu[g].pc \in PCs BY DEF IInv, TypeOK, PCs
  <2>1. \A g \in Starts : vu[g].pc \notin Live BY DEF IInv, Alone
  <2>2. \A g \in Starts : vu[g].pc # IF Ramping THEN "delete" ELSE "release" BY DEF IInv, Kinds
  <2>3. \A g \in Starts : vu[g].pc \in {"none", "exited"} \cup (IF Ramping THEN {} ELSE {"delete", "uncount"})
    BY <2>0, <2>1, <2>2 DEF PCs, Live, RampLive, RateLive
  <2>4. ASSUME Ramping PROVE activeVUs = 0
    <3>1. {g \in Starts : vu[g].pc \in Active} = {} BY <2>3, <2>4 DEF Active, RampActive
    <3> QED BY <3>1, FS_EmptySet DEF IInv, ActiveCounts
  <2> QED BY <2>3, <2>4
<1> QED BY <1>1, Inductive, PTL
=============================================================================
