------------------------ MODULE FixedIterations_proofs ------------------------
(***************************************************************************)
(* Proofs about FixedIterations for any number of VUs, iterations and       *)
(* failures and any pool.  IInv says which iterations have been started,    *)
(* from where the VUs are: in the shared mode those taken from the channel  *)
(* by a VU that is past its check, with own quotas those before the VU's    *)
(* own counter.                                                             *)
(***************************************************************************)
EXTENDS FixedIterations, FiniteSetTheorems, TLAPS

Ended == {"release", "uncount", "done", "exited"}

\* VUs are launched in order, and the call returns after all have ended.
Phases ==
    /\ main # "launch" => launched = VUs
    /\ main = "returned" => \A i \in VUIDs : vu[i] \in {"none", "exited"}
    /\ \A i \in VUIDs : vu[i] = "none" <=> i >= launched \/ i >= PoolSize
    /\ ~shared => \A i \in VUIDs : vu[i] # "check"

\* The WaitGroup counts the goroutines that have not called Done.
Counts == wg = Cardinality(Waited)

\* An iteration in hand is one of the budget.
InRange ==
    /\ \A i \in VUIDs : vu[i] \in {"check", "iter"} => iter[i] < N
    /\ \A k \in Items : ran[k] \in {0, 1}

\* The channel: an iteration is started by the one VU that has taken it.
SharedOnce ==
    shared =>
        /\ \A k \in Items : k[1] # 0 \/ k[2] >= nextIter => ran[k] = 0
        /\ \A i \in VUIDs : vu[i] = "check" => iter[i] < nextIter /\ ran[<<0, iter[i]>>] = 0
        /\ \A i, j \in VUIDs : vu[i] = "check" /\ vu[j] = "check" /\ iter[i] = iter[j] => i = j

\* What has been taken is started, or will be by the VU that has it.
SharedAll ==
    shared /\ ~ctxDone =>
        /\ \A k \in Items : k[1] = 0 /\ k[2] < nextIter =>
               ran[k] = 1 \/ \E i \in VUIDs : vu[i] = "check" /\ iter[i] = k[2]
        /\ \A i \in VUIDs : vu[i] \in Ended => nextIter = N

\* The quotas: the iterations before the VU's counter are started, the ones
\* after it are not.
OwnOnce ==
    ~shared => \A k \in Items :
        /\ k[2] < iter[k[1]] => ran[k] = 1
        /\ k[2] > iter[k[1]] => ran[k] = 0
        /\ k[2] = iter[k[1]] /\ vu[k[1]] \in {"none", "loop"} => ran[k] = 0
        /\ k[2] = iter[k[1]] /\ vu[k[1]] = "iter" => ran[k] = 1

OwnAll ==
    /\ ~shared /\ ~ctxDone /\ failures = 0 => \A i \in VUIDs : vu[i] \in Ended => iter[i] = N
    /\ failures = 0 => \A i \in VUIDs : vu[i] # "send"

\* A failure is in the channel or about to be sent.
Errors ==
    /\ errs > 0 => failures > 0
    /\ ~ctxDone /\ failures > 0 => errs > 0 \/ \E i \in VUIDs : vu[i] = "send"
    /\ main = "returned" => (result = "error" <=> errs > 0)

IInv == TypeOK /\ Phases /\ Counts /\ InRange /\ SharedOnce /\ SharedAll /\ OwnOnce /\ OwnAll /\ Errors

-----------------------------------------------------------------------------

\* The iteration VU i starts is one of the budget.
LEMMA ItemIn ==
    ASSUME TypeOK, NEW i \in VUIDs, iter[i] < N
    PROVE  Item(i) \in Items
BY SizeAssumption DEF Item, Items, VUIDs, TypeOK

\* An iteration is a pair of a VU and a number.
LEMMA ItemParts == \A k \in Items : k[1] \in VUIDs /\ k[2] \in 0 .. (N - 1) /\ k = <<k[1], k[2]>>
BY DEF Items

\* Starting an iteration changes its own count and no other.
LEMMA StartSteps ==
    ASSUME TypeOK, NEW i \in VUIDs, iter[i] < N, StartIteration(i)
    PROVE  /\ ran' \in [Items -> Nat] /\ ran'[Item(i)] = ran[Item(i)] + 1
           /\ \A k \in Items : k # Item(i) => ran'[k] = ran[k]
BY ItemIn DEF StartIteration, TypeOK

\* The types.
LEMMA TypeStep ==
    ASSUME TypeOK, InRange, [Next]_vars
    PROVE  TypeOK'
<1> USE SizeAssumption, BoundAssumption DEF TypeOK, mainVars, poolVars, Move, Working, VUIDs
<1>1. CASE UNCHANGED vars BY <1>1 DEF vars
<1>2. CASE LaunchVU
  <2>1. launched \in VUIDs /\ launched' \in 0 .. VUs BY <1>2 DEF LaunchVU
  <2>2. CASE launched < PoolSize
    <3>1. vu' \in [VUIDs -> {"none", "exited"} \cup Working] /\ inUse' \subseteq VUIDs
      BY <1>2, <2>1, <2>2 DEF LaunchVU
    <3>2. wg' \in Int /\ activeVUs' \in Int BY <1>2, <2>2 DEF LaunchVU
    <3> QED BY <1>2, <2>1, <3>1, <3>2 DEF LaunchVU
  <2>3. CASE ~(launched < PoolSize) BY <1>2, <2>1, <2>3 DEF LaunchVU
  <2> QED BY <2>2, <2>3
<1>3. CASE CallWait BY <1>3 DEF CallWait
<1>4. CASE Return BY <1>4 DEF Return
<1>5. CASE Cancel BY <1>5 DEF Cancel
<1>6. ASSUME NEW i \in VUIDs, VU(i) PROVE TypeOK'
  <2>1. CASE Take(i) BY <2>1 DEF Take
  <2>2. CASE Check(i)
    <3>1. CASE ctxDone BY <2>2, <3>1 DEF Check
    <3>2. CASE ~ctxDone
      <4>1. ran' \in [Items -> Nat] BY <2>2, <3>2, StartSteps DEF Check, InRange
      <4> QED BY <2>2, <3>2, <4>1 DEF Check
    <3> QED BY <3>1, <3>2
  <2>3. CASE RunVULoop(i)
    <3>1. CASE ctxDone \/ iter[i] >= N BY <2>3, <3>1 DEF RunVULoop
    <3>2. CASE ~(ctxDone \/ iter[i] >= N)
      <4>1. iter[i] < N BY <3>2
      <4>2. ran' \in [Items -> Nat] BY <2>3, <3>2, <4>1, StartSteps DEF RunVULoop
      <4> QED BY <2>3, <3>2, <4>2 DEF RunVULoop
    <3> QED BY <3>1, <3>2
  <2>4. CASE IterationOk(i)
    <3>1. iter[i] < N BY <2>4 DEF IterationOk, InRange
    <3>2. iter' \in [VUIDs -> 0 .. N] /\ iterations' \in Nat
      <4>1. CASE shared BY <2>4, <4>1 DEF IterationOk
      <4>2. CASE ~shared BY <2>4, <3>1, <4>2 DEF IterationOk
      <4> QED BY <4>1, <4>2
    <3> QED BY <2>4, <3>2 DEF IterationOk
  <2>5. CASE IterationFails(i) BY <2>5 DEF IterationFails
  <2>6. CASE SendErr(i) BY <2>6 DEF SendErr
  <2>7. CASE Release(i) BY <2>7 DEF Release
  <2>8. CASE Uncount(i) BY <2>8 DEF Uncount
  <2>9. CASE WgDone(i) BY <2>9 DEF WgDone
  <2> QED BY <1>6, <2>1, <2>2, <2>3, <2>4, <2>5, <2>6, <2>7, <2>8, <2>9 DEF VU
<1> QED BY <1>1, <1>2, <1>3, <1>4, <1>5, <1>6 DEF Next, Main, Finished, Hangs

\* The order of the call.
LEMMA PhasesStep ==
    ASSUME TypeOK, Phases, Counts, [Next]_vars
    PROVE  Phases'
<1> USE SizeAssumption DEF Phases, mainVars, poolVars, Move, VUIDs
<1>0. vu \in [VUIDs -> {"none", "exited"} \cup Working] /\ launched \in 0 .. VUs BY DEF TypeOK
<1>1. CASE UNCHANGED vars BY <1>1 DEF vars
<1>2. CASE LaunchVU BY <1>0, <1>2 DEF LaunchVU
<1>3. CASE CallWait BY <1>0, <1>3 DEF CallWait
<1>4. CASE Return
  <2>1. Waited \subseteq VUIDs /\ IsFiniteSet(VUIDs) BY FS_Interval DEF Waited
  <2>2. IsFiniteSet(Waited) BY <2>1, FS_Subset
  <2>3. Cardinality(Waited) = 0 BY <1>4 DEF Return, Counts
  <2>4. Waited = {} BY <2>2, <2>3, FS_EmptySet
  <2>5. \A i \in VUIDs : vu[i] \in {"none", "exited"} BY <1>0, <2>4 DEF Waited
  <2> QED BY <1>4, <2>5 DEF Return
<1>5. CASE Cancel BY <1>0, <1>5 DEF Cancel
<1>6. ASSUME NEW i \in VUIDs, VU(i) PROVE Phases'
  <2>1. CASE Take(i) BY <1>0, <2>1 DEF Take
  <2>2. CASE Check(i) BY <1>0, <2>2 DEF Check
  <2>3. CASE RunVULoop(i) BY <1>0, <2>3 DEF RunVULoop
  <2>4. CASE IterationOk(i) BY <1>0, <2>4 DEF IterationOk
  <2>5. CASE IterationFails(i) BY <1>0, <2>5 DEF IterationFails
  <2>6. CASE SendErr(i) BY <1>0, <2>6 DEF SendErr
  <2>7. CASE Release(i) BY <1>0, <2>7 DEF Release
  <2>8. CASE Uncount(i) BY <1>0, <2>8 DEF Uncount
  <2>9. CASE WgDone(i) BY <1>0, <2>9 DEF WgDone
  <2> QED BY <1>6, <2>1, <2>2, <2>3, <2>4, <2>5, <2>6, <2>7, <2>8, <2>9 DEF VU
<1> QED BY <1>1, <1>2, <1>3, <1>4, <1>5, <1>6 DEF Next, Main, Finished, Hangs

\* The WaitGroup: a goroutine is counted from its launch to its last deferred call.
LEMMA CountsStep ==
    ASSUME TypeOK, Phases, Counts, [Next]_vars
    PROVE  Counts'
<1> USE SizeAssumption DEF Counts, mainVars, poolVars
<1>0. vu \in [VUIDs -> {"none", "exited"} \cup Working] /\ launched \in 0 .. VUs BY DEF TypeOK
<1>a. IsFiniteSet(Waited) /\ Cardinality(Waited) \in Nat
  <2>1. Waited \subseteq VUIDs /\ IsFiniteSet(VUIDs) BY FS_Interval DEF Waited, VUIDs
  <2> QED BY <2>1, FS_Subset, FS_CardinalityType
<1>b. ASSUME NEW i \in VUIDs, NEW from \in Working, NEW to \in Working, Move(i, from, to), wg' = wg
      PROVE  Counts'
  <2>1. Waited' = Waited BY <1>0, <1>b DEF Waited, Move
  <2> QED BY <1>b, <2>1
<1>1. CASE UNCHANGED vars BY <1>1 DEF vars, Waited
<1>2. CASE LaunchVU
  <2>1. launched \in VUIDs /\ vu[launched] = "none" BY <1>0, <1>2 DEF LaunchVU, Phases, VUIDs
  <2>2. CASE launched < PoolSize
    <3>1. launched \notin Waited /\ Waited' = Waited \cup {launched} /\ wg' = wg + 1
      BY <1>0, <1>2, <2>1, <2>2 DEF LaunchVU, Waited, Working
    <3> QED BY <1>a, <3>1, FS_AddElement
  <2>3. CASE ~(launched < PoolSize) BY <1>2, <2>3 DEF LaunchVU, Waited
  <2> QED BY <2>2, <2>3
<1>3. CASE CallWait BY <1>3 DEF CallWait, Waited
<1>4. CASE Return BY <1>4 DEF Return, Waited
<1>5. CASE Cancel BY <1>5 DEF Cancel, Waited
<1>6. ASSUME NEW i \in VUIDs, VU(i) PROVE Counts'
  <2>1. CASE Take(i) BY <1>b, <2>1 DEF Take, Working
  <2>2. CASE Check(i) BY <1>b, <2>2 DEF Check, Working
  <2>3. CASE RunVULoop(i) BY <1>b, <2>3 DEF RunVULoop, Working
  <2>4. CASE IterationOk(i) BY <1>b, <2>4 DEF IterationOk, Working
  <2>5. CASE IterationFails(i) BY <1>b, <2>5 DEF IterationFails, Working
  <2>6. CASE SendErr(i) BY <1>b, <2>6 DEF SendErr, Working
  <2>7. CASE Release(i) BY <1>b, <2>7 DEF Release, Working
  <2>8. CASE Uncount(i) BY <1>b, <2>8 DEF Uncount, Working
  <2>9. CASE WgDone(i)
    <3>1. i \in Waited /\ Waited' = Waited \ {i} /\ wg' = wg - 1
      BY <1>0, <2>9 DEF WgDone, Waited, Working, Move
    <3> QED BY <1>a, <3>1, FS_RemoveElement
  <2> QED BY <1>6, <2>1, <2>2, <2>3, <2>4, <2>5, <2>6, <2>7, <2>8, <2>9 DEF VU
<1> QED BY <1>1, <1>2, <1>3, <1>4, <1>5, <1>6 DEF Next, Main, Finished, Hangs

\* No iteration is started twice: the two modes' reasons, together.
LEMMA StartsNew ==
    ASSUME TypeOK, SharedOnce, OwnOnce, NEW i \in VUIDs, iter[i] < N,
           IF shared THEN vu[i] = "check" ELSE vu[i] = "loop"
    PROVE  ran[Item(i)] = 0
<1>1. CASE shared BY <1>1 DEF SharedOnce, Item
<1>2. CASE ~shared
  <2>1. Item(i) \in Items /\ Item(i) = <<i, iter[i]>> BY <1>2, ItemIn DEF Item
  <2>2. Item(i)[1] = i /\ Item(i)[2] = iter[i] BY <2>1
  <2> QED BY <1>2, <2>1, <2>2 DEF OwnOnce
<1> QED BY <1>1, <1>2

\* A VU starts an iteration it has taken, or the one its counter is at.
LEMMA StartCases ==
    ASSUME TypeOK, Phases, InRange, SharedOnce, OwnOnce, NEW i \in VUIDs, Check(i) \/ RunVULoop(i)
    PROVE  \/ UNCHANGED ran
           \/ /\ Item(i) \in Items /\ ran[Item(i)] = 0 /\ ran'[Item(i)] = 1
              /\ ran' = [ran EXCEPT ![Item(i)] = 1] /\ ~ctxDone /\ iter[i] < N
              /\ \A k \in Items : k # Item(i) => ran'[k] = ran[k]
              /\ IF shared THEN vu[i] = "check" ELSE vu[i] = "loop"
<1> SUFFICES ASSUME ~ UNCHANGED ran
             PROVE  /\ Item(i) \in Items /\ ran[Item(i)] = 0 /\ ran'[Item(i)] = 1
                    /\ ran' = [ran EXCEPT ![Item(i)] = 1] /\ ~ctxDone /\ iter[i] < N
                    /\ \A k \in Items : k # Item(i) => ran'[k] = ran[k]
                    /\ IF shared THEN vu[i] = "check" ELSE vu[i] = "loop"
    OBVIOUS
<1>0. iter[i] \in 0 .. N /\ N \in Nat BY SizeAssumption DEF TypeOK
<1>1. CASE Check(i)
  <2>1. ~ctxDone /\ vu[i] = "check" /\ StartIteration(i) BY <1>1 DEF Check, Move
  <2>2. iter[i] < N /\ shared BY <2>1 DEF InRange, Phases
  <2>3. ran[Item(i)] = 0 /\ Item(i) \in Items BY <2>1, <2>2, StartsNew, ItemIn
  <2>4. ran' = [ran EXCEPT ![Item(i)] = 1] BY <2>1, <2>3 DEF StartIteration, TypeOK
  <2>5. ran \in [Items -> Nat] BY DEF TypeOK
  <2> QED BY <2>1, <2>2, <2>3, <2>4, <2>5
<1>2. CASE RunVULoop(i)
  <2>1. ~ctxDone /\ iter[i] < N /\ ~shared /\ vu[i] = "loop" /\ StartIteration(i)
    BY <1>0, <1>2 DEF RunVULoop, Move
  <2>3. ran[Item(i)] = 0 /\ Item(i) \in Items BY <2>1, StartsNew, ItemIn
  <2>4. ran' = [ran EXCEPT ![Item(i)] = 1] BY <2>1, <2>3 DEF StartIteration, TypeOK
  <2>5. ran \in [Items -> Nat] BY DEF TypeOK
  <2> QED BY <2>1, <2>3, <2>4, <2>5
<1> QED BY <1>1, <1>2

\* Iterations in hand stay in the budget, and none is counted twice.
LEMMA InRangeStep ==
    ASSUME TypeOK, Phases, InRange, SharedOnce, OwnOnce, [Next]_vars
    PROVE  InRange'
<1> USE SizeAssumption DEF InRange, mainVars, poolVars, Move
<1>0. /\ vu \in [VUIDs -> {"none", "exited"} \cup Working] /\ launched \in 0 .. VUs
      /\ iter \in [VUIDs -> 0 .. N] /\ nextIter \in 0 .. N /\ failures \in Nat /\ errs \in Nat
  BY BoundAssumption DEF TypeOK
<1>1. CASE UNCHANGED vars BY <1>1 DEF vars
<1>2. CASE LaunchVU BY <1>0, <1>2 DEF LaunchVU
<1>3. CASE CallWait BY <1>0, <1>3 DEF CallWait
<1>4. CASE Return BY <1>0, <1>4 DEF Return
<1>5. CASE Cancel BY <1>0, <1>5 DEF Cancel
<1>6. ASSUME NEW i \in VUIDs, VU(i) PROVE InRange'
  <2>1. CASE Take(i) BY <1>0, <2>1 DEF Take
  <2>2. CASE Check(i)
    <3>1. \A k \in Items : ran'[k] \in {0, 1} BY <2>2, StartCases
    <3> QED BY <1>0, <2>2, <3>1 DEF Check
  <2>3. CASE RunVULoop(i)
    <3>1. \A k \in Items : ran'[k] \in {0, 1} BY <2>3, StartCases
    <3> QED BY <1>0, <2>3, <3>1 DEF RunVULoop
  <2>4. CASE IterationOk(i) BY <1>0, <2>4 DEF IterationOk
  <2>5. CASE IterationFails(i) BY <1>0, <2>5 DEF IterationFails
  <2>6. CASE SendErr(i) BY <1>0, <2>6 DEF SendErr
  <2>7. CASE Release(i) BY <1>0, <2>7 DEF Release
  <2>8. CASE Uncount(i) BY <1>0, <2>8 DEF Uncount
  <2>9. CASE WgDone(i) BY <1>0, <2>9 DEF WgDone
  <2> QED BY <1>6, <2>1, <2>2, <2>3, <2>4, <2>5, <2>6, <2>7, <2>8, <2>9 DEF VU
<1> QED BY <1>1, <1>2, <1>3, <1>4, <1>5, <1>6 DEF Next, Main, Finished, Hangs

\* The channel hands every iteration to one VU.
LEMMA SharedOnceStep ==
    ASSUME TypeOK, Phases, InRange, SharedOnce, OwnOnce, [Next]_vars
    PROVE  SharedOnce'
<1> USE SizeAssumption DEF SharedOnce, mainVars, poolVars, Move
<1>0. /\ vu \in [VUIDs -> {"none", "exited"} \cup Working] /\ launched \in 0 .. VUs
      /\ iter \in [VUIDs -> 0 .. N] /\ nextIter \in 0 .. N /\ failures \in Nat /\ errs \in Nat
  BY BoundAssumption DEF TypeOK
<1>1. CASE UNCHANGED vars BY <1>1 DEF vars
<1>2. CASE LaunchVU BY <1>0, <1>2 DEF LaunchVU
<1>3. CASE CallWait BY <1>0, <1>3 DEF CallWait
<1>4. CASE Return BY <1>0, <1>4 DEF Return
<1>5. CASE Cancel BY <1>0, <1>5 DEF Cancel
<1>6. ASSUME NEW i \in VUIDs, VU(i) PROVE SharedOnce'
  <2>1. CASE Take(i)
    <3>1. CASE nextIter < N
      <4>1. /\ vu[i] = "loop" /\ vu' = [vu EXCEPT ![i] = "check"] /\ iter' = [iter EXCEPT ![i] = nextIter]
            /\ nextIter' = nextIter + 1 /\ UNCHANGED <<shared, ran>> /\ shared
        BY <2>1, <3>1 DEF Take
      <4>2. <<0, nextIter>> \in Items /\ ran[<<0, nextIter>>] = 0
        <5>1. <<0, nextIter>> \in Items BY <1>0, <3>1 DEF Items, VUIDs
        <5> QED BY <1>0, <4>1, <5>1
      <4>3. \A k \in Items : k[1] # 0 \/ k[2] >= nextIter' => ran[k] = 0 BY <1>0, <4>1, ItemParts
      <4>4. \A j \in VUIDs : vu'[j] = "check" => \/ j = i /\ iter'[j] = nextIter
                                                 \/ j # i /\ vu[j] = "check" /\ iter'[j] = iter[j]
        BY <1>0, <4>1
      <4> QED BY <1>0, <4>1, <4>2, <4>3, <4>4
    <3>2. CASE ~(nextIter < N) BY <1>0, <2>1, <3>2 DEF Take
    <3> QED BY <3>1, <3>2
  <2>2. CASE Check(i)
    <3>1. SUFFICES ASSUME shared PROVE SharedOnce'
      BY <2>2 DEF Check
    <3>2. vu[i] = "check" /\ iter[i] < N /\ iter[i] < nextIter /\ Item(i) = <<0, iter[i]>>
      BY <2>2, <3>1 DEF Check, InRange, Item
    <3>3. \A j \in VUIDs : vu'[j] = "check" => vu[j] = "check" /\ j # i BY <1>0, <2>2 DEF Check
    <3>4. \A k \in Items : k[1] # 0 \/ k[2] >= nextIter => k # Item(i) BY <1>0, <3>2, ItemParts
    <3>5. \A j \in VUIDs : vu'[j] = "check" => <<0, iter[j]>> \in Items /\ <<0, iter[j]>> # Item(i)
      <4> SUFFICES ASSUME NEW j \in VUIDs, vu'[j] = "check"
                   PROVE  <<0, iter[j]>> \in Items /\ <<0, iter[j]>> # Item(i)
          OBVIOUS
      <4>1. vu[j] = "check" /\ iter[j] # iter[i] BY <3>1, <3>2, <3>3
      <4>2. iter[j] \in 0 .. (N - 1) BY <1>0, <4>1 DEF InRange
      <4>3. <<0, iter[j]>> \in Items BY <4>2 DEF Items, VUIDs
      <4> QED BY <3>2, <4>1, <4>3
    <3>6. \A k \in Items : k # Item(i) => ran'[k] = ran[k] BY <2>2, StartCases
    <3>7. UNCHANGED <<shared, iter, nextIter>> BY <2>2 DEF Check
    <3> QED BY <3>1, <3>3, <3>4, <3>5, <3>6, <3>7
  <2>3. CASE RunVULoop(i)
    <3> QED BY <2>3 DEF RunVULoop
  <2>4. CASE IterationOk(i) BY <1>0, <2>4 DEF IterationOk
  <2>5. CASE IterationFails(i) BY <1>0, <2>5 DEF IterationFails
  <2>6. CASE SendErr(i) BY <1>0, <2>6 DEF SendErr
  <2>7. CASE Release(i) BY <1>0, <2>7 DEF Release
  <2>8. CASE Uncount(i) BY <1>0, <2>8 DEF Uncount
  <2>9. CASE WgDone(i) BY <1>0, <2>9 DEF WgDone
  <2> QED BY <1>6, <2>1, <2>2, <2>3, <2>4, <2>5, <2>6, <2>7, <2>8, <2>9 DEF VU
<1> QED BY <1>1, <1>2, <1>3, <1>4, <1>5, <1>6 DEF Next, Main, Finished, Hangs

\* An iteration that is taken is not forgotten.
LEMMA SharedAllStep ==
    ASSUME TypeOK, Phases, InRange, SharedOnce, OwnOnce, SharedAll, [Next]_vars
    PROVE  SharedAll'
<1> USE SizeAssumption DEF SharedAll, mainVars, poolVars, Move, Ended
<1>0. /\ vu \in [VUIDs -> {"none", "exited"} \cup Working] /\ launched \in 0 .. VUs
      /\ iter \in [VUIDs -> 0 .. N] /\ nextIter \in 0 .. N /\ failures \in Nat /\ errs \in Nat
  BY BoundAssumption DEF TypeOK
<1>1. CASE UNCHANGED vars BY <1>1 DEF vars
<1>2. CASE LaunchVU
  <2>1. launched \in VUIDs /\ vu[launched] = "none" BY <1>0, <1>2 DEF LaunchVU, Phases, VUIDs
  <2>2. \A j \in VUIDs : /\ vu[j] = "check" => vu'[j] = "check"
                         /\ vu'[j] \in Ended => vu[j] \in Ended
    BY <1>0, <1>2, <2>1 DEF LaunchVU
  <2>3. UNCHANGED <<shared, ctxDone, ran, iter, nextIter>> BY <1>2 DEF LaunchVU
  <2>4. ASSUME shared, ~ctxDone, NEW k \in Items, k[1] = 0, k[2] < nextIter
        PROVE  ran[k] = 1 \/ \E j \in VUIDs : vu'[j] = "check" /\ iter[j] = k[2]
    BY <2>2, <2>4
  <2>5. shared /\ ~ctxDone => \A j \in VUIDs : vu'[j] \in Ended => nextIter = N BY <2>2
  <2> QED BY <2>3, <2>4, <2>5
<1>3. CASE CallWait BY <1>0, <1>3 DEF CallWait
<1>4. CASE Return BY <1>0, <1>4 DEF Return
<1>5. CASE Cancel BY <1>0, <1>5 DEF Cancel
<1>6. ASSUME NEW i \in VUIDs, VU(i) PROVE SharedAll'
  <2>1. CASE Take(i)
    <3>1. CASE nextIter < N
      <4>1. /\ vu[i] = "loop" /\ vu' = [vu EXCEPT ![i] = "check"] /\ iter' = [iter EXCEPT ![i] = nextIter]
            /\ nextIter' = nextIter + 1 /\ UNCHANGED <<shared, ctxDone, ran>> /\ shared
        BY <2>1, <3>1 DEF Take
      <4>2. \A j \in VUIDs : vu[j] = "check" => vu'[j] = "check" /\ iter'[j] = iter[j]
        BY <1>0, <4>1
      <4>3. vu'[i] = "check" /\ iter'[i] = nextIter BY <1>0, <4>1
      <4>4. ASSUME ~ctxDone, NEW k \in Items, k[1] = 0, k[2] < nextIter'
            PROVE  ran[k] = 1 \/ \E j \in VUIDs : vu'[j] = "check" /\ iter'[j] = k[2]
        <5>1. k[2] \in Int BY ItemParts
        <5>2. CASE k[2] = nextIter BY <4>3, <5>2
        <5>3. CASE k[2] < nextIter BY <4>1, <4>2, <4>4, <5>3
        <5> QED BY <1>0, <4>1, <4>4, <5>1, <5>2, <5>3
      <4>5. ~ctxDone => \A j \in VUIDs : vu'[j] \notin Ended BY <1>0, <3>1, <4>1
      <4> QED BY <4>1, <4>4, <4>5
    <3>2. CASE ~(nextIter < N) BY <1>0, <2>1, <3>2 DEF Take
    <3> QED BY <3>1, <3>2
  <2>2. CASE Check(i)
    <3>1. SUFFICES ASSUME shared, ~ctxDone PROVE SharedAll'
      BY <2>2 DEF Check
    <3>2. vu[i] = "check" /\ iter[i] < N /\ Item(i) = <<0, iter[i]>>
      BY <2>2, <3>1 DEF Check, InRange, Item
    <3>3. \A j \in VUIDs : j # i => vu'[j] = vu[j] BY <1>0, <2>2 DEF Check
    <3>4. vu'[i] = "iter" BY <1>0, <2>2, <3>1 DEF Check
    <3>5. ran'[Item(i)] = 1 /\ \A k \in Items : k # Item(i) => ran'[k] = ran[k]
      <4>1. StartIteration(i) BY <2>2, <3>1 DEF Check
      <4>2. ran[Item(i)] = 0 BY <3>1, <3>2, StartsNew
      <4>3. ran'[Item(i)] = ran[Item(i)] + 1 /\ \A k \in Items : k # Item(i) => ran'[k] = ran[k]
        BY <3>2, <4>1, StartSteps
      <4> QED BY <4>2, <4>3
    <3>6. UNCHANGED <<shared, iter, nextIter, ctxDone>> BY <2>2 DEF Check
    <3>7. ASSUME NEW k \in Items, k[1] = 0, k[2] < nextIter
          PROVE  ran'[k] = 1 \/ \E j \in VUIDs : vu'[j] = "check" /\ iter[j] = k[2]
      <4>1. CASE k = Item(i) BY <4>1, <3>5
      <4>2. CASE k # Item(i)
        <5>1. k[2] # iter[i] BY <4>2, <3>2, <3>7, ItemParts
        <5> QED BY <4>2, <5>1, <3>1, <3>3, <3>5, <3>7
      <4> QED BY <4>1, <4>2
    <3> QED BY <3>1, <3>3, <3>4, <3>6, <3>7
  <2>3. CASE RunVULoop(i)
    <3> QED BY <2>3 DEF RunVULoop
  <2>4. CASE IterationOk(i) BY <1>0, <2>4 DEF IterationOk
  <2>5. CASE IterationFails(i) BY <1>0, <2>5 DEF IterationFails
  <2>6. CASE SendErr(i) BY <1>0, <2>6 DEF SendErr
  <2>7. CASE Release(i) BY <1>0, <2>7 DEF Release
  <2>8. CASE Uncount(i) BY <1>0, <2>8 DEF Uncount
  <2>9. CASE WgDone(i) BY <1>0, <2>9 DEF WgDone
  <2> QED BY <1>6, <2>1, <2>2, <2>3, <2>4, <2>5, <2>6, <2>7, <2>8, <2>9 DEF VU
<1> QED BY <1>1, <1>2, <1>3, <1>4, <1>5, <1>6 DEF Next, Main, Finished, Hangs

\* A VU with its own quota goes through it in order.
LEMMA OwnOnceStep ==
    ASSUME TypeOK, Phases, InRange, SharedOnce, OwnOnce, [Next]_vars
    PROVE  OwnOnce'
<1> USE SizeAssumption DEF OwnOnce, mainVars, poolVars, Move, VUIDs
<1>0. /\ vu \in [VUIDs -> {"none", "exited"} \cup Working] /\ launched \in 0 .. VUs
      /\ iter \in [VUIDs -> 0 .. N] /\ nextIter \in 0 .. N /\ failures \in Nat /\ errs \in Nat
  BY BoundAssumption DEF TypeOK
<1>1. CASE UNCHANGED vars BY <1>1 DEF vars
<1>2. CASE LaunchVU
  <2>1. launched \in VUIDs /\ vu[launched] = "none" BY <1>0, <1>2 DEF LaunchVU, Phases, VUIDs
  <2>2. \A j \in VUIDs : /\ vu'[j] \in {"none", "loop"} => vu[j] \in {"none", "loop"}
                         /\ vu'[j] = "iter" => vu[j] = "iter"
    BY <1>0, <1>2, <2>1 DEF LaunchVU
  <2>3. UNCHANGED <<shared, ran, iter>> BY <1>2 DEF LaunchVU
  <2> HIDE DEF VUIDs
  <2>4. \A k \in Items : k[1] \in VUIDs BY ItemParts
  <2> QED BY <2>2, <2>3, <2>4
<1>3. CASE CallWait BY <1>0, <1>3 DEF CallWait
<1>4. CASE Return BY <1>0, <1>4 DEF Return
<1>5. CASE Cancel BY <1>0, <1>5 DEF Cancel
<1>6. ASSUME NEW i \in VUIDs, VU(i) PROVE OwnOnce'
  <2>1. CASE Take(i)
    <3> QED BY <2>1 DEF Take
  <2>2. CASE Check(i)
    <3> QED BY <2>2 DEF Check, Phases
  <2>3. CASE RunVULoop(i)
    <3>1. UNCHANGED <<shared, iter>> /\ ~shared /\ vu[i] = "loop" BY <2>3 DEF RunVULoop
    <3>2. \A j \in VUIDs : j # i => vu'[j] = vu[j] BY <1>0, <2>3 DEF RunVULoop
    <3> HIDE DEF VUIDs
    <3>3. CASE ctxDone \/ iter[i] >= N
      <4>1. vu'[i] = "release" /\ UNCHANGED ran BY <1>0, <2>3, <3>3 DEF RunVULoop
      <4> QED BY <3>1, <3>2, <4>1, ItemParts
    <3>4. CASE ~(ctxDone \/ iter[i] >= N)
      <4>1. vu'[i] = "iter" /\ StartIteration(i) /\ iter[i] < N BY <1>0, <2>3, <3>4 DEF RunVULoop
      <4>2. ran[Item(i)] = 0 BY <3>1, <4>1, StartsNew
      <4>3. ran'[Item(i)] = ran[Item(i)] + 1 /\ \A k \in Items : k # Item(i) => ran'[k] = ran[k]
        BY <4>1, StartSteps
      <4>4. Item(i) = <<i, iter[i]>> BY <3>1 DEF Item
      <4> SUFFICES ASSUME NEW k \in Items
                   PROVE  /\ k[2] < iter[k[1]] => ran'[k] = 1
                          /\ k[2] > iter[k[1]] => ran'[k] = 0
                          /\ k[2] = iter[k[1]] /\ vu'[k[1]] \in {"none", "loop"} => ran'[k] = 0
                          /\ k[2] = iter[k[1]] /\ vu'[k[1]] = "iter" => ran'[k] = 1
          BY <3>1
      <4>5. k[1] \in VUIDs /\ k[2] \in 0 .. (N - 1) /\ k = <<k[1], k[2]>> BY ItemParts
      <4>6. CASE k = Item(i)
        <5>1. k[1] = i /\ k[2] = iter[i] BY <4>4, <4>6
        <5> QED BY <1>0, <4>1, <4>2, <4>3, <4>6, <5>1
      <4>7. CASE k # Item(i)
        <5>1. ran'[k] = ran[k] BY <4>3, <4>7
        <5>2. k[1] # i \/ k[2] # iter[i] BY <4>4, <4>5, <4>7
        <5> QED BY <3>1, <3>2, <4>5, <5>1, <5>2
      <4> QED BY <4>6, <4>7
    <3> QED BY <3>3, <3>4
  <2>4. CASE IterationOk(i)
    <3>1. CASE shared BY <2>4, <3>1 DEF IterationOk
    <3>2. CASE ~shared
      <4>1. /\ vu[i] = "iter" /\ vu' = [vu EXCEPT ![i] = "loop"] /\ iter' = [iter EXCEPT ![i] = @ + 1]
            /\ UNCHANGED <<shared, ran>>
        BY <2>4, <3>2 DEF IterationOk
      <4>2. \A j \in VUIDs : /\ j # i => vu'[j] = vu[j] /\ iter'[j] = iter[j]
                             /\ j = i => vu'[j] = "loop" /\ iter'[j] = iter[j] + 1
        BY <1>0, <4>1
      <4> HIDE DEF VUIDs
      <4> SUFFICES ASSUME NEW k \in Items
                   PROVE  /\ k[2] < iter'[k[1]] => ran[k] = 1
                          /\ k[2] > iter'[k[1]] => ran[k] = 0
                          /\ k[2] = iter'[k[1]] /\ vu'[k[1]] \in {"none", "loop"} => ran[k] = 0
                          /\ k[2] = iter'[k[1]] /\ vu'[k[1]] = "iter" => ran[k] = 1
          BY <4>1
      <4>3. k[1] \in VUIDs /\ k[2] \in 0 .. (N - 1) /\ iter[k[1]] \in 0 .. N BY <1>0, ItemParts
      <4>4. CASE k[1] = i BY <3>2, <4>1, <4>2, <4>3, <4>4
      <4>5. CASE k[1] # i BY <3>2, <4>1, <4>2, <4>3, <4>5
      <4> QED BY <4>4, <4>5
    <3> QED BY <3>1, <3>2
  <2>5. CASE IterationFails(i)
    <3>1. UNCHANGED <<shared, ran, iter>> BY <2>5 DEF IterationFails
    <3>2. vu' \in {[vu EXCEPT ![i] = "send"], [vu EXCEPT ![i] = "release"]} BY <2>5 DEF IterationFails
    <3>3. \A j \in VUIDs : vu'[j] = vu[j] \/ vu'[j] \in {"send", "release"} BY <1>0, <3>2
    <3> HIDE DEF VUIDs
    <3>4. \A k \in Items : k[1] \in VUIDs BY ItemParts
    <3> QED BY <3>1, <3>3, <3>4
  <2>6. CASE SendErr(i) BY <1>0, <2>6 DEF SendErr
  <2>7. CASE Release(i) BY <1>0, <2>7 DEF Release
  <2>8. CASE Uncount(i) BY <1>0, <2>8 DEF Uncount
  <2>9. CASE WgDone(i) BY <1>0, <2>9 DEF WgDone
  <2> QED BY <1>6, <2>1, <2>2, <2>3, <2>4, <2>5, <2>6, <2>7, <2>8, <2>9 DEF VU
<1> QED BY <1>1, <1>2, <1>3, <1>4, <1>5, <1>6 DEF Next, Main, Finished, Hangs

\* A VU with its own quota ends when it has used it up, or has failed.
LEMMA OwnAllStep ==
    ASSUME TypeOK, Phases, InRange, OwnAll, [Next]_vars
    PROVE  OwnAll'
<1> USE SizeAssumption DEF OwnAll, mainVars, poolVars, Move, Ended
<1>0. /\ vu \in [VUIDs -> {"none", "exited"} \cup Working] /\ launched \in 0 .. VUs
      /\ iter \in [VUIDs -> 0 .. N] /\ nextIter \in 0 .. N /\ failures \in Nat /\ errs \in Nat
  BY BoundAssumption DEF TypeOK
<1>1. CASE UNCHANGED vars BY <1>1 DEF vars
<1>2. CASE LaunchVU BY <1>0, <1>2 DEF LaunchVU
<1>3. CASE CallWait BY <1>0, <1>3 DEF CallWait
<1>4. CASE Return BY <1>0, <1>4 DEF Return
<1>5. CASE Cancel BY <1>0, <1>5 DEF Cancel
<1>6. ASSUME NEW i \in VUIDs, VU(i) PROVE OwnAll'
  <2>1. CASE Take(i)
    <3>1. UNCHANGED <<shared, failures>> /\ shared BY <2>1 DEF Take
    <3>2. \A j \in VUIDs : vu[j] # "send" => vu'[j] # "send" BY <1>0, <2>1 DEF Take
    <3> QED BY <3>1, <3>2
  <2>2. CASE Check(i) BY <1>0, <2>2 DEF Check
  <2>3. CASE RunVULoop(i) BY <1>0, <2>3 DEF RunVULoop
  <2>4. CASE IterationOk(i) BY <1>0, <2>4 DEF IterationOk
  <2>5. CASE IterationFails(i) BY <1>0, <2>5 DEF IterationFails
  <2>6. CASE SendErr(i) BY <1>0, <2>6 DEF SendErr
  <2>7. CASE Release(i) BY <1>0, <2>7 DEF Release
  <2>8. CASE Uncount(i) BY <1>0, <2>8 DEF Uncount
  <2>9. CASE WgDone(i) BY <1>0, <2>9 DEF WgDone
  <2> QED BY <1>6, <2>1, <2>2, <2>3, <2>4, <2>5, <2>6, <2>7, <2>8, <2>9 DEF VU
<1> QED BY <1>1, <1>2, <1>3, <1>4, <1>5, <1>6 DEF Next, Main, Finished, Hangs

\* An error is sent before its VU ends.
LEMMA ErrorsStep ==
    ASSUME TypeOK, Phases, Errors, OwnAll, [Next]_vars
    PROVE  Errors'
<1> USE SizeAssumption DEF Errors, mainVars, poolVars, Move
<1>0. /\ vu \in [VUIDs -> {"none", "exited"} \cup Working] /\ launched \in 0 .. VUs
      /\ iter \in [VUIDs -> 0 .. N] /\ nextIter \in 0 .. N /\ failures \in Nat /\ errs \in Nat
  BY BoundAssumption DEF TypeOK
<1>1. CASE UNCHANGED vars BY <1>1 DEF vars
<1>2. CASE LaunchVU
  <2>1. launched \in VUIDs /\ vu[launched] = "none" BY <1>0, <1>2 DEF LaunchVU, Phases, VUIDs
  <2>2. \A j \in VUIDs : vu[j] = "send" => vu'[j] = "send" BY <1>0, <1>2, <2>1 DEF LaunchVU
  <2>3. UNCHANGED <<main, result, ctxDone, errs, failures>> BY <1>2 DEF LaunchVU
  <2> QED BY <2>2, <2>3
<1>3. CASE CallWait BY <1>0, <1>3 DEF CallWait
<1>4. CASE Return
  <2>1. \A j \in VUIDs : vu'[j] = vu[j] BY <1>4 DEF Return
  <2>2. errs > 0 <=> result' = "error" BY <1>4 DEF Return
  <2> QED BY <1>4, <2>1, <2>2 DEF Return
<1>5. CASE Cancel BY <1>0, <1>5 DEF Cancel
<1>6. ASSUME NEW i \in VUIDs, VU(i) PROVE Errors'
  <2>1. CASE Take(i) BY <1>0, <2>1 DEF Take
  <2>2. CASE Check(i) BY <1>0, <2>2 DEF Check
  <2>3. CASE RunVULoop(i) BY <1>0, <2>3 DEF RunVULoop
  <2>4. CASE IterationOk(i) BY <1>0, <2>4 DEF IterationOk
  <2>5. CASE IterationFails(i) BY <1>0, <2>5 DEF IterationFails
  <2>6. CASE SendErr(i)
    <3>1. errs' = errs + 1 /\ UNCHANGED <<main, failures>> /\ vu[i] = "send" BY <2>6 DEF SendErr
    <3>2. failures > 0 BY <1>0, <3>1 DEF OwnAll
    <3>3. main # "returned" BY <3>1 DEF Phases
    <3> QED BY <1>0, <3>1, <3>2, <3>3
  <2>7. CASE Release(i) BY <1>0, <2>7 DEF Release
  <2>8. CASE Uncount(i) BY <1>0, <2>8 DEF Uncount
  <2>9. CASE WgDone(i) BY <1>0, <2>9 DEF WgDone
  <2> QED BY <1>6, <2>1, <2>2, <2>3, <2>4, <2>5, <2>6, <2>7, <2>8, <2>9 DEF VU
<1> QED BY <1>1, <1>2, <1>3, <1>4, <1>5, <1>6 DEF Next, Main, Finished, Hangs

-----------------------------------------------------------------------------

\* The initial state: nothing is launched, taken or started.
LEMMA InitIInv == Init => IInv
<1> SUFFICES ASSUME Init PROVE IInv
    OBVIOUS
<1> USE SizeAssumption, BoundAssumption DEF Init, VUIDs
<1>1. TypeOK
  <2>1. /\ vu \in [VUIDs -> {"none", "exited"} \cup Working] /\ iter \in [VUIDs -> 0 .. N]
        /\ ran \in [Items -> Nat]
    OBVIOUS
  <2>2. /\ launched \in 0 .. VUs /\ nextIter \in 0 .. N /\ errs \in 0 .. VUs
        /\ failures \in 0 .. MaxFailures /\ wg \in Int /\ activeVUs \in Int /\ iterations \in Nat
    OBVIOUS
  <2>3. shared \in BOOLEAN /\ ctxDone \in BOOLEAN OBVIOUS
  <2> QED BY <2>1, <2>2, <2>3 DEF TypeOK
<1>2. Phases BY DEF Phases
<1>3. Counts
  <2>1. Waited = {} BY DEF Waited, Working
  <2> QED BY <2>1, FS_EmptySet DEF Counts
<1>4. InRange BY DEF InRange
<1>5. SharedOnce BY DEF SharedOnce
<1>6. SharedAll BY ItemParts DEF SharedAll, Ended
<1>7. OwnOnce BY ItemParts DEF OwnOnce
<1>8. OwnAll BY DEF OwnAll, Ended
<1>9. Errors BY DEF Errors
<1> QED BY <1>1, <1>2, <1>3, <1>4, <1>5, <1>6, <1>7, <1>8, <1>9 DEF IInv

\* The inductive invariant holds in every reachable state.
THEOREM Inductive == Spec => []IInv
<1>1. IInv /\ [Next]_vars => IInv'
  BY TypeStep, PhasesStep, CountsStep, InRangeStep, SharedOnceStep, SharedAllStep, OwnOnceStep,
     OwnAllStep, ErrorsStep DEF IInv
<1> QED BY <1>1, InitIInv, PTL DEF Spec

\* TypeOK holds in every reachable state of the two modes.
THEOREM TypeCorrect == Spec => []TypeOK
<1>1. IInv => TypeOK BY DEF IInv
<1> QED BY <1>1, Inductive, PTL

\* A call that has returned and was not cancelled has run its whole budget.
THEOREM AllRunTheorem == Spec => []AllRun
<1>1. IInv => AllRun
  <2> SUFFICES ASSUME IInv, main = "returned", ~ctxDone
               PROVE  IF shared THEN PoolSize > 0 => \A k \in Items : k[1] = 0 => ran[k] = 1
                      ELSE failures = 0 => \A k \in Items : k[1] < PoolSize => ran[k] = 1
      BY DEF AllRun
  <2>1. \A i \in VUIDs : vu[i] \in {"none", "exited"} BY DEF IInv, Phases
  <2>2. \A i \in VUIDs : i < PoolSize => vu[i] = "exited"
    BY <2>1, SizeAssumption DEF IInv, Phases, VUIDs
  <2>3. ASSUME shared, PoolSize > 0, NEW k \in Items, k[1] = 0 PROVE ran[k] = 1
    <3>1. k[1] \in VUIDs /\ k[2] \in 0 .. (N - 1) BY ItemParts
    <3>2. nextIter = N BY <2>2, <2>3, <3>1 DEF IInv, SharedAll, Ended
    <3>3. k[2] < nextIter BY <3>1, <3>2, SizeAssumption
    <3> QED BY <2>1, <2>3, <3>3 DEF IInv, SharedAll
  <2>4. ASSUME ~shared, failures = 0, NEW k \in Items, k[1] < PoolSize PROVE ran[k] = 1
    <3>1. k[1] \in VUIDs /\ k[2] \in 0 .. (N - 1) BY ItemParts
    <3>2. iter[k[1]] = N BY <2>2, <2>4, <3>1 DEF IInv, OwnAll, Ended
    <3>3. k[2] < iter[k[1]] BY <3>1, <3>2, SizeAssumption
    <3> QED BY <2>4, <3>3 DEF IInv, OwnOnce
  <2> QED BY <2>3, <2>4
<1> QED BY <1>1, Inductive, PTL

\* A call that was not cancelled returns an error exactly when an iteration failed.
THEOREM ErrorReportedTheorem == Spec => []ErrorReported
<1>1. IInv => ErrorReported
  <2> SUFFICES ASSUME IInv, main = "returned", ~ctxDone PROVE result = "error" <=> failures > 0
      BY DEF ErrorReported
  <2>1. \A i \in VUIDs : vu[i] # "send" BY DEF IInv, Phases
  <2>2. errs > 0 <=> failures > 0 BY <2>1 DEF IInv, Errors
  <2>3. result = "error" <=> errs > 0 BY DEF IInv, Errors
  <2> QED BY <2>2, <2>3
<1> QED BY <1>1, Inductive, PTL

\* The two modes implement IterationBudget: a step starts an iteration that was
\* never started, makes the call return, or changes neither.
THEOREM WithinBudgetTheorem == Spec => WithinBudget
<1>1. Init => Budget!Init
  BY DEF Init, Budget!Init
<1>2. IInv /\ [Next]_vars => [Budget!Next]_<<ran, main = "returned">>
  <2> SUFFICES ASSUME IInv, [Next]_vars, ~ UNCHANGED <<ran, main = "returned">> PROVE Budget!Next
      OBVIOUS
  <2> USE DEF mainVars
  <2>1. CASE Return
    <3>1. ~(main = "returned") /\ (main = "returned")' /\ UNCHANGED ran BY <2>1 DEF Return
    <3>2. Budget!Return BY <3>1 DEF Budget!Return
    <3> QED BY <3>2 DEF Budget!Next
  <2>2. ASSUME NEW i \in VUIDs, Check(i) \/ RunVULoop(i) PROVE Budget!Next
    <3>1. UNCHANGED main BY <2>2 DEF Check, RunVULoop
    <3>2. ~ UNCHANGED ran BY <3>1
    <3>3. /\ Item(i) \in Items /\ ran[Item(i)] = 0 /\ ran' = [ran EXCEPT ![Item(i)] = 1]
          /\ IF shared THEN vu[i] = "check" ELSE vu[i] = "loop"
      BY <2>2, <3>2, StartCases DEF IInv
    <3>4. main # "returned" BY <3>3 DEF IInv, Phases
    <3>5. Budget!Run(Item(i)) BY <3>1, <3>3, <3>4 DEF Budget!Run
    <3> QED BY <3>3, <3>5 DEF Budget!Next
  <2>3. ASSUME NEW i \in VUIDs, VU(i), ~Check(i), ~RunVULoop(i) PROVE UNCHANGED <<ran, main>>
    BY <2>3 DEF VU, Take, IterationOk, IterationFails, SendErr, Release, Uncount, WgDone
  <2>4. CASE LaunchVU BY <2>4 DEF LaunchVU
  <2>5. CASE CallWait BY <2>5 DEF CallWait
  <2>6. CASE Cancel BY <2>6 DEF Cancel
  <2>7. CASE UNCHANGED vars BY <2>7 DEF vars
  <2> QED BY <2>1, <2>2, <2>3, <2>4, <2>5, <2>6, <2>7 DEF Next, Main, Finished, Hangs
<1> QED BY <1>1, <1>2, Inductive, PTL DEF Spec, WithinBudget, Budget!Spec
=============================================================================
