--------------------------- MODULE FixedIterations ---------------------------
(***************************************************************************)
(* The two iteration-limited modes of TaskEngine (task_engine.go):          *)
(* executeSharedIterations, where the VUs take iterations from a closed,    *)
(* filled channel, and executePerVUIterations, where every VU runs runVU    *)
(* with its own quota.  Main launches the VUs, waits for them on a          *)
(* WaitGroup and returns the first error found in errChan.                  *)
(***************************************************************************)
EXTENDS Integers, FiniteSets

CONSTANTS
    VUs,         \* the vus argument, and the capacity of errChan
    N,           \* iterations: in total (shared) or of each VU
    PoolSize,    \* size of vuPool; ScaleVUs may have raised VUs above it
    MaxFailures  \* bound: iterations that return an error

ASSUME SizeAssumption   == VUs \in Nat /\ N \in Nat \ {0} /\ PoolSize \in Nat
ASSUME BoundAssumption  == MaxFailures \in Nat

VUIDs == 0 .. (VUs - 1)
Items == VUIDs \X (0 .. (N - 1))  \* the shared mode has those of VU 0 only

VARIABLES
    shared,     \* the mode: executeSharedIterations or executePerVUIterations
    main,       \* "launch", "wait", "returned"
    launched,   \* i of the launch loop
    vu,         \* vu[i]: where the goroutine of VU i is
    iter,       \* iter[i]: the iteration VU i has taken (shared) or is at
    nextIter,   \* iterations taken from iterChan so far
    ran,        \* ran[k]: how often iteration k has been started
    errs,       \* errors buffered in errChan
    failures,   \* iterations that have failed
    ctxDone,
    wg, activeVUs, inUse,
    iterations, \* e.iterations
    result      \* what the call returns

mainVars == <<shared, main, launched, result>>
poolVars == <<wg, activeVUs, inUse>>
vars == <<mainVars, poolVars, vu, iter, nextIter, ran, errs, failures, ctxDone, iterations>>

Working == {"loop", "check", "iter", "send", "release", "uncount", "done"}
Waited  == {i \in VUIDs : vu[i] \in Working}
Item(i) == <<IF shared THEN 0 ELSE i, iter[i]>>

Init ==
    /\ shared \in BOOLEAN
    /\ main = "launch" /\ launched = 0 /\ result = "none"
    /\ vu = [i \in VUIDs |-> "none"]
    /\ iter = [i \in VUIDs |-> 0]
    /\ nextIter = 0
    /\ ran = [k \in Items |-> 0]
    /\ errs = 0 /\ failures = 0 /\ ctxDone = FALSE
    /\ wg = 0 /\ activeVUs = 0 /\ inUse = {}
    /\ iterations = 0

-----------------------------------------------------------------------------
(* Main.                                                                    *)

\* Mutated form: wg.Add(1) before the test that skips an id.
LaunchVUCountsSkipped ==
    /\ main = "launch" /\ launched < VUs
    /\ launched' = launched + 1
    /\ wg' = wg + 1
    /\ IF launched < PoolSize
       THEN /\ vu' = [vu EXCEPT ![launched] = "loop"]
            /\ activeVUs' = activeVUs + 1 /\ inUse' = inUse \cup {launched}
       ELSE UNCHANGED <<vu, activeVUs, inUse>>
    /\ UNCHANGED <<shared, main, result, iter, nextIter, ran, errs, failures, ctxDone, iterations>>

\* One round of the launch loop; an id the pool refuses is skipped.
LaunchVU ==
    /\ main = "launch" /\ launched < VUs
    /\ launched' = launched + 1
    /\ IF launched < PoolSize
       THEN /\ vu' = [vu EXCEPT ![launched] = "loop"]
            /\ wg' = wg + 1 /\ activeVUs' = activeVUs + 1
            /\ inUse' = inUse \cup {launched}
       ELSE UNCHANGED <<vu, poolVars>>
    /\ UNCHANGED <<shared, main, result, iter, nextIter, ran, errs, failures, ctxDone, iterations>>

CallWait ==
    /\ main = "launch" /\ launched = VUs
    /\ main' = "wait"
    /\ UNCHANGED <<shared, launched, result, poolVars, vu, iter, nextIter, ran, errs, failures,
                   ctxDone, iterations>>

\* wg.Wait() returns; close errChan and return the first error in it.
Return ==
    /\ main = "wait" /\ wg = 0
    /\ main' = "returned"
    /\ result' = IF errs > 0 THEN "error" ELSE "nil"
    /\ UNCHANGED <<shared, launched, poolVars, vu, iter, nextIter, ran, errs, failures, ctxDone,
                   iterations>>

-----------------------------------------------------------------------------
(* VU i.                                                                    *)

Move(i, from, to) == vu[i] = from /\ vu' = [vu EXCEPT ![i] = to]

StartIteration(i) == ran' = [ran EXCEPT ![Item(i)] = @ + 1]

\* Mutated form: the channel hands out the first iteration once more.
TakeTwice(i) ==
    /\ shared
    /\ IF nextIter < N
       THEN /\ Move(i, "loop", "check")
            /\ iter' = [iter EXCEPT ![i] = IF nextIter = 0 THEN 0 ELSE nextIter - 1]
            /\ nextIter' = nextIter + 1
       ELSE Move(i, "loop", "release") /\ UNCHANGED <<iter, nextIter>>
    /\ UNCHANGED <<mainVars, poolVars, ran, errs, failures, ctxDone, iterations>>

\* Mutated form: the last iteration is never handed out.
TakeAllButLast(i) ==
    /\ shared
    /\ IF nextIter < N - 1
       THEN /\ Move(i, "loop", "check")
            /\ iter' = [iter EXCEPT ![i] = nextIter]
            /\ nextIter' = nextIter + 1
       ELSE Move(i, "loop", "release") /\ UNCHANGED <<iter, nextIter>>
    /\ UNCHANGED <<mainVars, poolVars, ran, errs, failures, ctxDone, iterations>>

\* for iter := range iterChan: the channel is closed, so an empty one ends the loop.
Take(i) ==
    /\ shared
    /\ IF nextIter < N
       THEN /\ Move(i, "loop", "check")
            /\ iter' = [iter EXCEPT ![i] = nextIter]
            /\ nextIter' = nextIter + 1
       ELSE Move(i, "loop", "release") /\ UNCHANGED <<iter, nextIter>>
    /\ UNCHANGED <<mainVars, poolVars, ran, errs, failures, ctxDone, iterations>>

\* select { case <-ctx.Done(): return ... default: ... }
Check(i) ==
    /\ IF ctxDone
       THEN Move(i, "check", "release") /\ UNCHANGED ran
       ELSE Move(i, "check", "iter") /\ StartIteration(i)
    /\ UNCHANGED <<mainVars, poolVars, iter, nextIter, errs, failures, ctxDone, iterations>>

\* The head of runVU's loop.
RunVULoop(i) ==
    /\ ~shared
    /\ IF ctxDone \/ iter[i] >= N
       THEN Move(i, "loop", "release") /\ UNCHANGED ran
       ELSE Move(i, "loop", "iter") /\ StartIteration(i)
    /\ UNCHANGED <<mainVars, poolVars, iter, nextIter, errs, failures, ctxDone, iterations>>

\* Only runVU counts iterations; the shared mode does not.
IterationOk(i) ==
    /\ Move(i, "iter", "loop")
    /\ IF shared THEN UNCHANGED <<iter, iterations>>
                 ELSE /\ iter' = [iter EXCEPT ![i] = @ + 1]
                      /\ iterations' = iterations + 1
    /\ UNCHANGED <<mainVars, poolVars, nextIter, ran, errs, failures, ctxDone>>

\* A failed iteration is reported; runVU drops an error when ctx is done, but not
\* the one it makes of a panic.  (Nothing recovers a panic of the shared mode: the
\* process ends.)
IterationFails(i) ==
    /\ failures < MaxFailures
    /\ failures' = failures + 1
    /\ \/ Move(i, "iter", "send")
       \/ ~shared /\ ctxDone /\ Move(i, "iter", "release")
    /\ UNCHANGED <<mainVars, poolVars, iter, nextIter, ran, errs, ctxDone, iterations>>

\* Mutated form: a send that does not wait, and drops the error.
SendErrDropped(i) ==
    /\ Move(i, "send", IF shared THEN "loop" ELSE "release")
    /\ UNCHANGED <<mainVars, poolVars, iter, nextIter, ran, errs, failures, ctxDone, iterations>>

\* errChan <- err, which waits while the channel is full.
SendErr(i) ==
    /\ errs < VUs
    /\ errs' = errs + 1
    /\ Move(i, "send", IF shared THEN "loop" ELSE "release")
    /\ UNCHANGED <<mainVars, poolVars, iter, nextIter, ran, failures, ctxDone, iterations>>

\* The deferred calls, in order.
Release(i) ==
    /\ Move(i, "release", "uncount")
    /\ inUse' = inUse \ {i}
    /\ UNCHANGED <<mainVars, wg, activeVUs, iter, nextIter, ran, errs, failures, ctxDone, iterations>>

Uncount(i) ==
    /\ Move(i, "uncount", "done")
    /\ activeVUs' = activeVUs - 1
    /\ UNCHANGED <<mainVars, wg, inUse, iter, nextIter, ran, errs, failures, ctxDone, iterations>>

WgDone(i) ==
    /\ Move(i, "done", "exited")
    /\ wg' = wg - 1
    /\ UNCHANGED <<mainVars, activeVUs, inUse, iter, nextIter, ran, errs, failures, ctxDone, iterations>>

VU(i) ==
    \/ Take(i) \/ Check(i) \/ RunVULoop(i)
    \/ IterationOk(i) \/ IterationFails(i) \/ SendErr(i)
    \/ Release(i) \/ Uncount(i) \/ WgDone(i)

-----------------------------------------------------------------------------

\* The caller's context, or TaskEngine.Stop, which also marks every VU as free.
Cancel ==
    /\ ~ctxDone \/ inUse # {}
    /\ ctxDone' = TRUE
    /\ inUse' \in {inUse, {}}
    /\ UNCHANGED <<mainVars, wg, activeVUs, vu, iter, nextIter, ran, errs, failures, iterations>>

Main == LaunchVU \/ CallWait \/ Return

Finished == main = "returned" /\ UNCHANGED vars

\* Every VU that is left waits on a full errChan, which main reads only after
\* the VUs have ended: the one way in which the call hangs.
Hangs ==
    /\ main = "wait" /\ errs = VUs
    /\ Waited # {} /\ \A i \in Waited : vu[i] = "send"
    /\ UNCHANGED vars

Next == Main \/ (\E i \in VUIDs : VU(i)) \/ Cancel \/ Finished \/ Hangs

Spec == Init /\ [][Next]_vars /\ WF_vars(Main) /\ \A i \in VUIDs : WF_vars(VU(i))

-----------------------------------------------------------------------------
(* Properties.                                                              *)

TypeOK ==
    /\ shared \in BOOLEAN
    /\ main \in {"launch", "wait", "returned"} /\ launched \in 0 .. VUs
    /\ result \in {"none", "nil", "error"}
    /\ vu \in [VUIDs -> {"none", "exited"} \cup Working]
    /\ iter \in [VUIDs -> 0 .. N]
    /\ nextIter \in 0 .. N
    /\ ran \in [Items -> Nat]
    /\ errs \in 0 .. VUs /\ failures \in 0 .. MaxFailures
    /\ ctxDone \in BOOLEAN
    /\ wg \in Int /\ activeVUs \in Int /\ inUse \subseteq VUIDs
    /\ iterations \in Nat

Budget == INSTANCE IterationBudget WITH returned <- main = "returned"

\* Every iteration is started at most once, by whichever VU, and none is
\* started once the call has returned.
WithinBudget == Budget!Spec

\* Without a cancellation every iteration of the budget has been run when the
\* call returns; with own quotas, every one of a VU that did not fail.
AllRun ==
    main = "returned" /\ ~ctxDone =>
        IF shared THEN PoolSize > 0 => \A k \in Items : k[1] = 0 => ran[k] = 1
                  ELSE failures = 0 => \A k \in Items : k[1] < PoolSize => ran[k] = 1

\* An error of any iteration makes the call return an error, and only that,
\* unless the execution was cancelled.
ErrorReported ==
    main = "returned" /\ ~ctxDone => (result = "error" <=> failures > 0)

Clean == activeVUs = 0 /\ inUse = {} /\ \A i \in VUIDs : vu[i] \in {"none", "exited"}

\* The call returns and leaves nothing behind, no goroutine, no VU of the pool and
\* no count, unless more of the shared iterations fail than errChan can hold.
Terminates == <>((main = "returned" /\ Clean) \/ (shared /\ failures > VUs))
=============================================================================
