--------------------------- MODULE IterationBudget ---------------------------
(***************************************************************************)
(* What the iteration-limited modes promise: a fixed set of iterations, of  *)
(* which each is run at most once, and none after the call has returned.    *)
(***************************************************************************)
EXTENDS Naturals

CONSTANT Items

VARIABLES ran,      \* ran[k]: how often iteration k has been started
          returned

Init == ran = [k \in Items |-> 0] /\ returned = FALSE

Run(k) ==
    /\ ~returned /\ ran[k] = 0
    /\ ran' = [ran EXCEPT ![k] = 1]
    /\ UNCHANGED returned

Return ==
    /\ ~returned
    /\ returned' = TRUE
    /\ UNCHANGED ran

Next == (\E k \in Items : Run(k)) \/ Return

Spec == Init /\ [][Next]_<<ran, returned>>
=============================================================================
