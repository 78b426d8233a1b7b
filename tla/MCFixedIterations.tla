-------------------------- MODULE MCFixedIterations --------------------------
(* Instances of FixedIterations for TLC; the .cfg files choose the constants. *)
EXTENDS FixedIterations
=============================================================================
