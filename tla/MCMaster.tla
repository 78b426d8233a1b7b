------------------------------ MODULE MCMaster -------------------------------
(* Instances of Master for TLC.                                              *)
EXTENDS Master
CONSTANTS e1, e2, s1, s2
=============================================================================
