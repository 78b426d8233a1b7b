---------------------------- MODULE MCConstantVUs ----------------------------
(* Instances of ConstantVUs for TLC; the .cfg files choose the constants.    *)
EXTENDS ConstantVUs
=============================================================================
