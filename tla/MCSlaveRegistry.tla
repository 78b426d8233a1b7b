--------------------------- MODULE MCSlaveRegistry ----------------------------
(* Instances of SlaveRegistry for TLC.                                        *)
EXTENDS SlaveRegistry
CONSTANTS s1, w1
=============================================================================
