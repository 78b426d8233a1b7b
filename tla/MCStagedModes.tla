---------------------------- MODULE MCStagedModes ----------------------------
(* An instance of StagedModes for TLC.                                        *)
EXTENDS StagedModes

\* Up to two VUs, down to one, and up again.
MCStages == <<3, 0, 2>>
=============================================================================
