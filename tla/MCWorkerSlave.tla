---------------------------- MODULE MCWorkerSlave -----------------------------
(* Instances of WorkerSlave for TLC.                                          *)
EXTENDS WorkerSlave
CONSTANTS t1, t2
=============================================================================
