-------------------------- MODULE MCOutputPipeline ---------------------------
(* An instance of OutputPipeline for TLC.                                    *)
EXTENDS OutputPipeline
=============================================================================
