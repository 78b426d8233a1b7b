--------------------------- MODULE MCGuluExecution ---------------------------
(* GuluExecution for TLC: two streams under the session id of one client,    *)
(* with steps and questions or with a call of a user, a stream beside a      *)
(* blocking run of the same id, and each kind alone with more of both.       *)
EXTENDS GuluExecution

Run(kind, persist, size) == [kind |-> kind, persist |-> persist, size |-> size]
NoRun == Run("none", FALSE, 0)
Mix(first, second, n) == [requests |-> <<first, second>>, calls |-> n]

MCMixes ==
    {Mix(Run("sse", TRUE, 1), Run("sse", TRUE, 1), 0),
     Mix(Run("sse", TRUE, 0), Run("sse", TRUE, 0), 1),
     Mix(Run("sse", TRUE, 1), Run("blocking", TRUE, 1), 0),
     Mix(Run("sse", TRUE, 2), NoRun, 2),
     Mix(Run("sse", FALSE, 1), NoRun, 1),
     Mix(Run("blocking", TRUE, 2), NoRun, 1),
     Mix(Run("perf", TRUE, 0), NoRun, 3)}
=============================================================================
