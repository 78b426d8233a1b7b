----------------------------- MODULE MCSlaveLink -----------------------------
EXTENDS SlaveLink

\* The first mixes are about items, over WebSocket and over HTTP, the last
\* two about results.
MCMixes == {
    [items |-> {"t1", "c1"}, results |-> {}, ws |-> TRUE,  faults |-> 1],
    [items |-> {"t1", "c1"}, results |-> {}, ws |-> FALSE, faults |-> 2],
    [items |-> {"t1", "t2"}, results |-> {}, ws |-> FALSE, faults |-> 1],
    [items |-> {}, results |-> {11, 12, 13}, ws |-> FALSE, faults |-> 1],
    [items |-> {}, results |-> {11, 12}, ws |-> TRUE, faults |-> 1]}
=============================================================================
