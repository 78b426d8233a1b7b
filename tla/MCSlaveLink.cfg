SPECIFICATION Spec
CONSTANTS
    Tasks = {"t1", "t2"}
    Commands = {"c1"}
    Results = {11, 12, 13}
    QueueCap = 1
    SendCap = 1
    BufferCap = 1
    Conns = {1, 2}
    Pollers = {1, 2, 3}
    Mixes <- MCMixes
INVARIANTS
    ExactlyOnce
    ResultKept
PROPERTY ComesBack
CHECK_DEADLOCK FALSE
