CONSTANTS
    e1 = e1
    e2 = e2
    s1 = s1
    s2 = s2
    Executions = {e1, e2}
    Slaves = {s1, s2}
    Local = {e1, e2}
    Standalone = TRUE
    MaxConcurrentExecutions = 1
    Callers = 2
SPECIFICATION Spec
INVARIANT MaxConcurrentHeld
