CONSTANTS
    e1 = e1
    e2 = e2
    s1 = s1
    s2 = s2
    Executions = {e1, e2}
    Slaves = {s1, s2}
    Local = {e1}
    Standalone = FALSE
    MaxConcurrentExecutions = 1
    Callers = 2
SPECIFICATION Spec
INVARIANTS CompletedMeansAll PlacesAccounted
PROPERTIES FinalStatusIsFinal StopEnds
