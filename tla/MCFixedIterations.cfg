CONSTANTS
    VUs = 3
    N = 4
    PoolSize = 2
    MaxFailures = 4
SPECIFICATION Spec
INVARIANTS AllRun ErrorReported
PROPERTIES WithinBudget Terminates
