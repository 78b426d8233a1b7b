CONSTANTS
    VUs = 2
    Iterations = 0
    HasDuration = TRUE
    PoolSize = 2
    ScaleTargets = {1}
    MaxVUIDs = 3
    MaxScales = 1
SPECIFICATION Spec
INVARIANTS CountersAgree NothingLeftBehind ReturnIsFinal
PROPERTIES StopReturns ScalingSettles
