CONSTANTS
    MaxVUs = 2
    Limits = {1, 2, 3}
    PreAllocated = 1
    Stages <- MCStages
    MaxStarts = 4
    MaxTicks = 6
SPECIFICATION Spec
INVARIANTS ReturnsAlone OneVUPerId
PROPERTY Settles
