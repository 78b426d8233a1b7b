CONSTANTS
    s1 = s1
    w1 = w1
    Slaves = {s1}
    Watchers = {w1}
    Capacity = 2
    HeartbeatTimeout = 1
    MaxTime = 3
    MaxInFlight = 2
SPECIFICATION RegistrySpec
INVARIANTS MapsAgree EventsTellState
PROPERTY SilentGoesOffline
