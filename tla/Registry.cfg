SPECIFICATION SessionsSpec
CONSTANTS
    Callers = {c1, c2}
    Killers = {k1}
    MaxCalls = 3
    MaxSpawnFails = 1
    Writers = {c1, c2}
    MaxWrites = 2
    Sizes = {1, 3}
    MaxQueued = 2
CHECK_DEADLOCK FALSE
INVARIANTS
    OneLivePty
    LiveIsReachable
PROPERTIES
    CallsReturn
    DeadIsReaped
    OrderedChannel
    WritesReturn
