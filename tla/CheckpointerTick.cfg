SPECIFICATION Spec
CONSTANTS
    s1 = s1
    s2 = s2
    a = a
    b = b
    f1 = f1
    f2 = f2
    Sessions = {s1, s2}
    Ids = {a, b}
    IdOf <- OwnIds
    NoSession = NoSession
    Tick = Tick
    Flushers = {}
    Stoppers = {}
    PendingMax = 1
    MaxOut = 1
    MaxCloses = 0
    MaxFails = 1
CHECK_DEADLOCK FALSE
PROPERTIES
    EventuallyPersisted
    LoopQuiesces
