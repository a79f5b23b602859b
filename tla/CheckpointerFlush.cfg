SPECIFICATION Spec
CONSTANTS
    s1 = s1
    s2 = s2
    a = a
    b = b
    f1 = f1
    f2 = f2
    Sessions = {s1}
    Ids = {a}
    IdOf <- OneSession
    NoSession = NoSession
    Tick = Tick
    Flushers = {f1, f2}
    Stoppers = {f2}
    PendingMax = 1
    MaxOut = 2
    MaxCloses = 1
    MaxFails = 1
CHECK_DEADLOCK FALSE
INVARIANTS
    NoLostWakeup
    NoSplice
PROPERTIES
    NeverRolledBack
