SPECIFICATION Spec
CONSTANTS
    Callers = {c1, c2}
    Killers = {}
    MaxCalls = 2
    MaxSpawnFails = 0
CHECK_DEADLOCK FALSE
INVARIANTS
    SuccessorKeepsHistory
