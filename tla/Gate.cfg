SPECIFICATION Spec
CONSTANTS
    BufCap = 2
    MaxPauses = 3
    MaxResumes = 2
    MaxOut = 3
INVARIANTS
    PauseTakesHold
    PausedIsArmed
PROPERTIES
    FailsafeEndsOwnPause
    ParkedReaderWakes
    KillEndsInExit
CHECK_DEADLOCK FALSE
