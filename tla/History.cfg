SPECIFICATION KeptSpec
CONSTANTS
    RingCap = 1
    PendingMax = 1
    LogMax = 5
    MaxOut = 3
    MaxClears = 1
    MaxCheckpoints = 2
    MaxInc = 2
    MaxFails = 1
    MaxLosses = 1
    MaxFaults = 1
    Worktrees = {1}
    GcSessions = {1, 2}
    Panes = {1, 2}
    WtOf <- GcWorktreeOf
    SessOf <- GcSessionOf
INVARIANTS
    PairingInv
    AckedRecoverable
    IdleRestoreExact
    NoHole
    OneIncarnation
PROPERTIES
    GcSparesLive
CHECK_DEADLOCK FALSE
