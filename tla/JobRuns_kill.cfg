SPECIFICATION Spec
CONSTANTS
    Jobs = {j1, j2}
    Sessions = {"s1"}
    NoJob = NoJob
    NoLock = NoLock
    NoSession = NoSession
    SessionOf <- OneSession
    FgJobs = {}
    Tree = {j1, j2}
    Legs = {j2}
    OpJobs = {}
    BootAware = TRUE
    PoolDispatch = FALSE
    LiveLapse = {"daemon"}
    MaxBlockerRetries = 0
    MaxCrashes = 0
PROPERTIES
    KillSparesRunning
    KilledLegStaysDown
CHECK_DEADLOCK FALSE
