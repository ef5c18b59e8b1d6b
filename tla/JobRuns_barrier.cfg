SPECIFICATION Spec
CONSTANTS
    Jobs = {j1, j2}
    Sessions = {"s1"}
    NoJob = NoJob
    NoLock = NoLock
    NoSession = NoSession
    SessionOf <- OneSession
    FgJobs = {j2}
    Tree = {}
    Legs = {}
    OpJobs = {j1}
    BootAware = TRUE
    PoolDispatch = FALSE
    LiveLapse = {}
    MaxBlockerRetries = 0
    MaxCrashes = 1
INVARIANTS
    TypeOK
    SessionExclusive
    ActiveRunAccounted
    CoveredRunOwnsRow
PROPERTIES
    TerminalLeftOnPurpose
CHECK_DEADLOCK FALSE
