SPECIFICATION FairSpec
CONSTANTS
    Jobs = {j1}
    Sessions = {"s1"}
    NoJob = NoJob
    NoLock = NoLock
    NoSession = NoSession
    SessionOf <- OneSession
    FgJobs = {}
    Tree = {}
    Legs = {}
    OpJobs = {}
    BootAware = TRUE
    PoolDispatch = TRUE
    LiveLapse = {}
    MaxBlockerRetries = 1
    MaxCrashes = 2
PROPERTIES
    StrandedRunRecovered
    DeadLockReclaimed
    QueuedServed
CHECK_DEADLOCK FALSE
