SPECIFICATION Spec
CONSTANTS
    r1 = r1
    r2 = r2
    j1 = j1
    j2 = j2
    j3 = j3
    w1 = w1
    s1 = s1
    s2 = s2
    s3 = s3
    NoJob = NoJob
    NoKey = NoKey
    NoRepo = NoRepo
    NoSession = NoSession
    Jobs = {j1, j2, j3}
    Repos = {r1, r2}
    Trees = {w1}
    RepoOf <- TwoRepos
    KeyOf <- TaskKeys
    SessionOf <- ShellShared
    ReadOnly = {}
    TempWorkers = {j3}
    Workers = 2
    Limit <- LimitTwo
    MaxSessions = 1
    Serviced = {}
    Flips = {}
    Again = {}
    FgSessions = {}
    Faulty = {}
    MaxStops = 0
INVARIANTS
    HostLimit
    AdmissionLimit
CHECK_DEADLOCK FALSE
