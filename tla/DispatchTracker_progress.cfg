SPECIFICATION FairSpec
CONSTANTS
    r1 = r1
    r2 = r2
    j1 = j1
    j2 = j2
    j3 = j3
    w1 = w1
    s1 = s1
    s2 = s2
    s3 = s3
    NoJob = NoJob
    NoKey = NoKey
    NoRepo = NoRepo
    NoSession = NoSession
    Jobs = {j1, j2}
    Repos = {r1}
    Trees = {w1}
    RepoOf <- OneRepo
    KeyOf <- RepoKeys
    SessionOf <- OwnSessions
    ReadOnly = {j2}
    TempWorkers = {}
    Workers = 2
    Limit <- LimitTwo
    MaxSessions = 1
    Serviced = {}
    Flips = {}
    Again = {}
    FgSessions = {s2}
    Faulty = {}
    MaxStops = 1
INVARIANTS
    NoReservationLeak
PROPERTIES
    DrainCompletes
    BouncedRetried
CHECK_DEADLOCK FALSE
