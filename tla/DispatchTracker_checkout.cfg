SPECIFICATION Spec
CONSTANTS
    r1 = r1
    r2 = r2
    j1 = j1
    j2 = j2
    j3 = j3
    w1 = w1
    s1 = s1
    s2 = s2
    s3 = s3
    NoJob = NoJob
    NoKey = NoKey
    NoRepo = NoRepo
    NoSession = NoSession
    Jobs = {j1, j2, j3}
    Repos = {r1}
    Trees = {w1}
    RepoOf <- OneRepo
    KeyOf <- TaskKeys
    SessionOf <- OneShell
    ReadOnly = {j2}
    TempWorkers = {}
    Workers = 3
    Limit <- LimitTwo
    MaxSessions = 0
    Serviced = {r1}
    Flips = {r1}
    Again = {}
    FgSessions = {}
    Faulty = {j1}
    MaxStops = 0
INVARIANTS
    TypeOK
    CheckoutExclusive
    RepoLimit
    PollQuiet
    MaintQuiet
    NotStranded
CHECK_DEADLOCK FALSE
