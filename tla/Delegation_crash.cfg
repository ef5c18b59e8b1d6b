SPECIFICATION LiveSpec
CONSTANTS
    NLegs = 2
    MaxRetry = 1
    Plans <- CrashPlans
    Verbs = {}
    Texts = {}
    Repeats = FALSE
    MaxJobs = 20
    MaxRounds = 0
    MaxCrashes = 1
INVARIANTS
    TypeOK
PROPERTIES
    Settles
    RoundsEnd
    JoinsAsPromised
CHECK_DEADLOCK FALSE
