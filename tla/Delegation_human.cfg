SPECIFICATION Spec
CONSTANTS
    NLegs = 2
    MaxRetry = 1
    Plans <- HumanPlans
    Verbs = {"retry", "continue", "abort", "answer"}
    Texts = {"t"}
    Repeats = FALSE
    MaxJobs = 20
    MaxRounds = 1
    MaxCrashes = 0
INVARIANTS
    DepsFirst
    OneActiveAttempt
    HonestSynthesis
    NeverStranded
CHECK_DEADLOCK FALSE
