SPECIFICATION Spec
CONSTANTS
    NLegs = 2
    MaxRetry = 0
    Plans <- AskPlan
    Verbs = {"answer"}
    Texts = {"t"}
    Repeats = FALSE
    MaxJobs = 20
    MaxRounds = 0
    MaxCrashes = 0
INVARIANTS
    AnswerCarried
CHECK_DEADLOCK FALSE
