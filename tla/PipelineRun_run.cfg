SPECIFICATION LiveSpec
CONSTANTS
    NStages = 3
    Specs <- RunSpecs
    MaxRuns = 2
    MaxAttempt = 1
    MaxGen = 2
    Creators = {"daemon"}
    MaxUps = 1
    Mortal = {"daemon"}
INVARIANTS
    TypeOK
    NeedsFirst
    InTurn
    MergeEarned
    HonestSuccess
    FiredOnce
PROPERTIES
    RunEnds
