SPECIFICATION Spec
CONSTANTS
    NStages = 3
    Specs <- HollowSpecs
    MaxRuns = 1
    MaxAttempt = 0
    MaxGen = 1
    Creators = {"cli"}
    MaxUps = 0
    Mortal = {}
INVARIANT
    SuccessMeansDone
