SPECIFICATION LiveSpec
CONSTANTS
    a = a
    b = b
    Reviewers = {a, b}
    MaxHead = 3
    Plans <- Loop
PROPERTY VettedMerge
PROPERTY FollowsHost
PROPERTY ApprovedMoves
PROPERTY ClosedSettles
CHECK_DEADLOCK FALSE
