CONSTANTS
    Boards <- MCBoards
    MaxMoves = 1
SPECIFICATION FairSpec
INVARIANTS
    TypeOK
    LineWhereSeen
    EdgeSeenInTime
PROPERTY
    KeepsSampling
