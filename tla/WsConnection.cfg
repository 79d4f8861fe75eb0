SPECIFICATION FairSpec
CONSTANTS
    Chunks <- MCChunks
    ReadBound = 3
    MaxFrames = 2
    MaxCancels = 1
INVARIANTS
    TypeOK
    TurnsAreSequential
    TurnIsKept
    TokenFollowsTurn
PROPERTIES
    TurnEndsOrStalls
CHECK_DEADLOCK FALSE
