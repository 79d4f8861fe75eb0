SPECIFICATION FairSpec
CONSTANTS
    Chunks <- MCChunks
    ReadBound = 3
    Capacity = 2
    StoreFlag = TRUE
    MaxCancels = 2
INVARIANTS
    TypeOK
    RelayedInOrder
    HistoryIsWhole
    TokenFollowsTask
PROPERTIES
    CompletedIsStored
    EndsOrBlocked
CHECK_DEADLOCK FALSE
