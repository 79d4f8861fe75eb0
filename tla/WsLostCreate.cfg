SPECIFICATION Spec
CONSTANTS
    Chunks <- MCChunks
    ReadBound = 3
    MaxFrames = 2
    MaxCancels = 1
INVARIANTS
    EveryCreateIsHandled
CHECK_DEADLOCK FALSE
