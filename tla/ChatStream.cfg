SPECIFICATION Spec
CONSTANTS
    SlotCount = 2
    CustomSlots = {1}
    Chunks <- MCChunks
    MaxChunks = 4
    TransportStarts = TRUE
    ToolsResumeAfterText = FALSE
INVARIANTS
    TypeOK
    EventsAreWellFormed
    TextIsRelayed
    PersistedIsWhole
PROPERTIES
    ImplementsItemProtocol
CHECK_DEADLOCK FALSE
