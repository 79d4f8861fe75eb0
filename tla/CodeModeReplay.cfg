SPECIFICATION Spec
CONSTANTS
    Declarations <- MCDeclarations
    ToolChoices <- MCToolChoices
    Settings <- MCSettings
    TTL = 0
    MaxTurns = 3
    Redeclares = FALSE
INVARIANTS
    ReplayedCallsAreJson
CHECK_DEADLOCK FALSE
