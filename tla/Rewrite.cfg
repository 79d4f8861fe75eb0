SPECIFICATION Spec
CONSTANTS
    Cases <- MCCases
INVARIANTS
    TypeOK
    StartupIsStrict
    OnlyNamedPathsChange
    ProviderDialect
PROPERTIES
    RemovedIsGone
CHECK_DEADLOCK FALSE
