SPECIFICATION Spec
CONSTANTS
    Bodies <- MCBodies
INVARIANTS
    TypeOK
    FedAsSent
CHECK_DEADLOCK FALSE
