SPECIFICATION Spec
CONSTANTS
    Cases <- MCCases
INVARIANT EmptyStagesFail
CHECK_DEADLOCK FALSE
