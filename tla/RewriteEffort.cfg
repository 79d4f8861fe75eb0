SPECIFICATION Spec
CONSTANTS
    Cases <- MCCases
INVARIANT EffortIsAccepted
CHECK_DEADLOCK FALSE
