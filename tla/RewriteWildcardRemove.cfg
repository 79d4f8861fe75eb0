SPECIFICATION Spec
CONSTANTS
    Cases <- MCCases
PROPERTIES
    RemoveDeletesPaths
CHECK_DEADLOCK FALSE
