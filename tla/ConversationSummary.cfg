SPECIFICATION Spec
CONSTANTS
    MaxTurns = 3
    HasKey = TRUE
    KeepLastTurns = 1
    Replies <- MCReplies
    Budgets <- MCUnlimited
CHECK_DEADLOCK FALSE
INVARIANT SummaryIsReplayed
