SPECIFICATION Spec
CONSTANTS
    MaxTurns = 2
    HasKey = TRUE
    KeepLastTurns = 1
    Replies <- MCOrderReplies
    Budgets <- MCUnlimited
CHECK_DEADLOCK FALSE
INVARIANT OutputsFollowCalls
