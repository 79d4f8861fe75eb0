SPECIFICATION Spec
CONSTANTS
    MaxTurns = 3
    HasKey = TRUE
    KeepLastTurns = 1
    Replies <- MCReplies
    Budgets <- MCBudgets
CHECK_DEADLOCK FALSE
INVARIANTS
    TypeOK
    DialogueIsSent
    LastGivenApplies
    ConversationIsSent
