SPECIFICATION Spec
CONSTANTS
    None = None
    Absent = Absent
    BaseA = BaseA
    BaseB = BaseB
    Configs <- MCConfigs
    Offered <- MCOffered
    DefaultMessages = 2
    Bundled = 12
    Lists = {1, 2}
    ClientsList = 1
    MaxOutages = 1
    MaxTurns = 4
    Replies <- MCReplies
    Silent = {2}
    HasKey = TRUE
    KeepLastTurns = 2
CHECK_DEADLOCK FALSE
INVARIANTS
    NoneIsNothingOffered
