SPECIFICATION Spec
CONSTANTS
    Leaders = 2
    Configs <- MCConfigs
    Foreign <- MCForeign
    Timeout = 0
    MaxClock = 2
    MaxLost = 1
CHECK_DEADLOCK FALSE
INVARIANTS
    EvidenceIsKept
PROPERTIES
    NothingIsReplaced
    Progress
