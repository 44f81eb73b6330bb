CONSTANTS
    MaxTokens = 2
    MaxCalls = 3
    MaxOps = 2
    NGroups = 1
    MaxNeed = 2
    None = None
SPECIFICATION FairSpec
INVARIANTS
    TypeOK
    OneKeyPerToken
    NothingUnconfirmed
    SpinnerHasWork
PROPERTIES
    CommittedStays
    WarningIsConfirmed
    OperationsEnd
CHECK_DEADLOCK FALSE
