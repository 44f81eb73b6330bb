CONSTANTS
    MaxTokens = 1
    MaxCalls = 2
    MaxOps = 1
    NGroups = 2
    MaxNeed = 1
    None = None
SPECIFICATION FairSpec
INVARIANT ShownBeforePreparing
CHECK_DEADLOCK FALSE
