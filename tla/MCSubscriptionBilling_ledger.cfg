CONSTANTS
    Requests = {r, t}
    Tasks = {t}
    Internal = {}
    Realtime = {r}
    Grant <- MCGrant
    Overflow = {1, 2}
    TokenQuota = 2
    Unlimited = FALSE
    MinWallet = 0
    InitialWallet = 1
    MaxAmount = 2
    MaxVersion = 1
    MaxOps = 2
    MaxFaults = 1
SPECIFICATION Spec
INVARIANTS
    TypeOK
    BooksBalance
PROPERTY CostIsFinal
CHECK_DEADLOCK FALSE
