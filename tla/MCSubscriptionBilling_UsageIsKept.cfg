CONSTANTS
    Requests = {r, t}
    Tasks = {t}
    Internal = {}
    Realtime = {r}
    Grant <- MCGrant
    Overflow = {1, 2}
    TokenQuota = 3
    Unlimited = FALSE
    MinWallet = 0
    InitialWallet = 1
    MaxAmount = 1
    MaxVersion = 1
    MaxOps = 2
    MaxFaults = 0
SPECIFICATION Spec
INVARIANT UsageIsKept
CHECK_DEADLOCK FALSE
