CONSTANTS
    Tabs = {t1, t2}
    Sids = {A, B}
    MaxGen = 2
    MaxOps = 4
    HasLocks = TRUE
    None = None
SYMMETRY Symmetry
SPECIFICATION Spec
INVARIANT CacheIsOneAccounts
CHECK_DEADLOCK FALSE
