CONSTANTS
    Tabs = {t1, t2}
    Sids = {A, B}
    MaxGen = 5
    MaxOps = 3
    HasLocks = TRUE
    None = None
SPECIFICATION FairSpec
INVARIANTS
    TypeOK
    JarIsCurrent
    AnonymousIsEmpty
PROPERTIES
    LateAnswersAreDropped
    NobodyWaitsForever
CHECK_DEADLOCK FALSE
