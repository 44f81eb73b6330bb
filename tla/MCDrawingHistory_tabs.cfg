CONSTANTS
    Tabs = {t1, t2}
    MaxReqs = 2
    MaxOps = 2
    Limit = 1
    None = None
SPECIFICATION FairSpec
INVARIANTS
    TypeOK
    ClearIsABarrier
    SavedIsStored
    UnsavedIsAnnounced
    OneGeneration
PROPERTIES
    ArchiveSpec
    FlagsEnd
CHECK_DEADLOCK FALSE
