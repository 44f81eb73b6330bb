CONSTANTS
    Runners = {r1, r2}
    Crashable = {r1, r2}
    MaxTasks = 2
    MaxLegacy = 2
    TTL = 1
    Lag = 0
    Late = 2
    Interval = 1
    Keep = 1
    MaxFaults = 1
    None = None
SPECIFICATION Spec
SYMMETRY Symmetry
INVARIANTS
    TypeOK
    RunningIsLeased
    ActiveKeyIsFreed
PROPERTIES
    LeaseIsHonoured
    StartsAlone
    EndedIsFinal
