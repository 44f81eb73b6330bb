CONSTANTS
    Runners = {r1, r2}
    Crashable = {}
    MaxTasks = 1
    MaxLegacy = 0
    TTL = 2
    Lag = 0
    Late = 3
    Interval = 1
    Keep = 1
    MaxFaults = 0
    None = None
SPECIFICATION FairSpec
PROPERTY ExpiredRunsEnd
