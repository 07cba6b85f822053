SPECIFICATION FairSpec
CONSTANTS
    Files = {f}
    Contents = {a, b}
    Watchers = {p}
    None = none
    MaxAttempts = 2
    Lease = 1
    RetryBase = 1
    RetryMax = 1
    Stability = 1
    MaxActive = 1
    MaxJobs = 1
    MaxChanges = 2
    MaxFaults = 1
INVARIANTS
    NothingStableForgotten
PROPERTIES
    StableBeforeScheduled
    EveryContentSettles
CHECK_DEADLOCK FALSE
