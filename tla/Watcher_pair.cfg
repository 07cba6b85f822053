SPECIFICATION Spec
CONSTANTS
    Files = {f}
    Contents = {a}
    Watchers = {p, q}
    None = none
    MaxAttempts = 2
    Lease = 1
    RetryBase = 1
    RetryMax = 1
    Stability = 1
    MaxActive = 1
    MaxJobs = 1
    MaxChanges = 2
    MaxFaults = 1
SYMMETRY WatcherSymmetry
INVARIANTS
    TypeOK
PROPERTIES
    TombstonesAreTrue
    ImplementsLifecycle
CHECK_DEADLOCK FALSE
