SPECIFICATION FairSpec
CONSTANTS
    Files = {f}
    Contents = {a}
    Watchers = {p}
    None = none
    MaxAttempts = 1
    Lease = 1
    RetryBase = 1
    RetryMax = 1
    Stability = 1
    MaxActive = 1
    MaxJobs = 1
    MaxChanges = 2
    MaxFaults = 0
PROPERTIES
    ReappearingFilesSettle
CHECK_DEADLOCK FALSE
