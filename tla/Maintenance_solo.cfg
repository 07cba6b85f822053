SPECIFICATION FairSpec
CONSTANTS
    Objects = {1, 2}
    Calls = {c1}
    Holdable = {1}
    MaxPuts <- FirstTwice
    MaxBatches = 2
    MaxCrashes = 1
    RecoveryMayBeLate = FALSE
    CallsMayLag = FALSE
    None = none
INVARIANTS
    TypeOK
    QuarantineIsOwned
    BatchIsWhole
PROPERTIES
    OutcomeIsTrue
    ImplementsRetention
    FenceLifts
CHECK_DEADLOCK FALSE
