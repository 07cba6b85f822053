SPECIFICATION BackupSpec
CONSTANTS
    Objects = {1, 2}
    Calls = {c1, c2}
    Holdable = {}
    MaxPuts <- SecondTwice
    MaxBatches = 1
    MaxCrashes = 1
    RecoveryMayBeLate = FALSE
    CallsMayLag = FALSE
    None = none
INVARIANTS
    ReferencedSurvives
    BackupIsWhole
