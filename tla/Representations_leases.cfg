SPECIFICATION Spec
CONSTANTS
    Versions = {u, v}
    Ingesters = {p, q}
    None = none
    Lease = 2
    MaxTime = 4
    MaxRuns = 2
    MaxChanges = 1
SYMMETRY Symmetry
INVARIANTS
    TypeOK
    LeaseExclusive
    HeadIsNewest
    HeadWasTrue
PROPERTIES
    ReadyIsFinal
CHECK_DEADLOCK FALSE
