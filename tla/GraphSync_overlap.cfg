SPECIFICATION Spec
CONSTANTS
    Items = {i, j}
    Syncs = {p, q}
    None = none
    MaxPages = 2
    MaxChanges = 2
    MaxRetries = 1
    MaxLog = 3
SYMMETRY Symmetry
INVARIANTS
    TypeOK
    MirrorsDrive
