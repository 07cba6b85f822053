SPECIFICATION Spec
CONSTANTS
    Ingesters = {i, j}
    Writers = {w}
    Optimizers = {o}
SYMMETRY Symmetry
INVARIANTS
    TypeOK
    StoredIsKept
    SourceIsOrdinary
