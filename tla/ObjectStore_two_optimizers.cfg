SPECIFICATION Spec
CONSTANTS
    Ingesters = {i}
    Writers = {w}
    Optimizers = {o1, o2}
SYMMETRY Symmetry
INVARIANTS
    StoredIsKept
