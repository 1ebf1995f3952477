SPECIFICATION Spec
CONSTANTS
    Thread = {t1, t2}
    Cell = {c1, c2, c3}
    base = base
    derived = derived
    Type = {base}
    Bases <- OneType
    Limit = 2
    None = None
SYMMETRY Symmetry
INVARIANTS
    PoolTypeOK
    OnlyOwnerInList
    CountMatchesList
    NothingLeaks
CHECK_DEADLOCK FALSE
