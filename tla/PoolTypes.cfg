SPECIFICATION Spec
CONSTANTS
    Thread = {t1, t2}
    Cell = {c1, c2}
    base = base
    derived = derived
    Type = {base, derived}
    Bases <- MCBases
    Limit = 1
    None = None
INVARIANTS
    PooledIsDead
    DestructedIsLeaving
    PoolInv
PROPERTIES
    ImplementsHeap
CHECK_DEADLOCK FALSE
