SPECIFICATION Spec
CONSTANTS
    Module = {m1, m2}
    Allocating = {m1}
    BindingFirst = FALSE
    MaxObjects = 2
    None = None
INVARIANTS
    PoolServesRunningCode
CHECK_DEADLOCK FALSE
