SPECIFICATION Spec
CONSTANTS
    Module = {m1, m2}
    Allocating = {}
    BindingFirst = TRUE
    MaxObjects = 2
    None = None
INVARIANTS
    CompilerOutlivesCode
CHECK_DEADLOCK FALSE
