SPECIFICATION Spec
CONSTANTS
    Module = {m1, m2}
    Allocating = {}
    BindingFirst = FALSE
    MaxObjects = 2
    None = None
INVARIANTS
    LifetimeTypeOK
    CompilerOutlivesCode
    BucketsKeepTypes
    BindingKeepsEngine
    NothingLeftBehind
    LifetimeInv
CHECK_DEADLOCK FALSE
