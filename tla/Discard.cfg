SPECIFICATION Spec
CONSTANTS
    Module = {m1, m2}
    Allocating = {}
    BindingFirst = FALSE
    MaxObjects = 2
    None = None
PROPERTIES
    DiscardFreesModule
CHECK_DEADLOCK FALSE
