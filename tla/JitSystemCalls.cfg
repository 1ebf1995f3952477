SPECIFICATION JitSpec
CONSTANTS
    Fn <- MCFn
    NoFn = NoFn
    Code <- SysCode
    Handlers <- SysHandlers
    MaxFrames = 7
    MaxNest = 2
    CatchBeforeSuspend = FALSE
    InOneStep = {}
    Compiled <- MCCompiled
    Simple <- MCSimple
    Inlined <- MCInlined
    MaxDirect = 4
INVARIANTS
    InductiveInv
    ExceptionIsFlagged
PROPERTIES
    ImplementsVM
    SysFramesUntouched
