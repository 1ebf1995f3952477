SPECIFICATION FairSpec
CONSTANTS
    Fn <- MCFn
    NoFn = NoFn
    Code <- CallCode
    Handlers <- CallHandlers
    MaxFrames = 7
    MaxNest = 1
    CatchBeforeSuspend = FALSE
    InOneStep = {}
    Compiled <- MCCompiled
    Simple <- MCSimple
    Inlined <- MCInlined
    MaxDirect = 5
INVARIANTS
    JitTypeOK
    WaitersKeepFrames
    RunsInOwnFrame
    StacksAligned
PROPERTIES
    ImplementsVM
    SuspendHonoured
