SPECIFICATION FairSpec
CONSTANTS
    Fn <- MCFn
    NoFn = NoFn
    Code <- CallCode
    Handlers <- CallHandlers
    MaxFrames = 3
    MaxNest = 0
    CatchBeforeSuspend = FALSE
    InOneStep = {}
    Compiled <- MCCompiled
    Simple <- MCSimple
    Inlined <- MCInlined
    MaxDirect = 2
PROPERTIES
    EveryLoopPolls
