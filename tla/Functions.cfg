SPECIFICATION Spec
CONSTANTS
  WordBits = 8
  Fp <- MCFp
  MaxCachedLocals = 4
  MinCachedLength = 8
  MaxInlineLength = 256
  BranchShare = 7
  MaxInlineBody = 16
  Programs <- MCPrograms
  Frames <- MCFrames
  CallOf <- CallFunction
  CodeOfCall <- EmitCall
  WideLanes = 4
  NarrowLanes = 2
INVARIANTS
  FunctionTypeOK
  GoTogether
  OnlyKnownDifferences
  CodeExists
  ForwardIsTaken
CHECK_DEADLOCK FALSE
