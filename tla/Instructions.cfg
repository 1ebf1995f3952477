SPECIFICATION Spec
CONSTANTS
  WordBits = 8
  Fp <- MCFp
  MaxCachedLocals = 4
  MinCachedLength = 16
  MaxInlineLength = 256
  BranchShare = 7
  Instructions <- MCInstructions
  Machines <- MCMachines
INVARIANTS
  TypeOK
  SameResult
  SameException
  DifferencesAreLocal
  ValueRegisterListsRight
  ExceptionFindsFrame
CHECK_DEADLOCK FALSE
