SPECIFICATION DispatchSpec
CONSTANTS
  MaxEntries = 20
  Arguments <- MCArguments
INVARIANTS
  DispatchTypeOK
  DispatchFindsEntry
  EntryStaysInRange
PROPERTIES
  RangeHalves
  DispatchEnds
CHECK_DEADLOCK FALSE
