SPECIFICATION Spec
CONSTANTS
  N = 4
  MaxCount = 5
  Grants = {0, 1, 2, 3, 4, 5, 6}
  Faults <- AllFaults
INVARIANTS
  SetupTypeOK
  NothingLeftBehind
  ReadyIsWired
CHECK_DEADLOCK FALSE
