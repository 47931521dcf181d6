SPECIFICATION AppSpec
CONSTANTS
  N = 2
  QMax = 2
  MaxFrame = 3
  MaxBoots = 2
  Faults <- AllThreadFaults
  MainFaults <- AllMainFaults
INVARIANTS
  AppTypeOK
  LcdNeverSeesFreed
  StaleFirst
  FreshShownNotOlder
  CapturedUnlessStale
CHECK_DEADLOCK FALSE
