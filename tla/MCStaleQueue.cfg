SPECIFICATION AppSpec
CONSTANTS
  N = 2
  QMax = 2
  MaxFrame = 2
  MaxBoots = 2
  Faults <- NoThreadFaults
  MainFaults <- NoMainFaults
INVARIANTS
  ShowsCaptured
CHECK_DEADLOCK FALSE
