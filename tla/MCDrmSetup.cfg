SPECIFICATION Spec
CONSTANTS
  NConn = 2
  NEnc = 2
  NCrtc = 2
  Faults <- AllFaults
INVARIANTS
  DrmTypeOK
  FailureLeavesNothing
  ReadyIsShown
CHECK_DEADLOCK FALSE
