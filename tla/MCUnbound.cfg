SPECIFICATION Spec
CONSTANTS
  NConn = 2
  NEnc = 2
  NCrtc = 2
  Faults <- NoFaults
INVARIANTS
  SearchFindsCrtc
CHECK_DEADLOCK FALSE
