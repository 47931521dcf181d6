SPECIFICATION LiveSpec
CONSTANTS
  N = 2
  QMax = 2
  MaxFrame = 2
  Faults <- AllFaults
PROPERTIES
  BufferComesBack
  AnnouncedIsShown
  SurvivorsKeepShowing
CHECK_DEADLOCK FALSE
