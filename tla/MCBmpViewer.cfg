SPECIFICATION LiveSpec

CONSTANTS
  Word = 256
  Files <- MCFiles
  Headers <- MCHeaders
  Screens <- MCScreens

INVARIANTS
  ViewerTypeOK
  PictureOnScreen
  NoStrayBytes
  FileClosed
  ExitReleases
  IndexesInside

PROPERTIES
  ViewerEnds
  EveryStepForward

CHECK_DEADLOCK FALSE
