SPECIFICATION Spec

CONSTANTS
  Word = 256
  Files <- MCFiles
  Headers <- MCHeaders
  Screens <- MCScreens

INVARIANTS
  NonBmpRefused

CHECK_DEADLOCK FALSE
