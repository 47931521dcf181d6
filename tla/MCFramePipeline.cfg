SPECIFICATION Spec
CONSTANTS
  N = 2
  QMax = 2
  MaxFrame = 4
  Faults <- AllFaults
INVARIANTS
  TypeOK
  OneHolder
  WorkerKnowsItself
  NoMixedFrame
  AnnouncedInOrder
  ShownNotOlder
  WholeUnlessOverwritten
  NoCircularWait
PROPERTIES
  BusyBufferStable
  PicturesAdvance
  RelaySpec
CHECK_DEADLOCK FALSE
