SPECIFICATION Spec

CONSTANTS
  Pictures <- MCPictures
  Screens <- MCScreens
  MaxFrame = 3
  QMax = 2
  Samples <- MCSamples

INVARIANTS
  PictureTypeOK
  AnnouncedWhole
  PixelsInPlace
  PixelsNotOlder
  ShownWholeUnlessOvertaken

PROPERTIES
  ColoursRight
  ScreenOnlyNewer

CHECK_DEADLOCK FALSE
