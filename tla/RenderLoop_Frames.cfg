SPECIFICATION Spec
CONSTANTS
  Sizes = {1, 2}
  MinExtent = 1
  MaxExtent = 2
  SurfaceDecides = TRUE
  ImageCount = 2
  MaxInput = 3
INVARIANTS
  TypeOK
  InUseAlive
  FramesFit
  DrawsOffScreen
PROPERTIES
  ResizeFollowed
  CloseStops
CHECK_DEADLOCK FALSE
