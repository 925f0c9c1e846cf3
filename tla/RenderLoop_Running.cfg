SPECIFICATION Spec
CONSTANTS
  Sizes = {1, 2}
  MinExtent = 1
  MaxExtent = 2
  SurfaceDecides = TRUE
  ImageCount = 2
  MaxInput = 2
INVARIANT KeepsRunning
CHECK_DEADLOCK FALSE
