SPECIFICATION Spec
CONSTANTS
  Sizes = {1, 2}
  MinExtent = 1
  MaxExtent = 2
  SurfaceDecides = FALSE
  ImageCount = 2
  MaxInput = 0
PROPERTY DrawsWhenReady
CHECK_DEADLOCK FALSE
