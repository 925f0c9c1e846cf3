SPECIFICATION FairSpec
CONSTANTS
  Overrides <- Dialogue
  Outside = {"Write"}
  Patient = TRUE
  MaxConnects = 3
  MaxWrites = 3
  MaxFarewells = 0
  MaxChunks = 3
INVARIANTS
  ConnectedMeansOpen
  EveryConnectEndsOnce
PROPERTIES
  ChunksDelivered
  CloseNoticed
CHECK_DEADLOCK FALSE
