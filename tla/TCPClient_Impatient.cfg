SPECIFICATION FairSpec
CONSTANTS
  Overrides <- Anything
  Outside = {"Connect", "Disconnect", "Write"}
  Patient = FALSE
  MaxConnects = 2
  MaxWrites = 2
  MaxFarewells = 2
  MaxChunks = 2
PROPERTIES
  AttemptEndsInCallback
  ConnectAnswered
CHECK_DEADLOCK FALSE
