SPECIFICATION Spec
CONSTANTS
  Overrides <- Anything
  Outside = {"Connect", "Disconnect", "Write"}
  Patient = TRUE
  MaxConnects = 3
  MaxWrites = 2
  MaxFarewells = 3
  MaxChunks = 3
INVARIANTS
  TypeOK
  PatientInv
  NoStaleRead
  SoleWriterReadsInOrder
  OneReadPerWrite
CHECK_DEADLOCK FALSE
