SPECIFICATION Spec
CONSTANTS
  Overrides <- Dialogue
  Outside = {}
  Patient = TRUE
  MaxConnects = 1
  MaxWrites = 0
  MaxFarewells = 0
  MaxChunks = 3
INVARIANTS
  DeliveredInOrder
CHECK_DEADLOCK FALSE
