SPECIFICATION FairSpec
CONSTANTS
  Handlers = {h1, h2, h3}
  h1 = h1
  h2 = h2
  h3 = h3
  Priority <- MCPriority
  MaxBinds = 4
INVARIANTS
  TypeOK
  IteratorValid
  NoneSkipped
  StaysBound
PROPERTIES
  TellsInOrder
  DispatchEnds
CHECK_DEADLOCK FALSE
