SPECIFICATION FairSpec
CONSTANTS
  Clients = {c1, c2}
  Nobody = Nobody
  Messages = {"first", "second", "greetings"}
  Script <- Two
  Default = "greetings"
  MaxWrites = 2
  MaxStarts = 2
INVARIANTS
  ServerInv
  OneReadOutstanding
  GreetsTheAccepted
PROPERTIES
  ServesMessages
  ClientsGreeted
  WritesAnswered
  ConnectionsReleased
CHECK_DEADLOCK FALSE
