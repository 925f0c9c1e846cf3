SPECIFICATION Spec
CONSTANT Machines <- MCMachines
INVARIANTS
  CallsLive
  Complete
  ChoicesFit
PROPERTIES
  ImplementsTree
  CloseFreesAll
CHECK_DEADLOCK FALSE
