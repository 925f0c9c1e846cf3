SPECIFICATION Spec
CONSTANT Machines <- MCMachines
INVARIANT FamilyHasGraphics
CHECK_DEADLOCK FALSE
