SPECIFICATION Spec
CONSTANTS
  n1 = n1
  n2 = n2
  Nodes <- MCNodes
  OpenShift = TRUE
  Patching <- AllSpecs
  SecurityChecked = FALSE
  MaxSpec = 1
  MaxCreations = 2
  MaxFaults = 1
SYMMETRY NodeSymmetry
INVARIANTS TypeOK SideEffectsGuarded ConvergedAtRest
PROPERTIES OwnersExist GuardImplemented
CHECK_DEADLOCK FALSE
