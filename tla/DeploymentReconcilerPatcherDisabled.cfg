SPECIFICATION Spec
CONSTANTS
  n1 = n1
  n2 = n2
  Nodes <- MCNodes
  OpenShift = TRUE
  Patching <- FirstSpec
  SecurityChecked = FALSE
  MaxSpec = 2
  MaxCreations = 1
  MaxFaults = 0
INVARIANTS UninstallCleans
CHECK_DEADLOCK FALSE
