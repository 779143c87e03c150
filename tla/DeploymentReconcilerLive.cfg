SPECIFICATION FairSpec
CONSTANTS
  n1 = n1
  n2 = n2
  Nodes = {n1}
  OpenShift = FALSE
  Patching <- AllSpecs
  SecurityChecked = TRUE
  MaxSpec = 2
  MaxCreations = 1
  MaxFaults = 1
INVARIANTS ConvergedAtRest
PROPERTIES EditsKept DeletionCompletes SpecApplied
CHECK_DEADLOCK FALSE
