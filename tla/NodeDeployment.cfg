SPECIFICATION FairSpec
CONSTANTS
  n1 = n1
  n2 = n2
  Unreadable = Unreadable
  Nodes <- TwoNodes
  Kernels <- ThreeKernels
  Roles <- OneRole
  Bindings <- OneBinding
  RefOf <- OneRef
  Features = {"none", "scc", "psp"}
  FixedRoles = {"psp"}
  RoleRules <- ThreeRules
  MaxChanges = 2
  MaxFaults = 1
INVARIANTS TypeOK DeployedAtRest ServedAtRest
PROPERTIES LabelsCurrent GoodNodesLabelled
CHECK_DEADLOCK FALSE
