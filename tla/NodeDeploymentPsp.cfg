SPECIFICATION Spec
CONSTANTS
  n1 = n1
  n2 = n2
  Unreadable = Unreadable
  Nodes <- TwoNodes
  Kernels <- ThreeKernels
  Roles <- OneRole
  Bindings <- OneBinding
  RefOf <- OneRef
  Features = {"psp"}
  FixedRoles = {}
  RoleRules <- PspRules
  MaxChanges = 2
  MaxFaults = 1
INVARIANT DeployedAtRest

CHECK_DEADLOCK FALSE
