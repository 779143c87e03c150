SPECIFICATION Spec
CONSTANTS
  n1 = n1
  n2 = n2
  NoNode = NoNode
  Nodes <- OneNode
  Kinds = {"drive"}
  MaxAdmin = 3
  MaxFaults = 0
PROPERTIES OnlyDeletedRemoved
CHECK_DEADLOCK FALSE
