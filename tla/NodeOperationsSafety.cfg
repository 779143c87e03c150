SPECIFICATION Spec
CONSTANTS
  n1 = n1
  n2 = n2
  NoNode = NoNode
  Nodes <- TwoNodes
  Kinds = {"drive", "lvg"}
  MaxAdmin = 3
  MaxFaults = 2
SYMMETRY NodeSymmetry
INVARIANTS TypeOK NoOrphans
PROPERTIES OnlyDrainedRemoved OnlyGoneRemoved RemovalImplemented
CHECK_DEADLOCK FALSE
