SPECIFICATION FairSpec
CONSTANTS
  n1 = n1
  n2 = n2
  NoNode = NoNode
  Nodes <- TwoNodes
  Kinds = {"lvg"}
  MaxAdmin = 3
  MaxFaults = 1
INVARIANTS RemovedAtRest
PROPERTIES RemovedEventually LabelFollowsTaint MaintenanceEvicts
CHECK_DEADLOCK FALSE
