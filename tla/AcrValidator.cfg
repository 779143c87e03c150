SPECIFICATION FairSpec
CONSTANTS
  p1 = p1
  p2 = p2
  Processes <- TwoProcesses
  NoPod = NoPod
  Pods = {"a"}
  MaxUses = 2
  MaxFaults = 1
INVARIANT TypeOK
PROPERTIES PendingKept OutdatedRemoved
CHECK_DEADLOCK FALSE
