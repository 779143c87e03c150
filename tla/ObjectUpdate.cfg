SPECIFICATION FairSpec
CONSTANTS
  p1 = p1
  p2 = p2
  Processes <- TwoProcesses
  MaxSpec = 2
  MaxCreations = 2
  MaxOthers = 1
  MaxFaults = 1
INVARIANTS TypeOK AppliedAtRest
PROPERTIES WritesAtomic Settles
CHECK_DEADLOCK FALSE
