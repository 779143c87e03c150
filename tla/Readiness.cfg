SPECIFICATION FairSpec
CONSTANTS
  m1 = m1
  m2 = m2
  Masters <- TwoMasters
  Timeout = 1
  MaxFaults = 1
INVARIANTS TypeOK ReportCurrentAtRest
PROPERTY ReadyEventually
CHECK_DEADLOCK FALSE
