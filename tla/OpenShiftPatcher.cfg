SPECIFICATION FairSpec
CONSTANTS
  ip1 = ip1
  ip2 = ip2
  NoIP = NoIP
  IPs <- TwoIPs
  MaxTries = 2
  Troubles <- AllTroubles
  MaxImages = 2
  MaxCreations = 2
  MaxOthers = 1
  MaxOutages = 1
  MaxFaults = 1
  MaxMishaps = 2
INVARIANTS TypeOK PatchedAtRest UninstallCleans
PROPERTIES ForeignKept AddressKept DeletionCompletes PatchedEventually
CHECK_DEADLOCK FALSE
