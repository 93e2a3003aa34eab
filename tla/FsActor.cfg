SPECIFICATION FairSpec
CONSTANTS
  Clients = {c1, c2}
  ReqCapacity = 2
  HandleCount = 4
  MaxOpens = 2
  DeviceFaults = TRUE
INVARIANTS TypeOK OwnFileOnly  ShutdownSaves
PROPERTY EveryRequestAnswered
