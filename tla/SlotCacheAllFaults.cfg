SPECIFICATION FairSpec
CONSTANTS
  N = 2
  Sectors <- MCSectors
  Data = {b0, b1}
  ZeroBlock = b0
  Faults <- FaultKinds
INVARIANTS UniqueSlot
PROPERTIES DirtyReachesDisk CallEnds
