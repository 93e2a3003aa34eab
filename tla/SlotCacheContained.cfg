SPECIFICATION Spec
CONSTANTS
  N = 2
  Sectors <- MCSectors
  Data = {b0, b1}
  ZeroBlock = b0
  Faults <- ContainedFaults
INVARIANTS TypeOK CleanMatchesDisk FlushedIsDurable
PROPERTY StoreSpec
