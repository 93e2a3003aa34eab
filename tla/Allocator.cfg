SPECIFICATION FairSpec
CONSTANTS
  ClusterCount = 6
  NumSectors = 2
  ClustersPerSector = 4
  WordBits = 2
  MaxRequest = 3
  ReadFaults = TRUE
  CopyMakesDirs = FALSE
INVARIANTS TypeOK FoundMatchesReference MarkIsExact OnlyTheRunChanges 
PROPERTY CallEnds
