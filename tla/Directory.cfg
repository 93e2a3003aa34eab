SPECIFICATION Spec
CONSTANTS
  UpcaseTable <- ASCII
  UnitsPerEntry = 2
  Paths <- MCPaths
  MaxOpen = 1
  PerSector = 2
  PerCluster = 4
  Root <- TwoClusters
  Systems = 1
  Heap = {3, 4}
  ClusterCount = 5
  Ids = {1, 2, 3}
  Allowed = {}
INVARIANTS TypeOK FoundIffLive  ChecksumFresh ClustersAccounted ListingComplete
VIEW View
