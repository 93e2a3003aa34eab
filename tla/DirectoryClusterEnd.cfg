SPECIFICATION Spec
CONSTANTS
  UpcaseTable <- ASCII
  UnitsPerEntry = 2
  Paths <- OneClusterPaths
  MaxOpen = 1
  PerSector = 2
  PerCluster = 6
  Root <- OneCluster
  Systems = 0
  Heap = {2}
  ClusterCount = 3
  Ids = {1, 2, 3}
  Allowed = {"cluster_end"}
INVARIANT ForeignUntouched
