SPECIFICATION Spec
CONSTANTS
  Names = {"a", "b"}
  DirSectorOf <- MCDirSectorOf
  Clusters = {3, 4}
  PerSector = 4
  DEFAULT_TOUCHED_SECTORS = 3
  MaxIds = 2
  MaxOps = 5
  MaxTroubles = 2
INVARIANTS TypeOK ReturnedIsDurable 
CHECK_DEADLOCK FALSE
