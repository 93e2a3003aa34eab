SPECIFICATION Spec
CONSTANTS
  Files = {f1, f2}
  ClusterCount = 3
  ClusterLen = 2
  SIZE = 2
  MaxLen = 4
  MaxOpen = 2
  Lengths = {2, 4}
  Preallocated = {}
  Boundary = {}
  IoFaults <- AllFaults
CONSTRAINT BeforeUnlink
SYMMETRY Swap
VIEW Control
INVARIANTS TypeOK   FlushedEntryDescribesHandle
PROPERTY LoopsAdvance
