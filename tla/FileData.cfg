SPECIFICATION Spec
CONSTANTS
  Files = {f1, f2}
  ClusterCount = 3
  ClusterLen = 4
  SIZE = 2
  MaxLen = 6
  MaxOpen = 1
  Lengths = {1, 3, 5}
  Preallocated = {f1}
  Boundary = {}
  IoFaults = {}
INVARIANTS BytesInPlace ReadsOwnBytes CursorAtHome NoLeak
