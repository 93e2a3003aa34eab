SPECIFICATION Spec
CONSTANTS
  Files = {f1}
  ClusterCount = 2
  ClusterLen = 4
  SIZE = 2
  MaxLen = 6
  MaxOpen = 1
  Lengths = {1, 2, 3}
  Preallocated = {}
  Boundary = {"remainder"}
  IoFaults = {}
INVARIANT BytesInPlace
