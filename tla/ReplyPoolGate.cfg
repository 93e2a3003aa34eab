SPECIFICATION Spec
CONSTANTS
  Clients = {c1, c2, c3}
  REPLY_SLOTS = 2
  ReqCapacity = 2
  MaxSeq = 4
  MaxCancels = 0
CHECK_DEADLOCK FALSE
INVARIANT InFlightBounded
