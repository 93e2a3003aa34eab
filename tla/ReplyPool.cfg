SPECIFICATION FairSpec
CONSTANTS
  Clients = {c1, c2}
  REPLY_SLOTS = 3
  ReqCapacity = 2
  MaxSeq = 6
  MaxCancels = 1
CHECK_DEADLOCK FALSE
INVARIANTS TypeOK SlotsExclusive NoReplyLost
PROPERTY EveryRequestAnswered
