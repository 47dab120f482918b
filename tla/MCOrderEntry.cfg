CONSTANTS
  Calls = {c1, c2}
  own = own
  OwnIds = {own}
  MaxOrders = 2
  MaxUnasked = 1
  WatchCap = 1
SPECIFICATION FairSpec
INVARIANTS TypeOK ResolveNeverBlocks NothingLeaks OwnAnswer ReturnedIsCached CacheIsCurrent
PROPERTIES AnswerReturns ImplementsRendezvous
CHECK_DEADLOCK FALSE
