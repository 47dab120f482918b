SPECIFICATION FeedSpec
CONSTANTS
  o1 = o1
  o2 = o2
  OrderIds <- MCOrderIds
  MinPrice = 10
  MaxPrice = 11
  Sizes <- MCSizes
  Seqs <- MCSeqs
  Quotes <- MCQuotes
  MaxRpt = 3
  MaxWire = 3
  MaxFaults = 2
  MaxEmptyBooks = 1
  MaxTechnical = 1
  MaxForeign = 1
  MaxPacked = 1
  MaxDisturbed = 3
  PerPacket = 2
  SnapshotGroup = "incremental"
INVARIANTS FeedTypeOK SyncedBookIsTrue
