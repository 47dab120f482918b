SPECIFICATION FeedSpec
CONSTANTS
  o1 = o1
  o2 = o2
  OrderIds <- MCOrderIds
  MinPrice = 10
  MaxPrice = 11
  Sizes <- MCSizes
  Seqs <- MCSeqs
  Quotes <- MCQuotes
  MaxRpt = 3
  MaxWire = 2
  MaxFaults = 0
  MaxEmptyBooks = 1
  MaxTechnical = 0
  MaxForeign = 0
  MaxPacked = 0
  MaxDisturbed = 1
  PerPacket = 2
  SnapshotGroup = "snapshot"
INVARIANTS EmptyBookIsSafe
