SPECIFICATION Spec
CONSTANTS
  o1 = o1
  o2 = o2
  o3 = o3
  MaxSeq = 2
  OrderIds <- MCOrderIds
  MinPrice = 10
  MaxPrice = 12
  Sizes <- MCSizes
  Seqs <- MCSeqs
  Snapshots <- MCSnapshots
INVARIANTS TypeOK BestIsTop
PROPERTIES ImplementsRestingOrders
