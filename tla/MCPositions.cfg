CONSTANTS
  Watchers = {w1, w2}
  Prices = {2, 5}
  Qtys = {0, 1, 3}
  SeedQtys <- MCSeedQtys
  MaxFills = 2
  MaxSeeds = 1
  Cap = 1
SPECIFICATION Spec
SYMMETRY Symmetric
INVARIANTS TypeOK BooksBalance EveryUpdateArrives
PROPERTIES NeverOnClosed
CHECK_DEADLOCK FALSE
