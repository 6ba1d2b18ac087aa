SPECIFICATION Spec
CONSTANTS
  b1 = b1
  b2 = b2
  t1 = t1
  BookWorkers <- TwoBooks
  TickerWorkers <- OneTicker
  MaxConns = 2
  MaxLevels = 1
  MaxFetches <- Fetches
  MaxFaults = 1
  MaxStops = 1
INVARIANTS
  TypeOK
  WholeBooks
  BooksInOrder
  StoredOnce
  PoolBalanced
PROPERTY ImplementsBookLog
