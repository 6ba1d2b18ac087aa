SPECIFICATION LiveSpec
CONSTANTS
  btc = btc
  w1 = w1
  w2 = w2
  Workers <- OneWorker
  Symbols <- OneSymbol
  SymbolOf <- SameSymbol
  Malformed <- PageMalformed
  Limit = 2
  MaxTrade = 6
  MaxFaults = 3
  MaxStops = 2
INVARIANTS
  TypeOK
  NoSilentGap
  CursorNearMark
PROPERTIES
  MarkRegressesOnlyAfterJump
  ImplementsTradeLog
  EveryTradeSettles
