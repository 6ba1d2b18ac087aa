SPECIFICATION Spec
CONSTANTS
  btc = btc
  w1 = w1
  w2 = w2
  Workers <- TwoWorkers
  Symbols <- OneSymbol
  SymbolOf <- SameSymbolTwice
  Malformed <- OneMalformed
  Limit = 2
  MaxTrade = 4
  MaxFaults = 1
  MaxStops = 1
SYMMETRY Symmetric
INVARIANTS
  NoSilentGap
  Inv
