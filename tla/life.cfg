SPECIFICATION LiveSpec
CONSTANTS
  w1 = w1
  w2 = w2
  Workers <- TwoWorkers
  Queries = 2
  MaxBans = 2
  MaxFailures = 2
INVARIANTS
  TypeOK
  BanShowsUnhealthy
  StopsForCause
  StoresMeetTables
PROPERTIES
  NoCallWhileStopping
  SignalEnds
  BanEnds
