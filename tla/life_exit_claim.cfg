SPECIFICATION Spec
CONSTANTS
  w1 = w1
  w2 = w2
  Workers <- TwoWorkers
  Queries = 2
  MaxBans = 1
  MaxFailures = 1
SYMMETRY Symmetric
INVARIANTS
  BanKeepsProcess
