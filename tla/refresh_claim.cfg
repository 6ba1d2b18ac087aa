SPECIFICATION Spec
CONSTANTS
  Objects <- SmallObjects
  KindOf <- SmallKinds
  LabelOf <- SmallLabels
  RankOf <- SmallRanks
  Catalogs <- SmallCatalogs
  Prods <- SmallProds
  MaxChanges = 0
  MaxFaults = 1
  MaxRuns = 2
INVARIANT UnchangedMeansCurrent
CHECK_DEADLOCK FALSE
