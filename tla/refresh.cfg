SPECIFICATION Spec
CONSTANTS
  Objects <- SmallObjects
  KindOf <- SmallKinds
  LabelOf <- SmallLabels
  RankOf <- SmallRanks
  Catalogs <- SmallCatalogs
  Prods <- SmallProds
  MaxChanges = 1
  MaxFaults = 1
  MaxRuns = 3
INVARIANTS
  TypeOK
  SteadyExtractedOnce
  UnchangedIsTrue
  InitFollowsReference
CHECK_DEADLOCK FALSE
