SPECIFICATION Spec
CONSTANTS
  Order <- SmallOrder
  KindsOf <- SmallKinds
  DbOf <- SmallDbOf
  Needs <- SmallNeeds
  Odd = {"w"}
  PathOf <- SmallPaths
  SystemDbs = {}
  Include = {}
  Exclude = {"o"}
  Clusters <- SmallClusters
  Mentions <- SmallMentions
  RowLimit = 1
  Nodes <- TwoNodes
  Here = "n1"
  ShardOf <- TwoShards
  ReplicaOf <- TwoReplicas
  Catalogs <- SmallCatalogs
  Nil = "none"
  MaxEvents = 0
  NodesOf <- SmallNodesOf
  MaxReplays = 2
PROPERTY ReplayIdempotent
CHECK_DEADLOCK FALSE
