---------------------------- MODULE MCDdlReplay ----------------------------
(* Instances of DdlReplay for TLC.                                         *)
EXTENDS DdlReplay

(* A database left out, and one with a dictionary, two tables, two views   *)
(* and three Distributed tables, of which one names no cluster; a          *)
(* function, a row policy and a quota.                                     *)
SmallOrder == <<"db", "f", "k", "o", "p", "q", "t", "u", "v", "w", "x", "y", "z">>

SmallKinds ==
  [db |-> {"database"}, f |-> {"function"}, k |-> {"dictionary"},
   o |-> {"database"}, p |-> {"policy"}, q |-> {"quota"},
   t |-> {"table", "view"}, u |-> {"table"},
   v |-> {"matview", "view"}, w |-> {"view"}, x |-> {"distributed", "table"},
   y |-> {"distributed"}, z |-> {"distributed"}]

SmallDbOf ==
  [n \in ToSet(SmallOrder) |-> IF n \in {"db", "f", "o", "p", "q"} THEN Nil ELSE "db"]

SmallNeeds ==
  [n \in ToSet(SmallOrder) |->
     CASE n \in {"k", "t", "w", "x", "y", "z"} -> {"db"}
       [] n = "u" -> {"db", "f"}
       [] n = "v" -> {"db", "t"}
       [] OTHER -> {}]

SmallPaths ==
  [n \in ToSet(SmallOrder) |->
     CASE n = "t" -> [dir |-> <<"tables", "1", "1", "t">>, replica |-> "shard1"]
       [] n = "u" -> [dir |-> <<"tables", "u", "1">>, replica |-> "{replica}"]
       [] n = "x" -> [dir |-> <<"tables", "1", "x">>, replica |-> "shard1"]
       [] OTHER -> [dir |-> <<>>, replica |-> ""]]

Of(kinds) == [n \in ToSet(SmallOrder) |-> IF n \in DOMAIN kinds THEN kinds[n] ELSE Nil]

SmallCatalogs ==
  {Of([db |-> "database", k |-> "dictionary", t |-> "table", v |-> "matview",
       o |-> "database", p |-> "policy", x |-> "distributed", z |-> "distributed"]),
   Of([db |-> "database", f |-> "function", q |-> "quota", t |-> "view",
       w |-> "view", x |-> "distributed", y |-> "distributed"]),
   Of([db |-> "database", f |-> "function", u |-> "table"])}

SmallMentions ==
  [n \in ToSet(SmallOrder) |-> IF n \in {"x", "z"} THEN {"main"} ELSE {}]

SmallClusters == <<"back", "main">>
SmallNodesOf == [back |-> {"n2"}, main |-> {"n1", "n2"}]
TwoNodes == {"n1", "n2"}
TwoShards == [n1 |-> "1", n2 |-> "2"]
TwoReplicas == [n1 |-> "shard1", n2 |-> "shard2"]
=============================================================================
