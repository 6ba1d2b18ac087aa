------------------------- MODULE MCGreenplumRefresh -------------------------
(* Instances of GreenplumRefresh for TLC.                                  *)
EXTENDS GreenplumRefresh

(* A table with two indexes, which tie in their ORDER BY; a unique         *)
(* constraint with the name of one of them, and a foreign key.             *)
SmallObjects == {"core", "t1", "f", "i1", "i2", "pk", "u", "fk"}

SmallKinds ==
  [core |-> "schema", t1 |-> "table", f |-> "function",
   i1 |-> "index", i2 |-> "index", pk |-> "primary", u |-> "unique", fk |-> "foreign"]

SmallLabels == [SmallKinds EXCEPT !.i1 = "idx", !.u = "idx", !.i2 = "idx2"]

SmallRanks ==
  [core |-> 1, t1 |-> 1, f |-> 1, i1 |-> 1, i2 |-> 1, pk |-> 2,
   u |-> 2, fk |-> 2]

SmallCatalogs == {{"core", "t1", "i1", "i2", "u", "fk"}, {"core", "t1", "i1", "pk"}}

SmallProds == {<<>>, <<[object |-> "core", part |-> 1]>>}
=============================================================================
