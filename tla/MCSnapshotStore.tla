-------------------------- MODULE MCSnapshotStore --------------------------
(* Two order-book workers and a ticker worker on a small pool.             *)
EXTENDS SnapshotStore, TLC

CONSTANTS b1, b2, t1

TwoBooks == {b1, b2}
OneTicker == {t1}
Fetches == (b1 :> 2) @@ (b2 :> 1) @@ (t1 :> 1)
=============================================================================
