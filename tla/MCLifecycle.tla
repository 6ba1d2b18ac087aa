---------------------------- MODULE MCLifecycle ----------------------------
(* Instances of Lifecycle for TLC.                                         *)
EXTENDS Lifecycle, TLC

CONSTANTS w1, w2

TwoWorkers == {w1, w2}

Symmetric == Permutations(TwoWorkers)
=============================================================================
