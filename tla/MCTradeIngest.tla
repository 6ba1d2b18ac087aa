--------------------------- MODULE MCTradeIngest ---------------------------
(* Instances of TradeIngest for TLC.                                       *)
EXTENDS TradeIngest, TLC

CONSTANTS btc, w1, w2

(* One entry of SYMBOLS, or the same symbol listed twice.                  *)
OneWorker == {w1}
TwoWorkers == {w1, w2}
OneSymbol == {btc}
SameSymbol == w1 :> btc
SameSymbolTwice == w1 :> btc @@ w2 :> btc

OneMalformed == btc :> {2}
PageMalformed == btc :> {1, 2}

Symmetric == Permutations({w1, w2})
=============================================================================
