-------------------------- MODULE MCBinanceClient --------------------------
(* Instances of BinanceClient for TLC.                                     *)
EXTENDS BinanceClient, TLC

CONSTANTS c1, c2

TwoCallers == {c1, c2}
ShortRetryAfters == {0, 2}
=============================================================================
