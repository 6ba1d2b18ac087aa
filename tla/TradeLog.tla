------------------------------ MODULE TradeLog ------------------------------
(***************************************************************************)
(* What the trade path promises to a reader of the database: per symbol a  *)
(* log of trades with a resume mark.  A page is appended in one step, with *)
(* its mark; the log has no hole between its first trade and the mark,     *)
(* except the recorded gaps left by a page of latest trades; and the mark  *)
(* moves back only where such a gap is there to be filled.                 *)
(***************************************************************************)
EXTENDS Integers

CONSTANTS
  Symbols,
  Good         \* per symbol, the ids of the well-formed trades

VARIABLES
  rows,        \* the stored ids
  mark,        \* the resume mark
  floor,       \* the first id of the first page
  gaps         \* ids passed over by a page of latest trades

vars == <<rows, mark, floor, gaps>>

NoMark == -1

Init ==
  /\ rows = [s \in Symbols |-> {}]
  /\ mark = [s \in Symbols |-> NoMark]
  /\ floor = [s \in Symbols |-> NoMark]
  /\ gaps = [s \in Symbols |-> {}]

(* The page of trades lo to hi and its mark are stored.                    *)
Store(s, lo, hi) ==
  /\ lo <= hi
  /\ rows' = [rows EXCEPT ![s] = @ \cup {i \in Good[s] : lo <= i /\ i <= hi}]
  /\ mark' = [mark EXCEPT ![s] = hi]

First(s, lo, hi) ==
  /\ mark[s] = NoMark
  /\ Store(s, lo, hi)
  /\ floor' = [floor EXCEPT ![s] = lo]
  /\ UNCHANGED gaps

(* The next page leaves no hole below it.                                  *)
Extend(s, lo, hi) ==
  /\ mark[s] # NoMark
  /\ Store(s, lo, hi)
  /\ \A i \in floor[s] .. hi : i \in Good[s] => i \in rows'[s] \cup gaps[s]
  /\ gaps[s] = {} => hi >= mark[s]
  /\ UNCHANGED <<floor, gaps>>

(* A page of latest trades leaves a gap below it.                          *)
Jump(s, lo, hi) ==
  /\ mark[s] # NoMark
  /\ lo > mark[s] + 1
  /\ Store(s, lo, hi)
  /\ gaps' = [gaps EXCEPT ![s] = @ \cup (mark[s] + 1 .. lo - 1)]
  /\ UNCHANGED floor

Next ==
  \E s \in Symbols : \E lo, hi \in Good[s] :
    First(s, lo, hi) \/ Extend(s, lo, hi) \/ Jump(s, lo, hi)

Spec == Init /\ [][Next]_vars
=============================================================================
