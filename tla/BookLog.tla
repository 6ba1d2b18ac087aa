------------------------------ MODULE BookLog ------------------------------
(***************************************************************************)
(* What the snapshot path promises to a reader of the database: books and  *)
(* tickers appear one at a time, a book with all of its levels, under an   *)
(* id that places it among the books of its worker in the order of their   *)
(* fetches, however late it comes; nothing is stored twice, altered or     *)
(* removed.                                                                *)
(***************************************************************************)
EXTENDS Integers, Sequences

CONSTANTS
  BookWorkers, TickerWorkers,
  Side         \* how many levels one side of a book may have

VARIABLES
  fetched,     \* what each worker has fetched so far
  seq,         \* the ids drawn so far
  snapshots, levels, tickers

vars == <<fetched, seq, snapshots, levels, tickers>>

Workers == BookWorkers \cup TickerWorkers

Init ==
  /\ fetched = [w \in Workers |-> 0]
  /\ seq = 0
  /\ snapshots = {} /\ levels = {} /\ tickers = <<>>

Poll(w) ==
  /\ fetched' = [fetched EXCEPT ![w] = @ + 1]
  /\ UNCHANGED <<seq, snapshots, levels, tickers>>

Draw ==
  /\ seq' = seq + 1
  /\ UNCHANGED <<fetched, snapshots, levels, tickers>>

(* The id is new and between those of the worker's older and newer books.  *)
Fits(id, b) ==
  \A s \in snapshots :
    /\ s.id # id /\ s.book # b
    /\ s.book.by = b.by => (s.id < id <=> s.book.fetch < b.fetch)

StoreBook(id, b) ==
  /\ Fits(id, b)
  /\ snapshots' = snapshots \cup {[id |-> id, book |-> b]}
  /\ levels' = levels \cup ({id} \X {"bid"} \X (0 .. b.bids - 1))
                      \cup ({id} \X {"ask"} \X (0 .. b.asks - 1))
  /\ UNCHANGED <<fetched, seq, tickers>>

StoreTicker(b) ==
  /\ \A i \in DOMAIN tickers : tickers[i] # b
  /\ tickers' = Append(tickers, b)
  /\ UNCHANGED <<fetched, seq, snapshots, levels>>

(* What a worker has fetched and may still store.                          *)
Fetched(w) == [by : {w}, fetch : 1 .. fetched[w], bids : Side, asks : Side]

Next ==
  \/ Draw \/ \E w \in Workers : Poll(w)
  \/ \E w \in BookWorkers : \E b \in Fetched(w), id \in 1 .. seq : StoreBook(id, b)
  \/ \E w \in TickerWorkers : \E b \in Fetched(w) : StoreTicker(b)

Spec == Init /\ [][Next]_vars
=============================================================================
