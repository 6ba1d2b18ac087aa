--------------------------- MODULE SnapshotStore ---------------------------
(***************************************************************************)
(* The order-book and the ticker path of crypto-ingest: the polling        *)
(* workers (internal/worker/orderbook.go, ticker.go), what the client      *)
(* makes of the answers (internal/client/binance.go), the connection pool  *)
(* they share and the transaction that stores a book                       *)
(* (internal/store/postgres.go).                                           *)
(*                                                                         *)
(* A book is the number of its fetch and how many well-formed levels each  *)
(* side has; a ticker is the number of its fetch.  A COMMIT, or a ticker's *)
(* INSERT, whose answer never arrives stays in limbo until the server      *)
(* decides it, perhaps after the next poll or the next process.            *)
(***************************************************************************)
EXTENDS Integers, Sequences, FiniteSets

CONSTANTS
  BookWorkers,   \* one per entry of SYMBOLS
  TickerWorkers, \* one per entry of SYMBOLS
  MaxConns,      \* PG_MAX_CONNS
  MaxLevels,     \* bound: well-formed levels of one side of a book
  MaxFetches,    \* bound: books or tickers each worker fetches
  MaxFaults,     \* bound: failures of database calls
  MaxStops       \* bound: signals and crashes

ASSUME SnapshotAssumption ==
  /\ BookWorkers \cap TickerWorkers = {}
  /\ IsFiniteSet(BookWorkers) /\ IsFiniteSet(TickerWorkers)
  /\ MaxConns \in Nat \ {0}
  /\ MaxFetches \in [BookWorkers \cup TickerWorkers -> Nat]
  /\ {MaxLevels, MaxFaults, MaxStops} \subseteq Nat

VARIABLES
  up,        \* the process: "up", "draining" (context cancelled) or "down"
  pc,        \* where each worker is in its poll and in the store
  book,      \* the book or ticker in each worker's hands
  tx,        \* each worker's open transaction: snapshot_id and level rows
  free,      \* connections the pool may still hand out
  seq,       \* the sequence behind snapshot_id; no rollback undoes it
  snapshots, \* crypto.orderbook_snapshots, with the book each row is of
  levels,    \* crypto.orderbook_levels: <<snapshot_id, side, level_index>>
  tickers,   \* crypto.ticker_24hr, in the order of its ids
  limbo,     \* what was sent, unanswered, for the server to decide
  fetched,   \* history: fetches of each worker
  faults, stops

process  == <<up, stops>>
worker   == <<pc, book, tx, fetched>>
database == <<snapshots, levels, tickers>>
vars == <<process, worker, free, seq, database, limbo, faults>>

Workers == BookWorkers \cup TickerWorkers
InTx == {"snapshot", "levels", "commit"}
Connected == InTx \cup {"insert"}

(* parseLevels: how many entries of a side have a price and a quantity.    *)
Side == 0 .. MaxLevels

Books == [by : Workers, fetch : Nat, bids : Side, asks : Side]
NoLevels(w, n) == [by |-> w, fetch |-> n, bids |-> 0, asks |-> 0]
NoTx == [id |-> 0, rows |-> {}]

LevelsOf(id, b) == ({id} \X {"bid"} \X (0 .. b.bids - 1))
                     \cup ({id} \X {"ask"} \X (0 .. b.asks - 1))

Init ==
  /\ up = "up" /\ stops = 0 /\ faults = 0
  /\ pc = [w \in Workers |-> "idle"]
  /\ book = [w \in Workers |-> NoLevels(w, 0)]
  /\ tx = [w \in Workers |-> NoTx]
  /\ fetched = [w \in Workers |-> 0]
  /\ free = MaxConns
  /\ seq = 0
  /\ snapshots = {} /\ levels = {} /\ tickers = <<>>
  /\ limbo = {}

Goto(w, l) == pc' = [pc EXCEPT ![w] = l]

(* A call fails: its context is cancelled, or for a reason of its own.     *)
CallFails == \/ up = "draining" /\ UNCHANGED faults
             \/ up = "up" /\ faults < MaxFaults /\ faults' = faults + 1

-----------------------------------------------------------------------------
Fetch(w, bids, asks) ==
  /\ up = "up" /\ pc[w] = "idle"
  /\ fetched[w] < MaxFetches[w]
  /\ fetched' = [fetched EXCEPT ![w] = @ + 1]
  /\ book' = [book EXCEPT ![w] =
                [by |-> w, fetch |-> fetched[w] + 1, bids |-> bids, asks |-> asks]]
  /\ Goto(w, "acquire")
  /\ UNCHANGED <<process, tx, free, seq, database, limbo, faults>>

(* FetchOrderBook: the sides less their malformed levels, perhaps empty.   *)
FetchBook(w) ==
  /\ w \in BookWorkers
  /\ \E bids, asks \in Side : Fetch(w, bids, asks)

(* FetchTicker24hr: an answer without a price or a volume is an error.     *)
FetchTicker(w) ==
  /\ w \in TickerWorkers
  /\ Fetch(w, 0, 0)

(* A fetch that fails or answers nothing, or a cancelled context.          *)
FetchFails(w) ==
  /\ up # "down" /\ pc[w] = "idle"
  /\ UNCHANGED vars

Acquire(w) ==
  /\ up = "up" /\ pc[w] = "acquire"
  /\ free > 0
  /\ free' = free - 1
  /\ Goto(w, IF w \in TickerWorkers THEN "insert" ELSE "snapshot")
  /\ UNCHANGED <<process, book, tx, fetched, seq, database, limbo, faults>>

(* The deadline passes while every connection is in use, or Begin fails.   *)
AcquireFails(w) ==
  /\ pc[w] = "acquire"
  /\ CallFails \/ (free = 0 /\ UNCHANGED faults)
  /\ Goto(w, "idle")
  /\ book' = [book EXCEPT ![w] = NoLevels(w, fetched[w])]
  /\ UNCHANGED <<process, tx, fetched, free, seq, database, limbo>>

(* The store returns: the deferred Rollback ends the transaction and gives *)
(* the connection back; the worker logs and waits for its next tick.       *)
Leave(w) ==
  /\ Goto(w, "idle")
  /\ tx' = [tx EXCEPT ![w] = NoTx]
  /\ book' = [book EXCEPT ![w] = NoLevels(w, fetched[w])]
  /\ free' = free + 1
  /\ UNCHANGED fetched

-----------------------------------------------------------------------------
(* Mutant: a book without bids is taken for an empty one.                  *)
InsertSnapshotBids(w) ==
  /\ up = "up" /\ pc[w] = "snapshot"
  /\ seq' = seq + 1
  /\ tx' = [tx EXCEPT ![w] = [id |-> seq + 1, rows |-> {}]]
  /\ Goto(w, IF book[w].bids = 0 THEN "commit" ELSE "levels")
  /\ UNCHANGED <<process, book, fetched, free, database, limbo, faults>>

(* InsertOrderBook, statement by statement.                                *)
InsertSnapshot(w) ==
  /\ up = "up" /\ pc[w] = "snapshot"
  /\ seq' = seq + 1
  /\ tx' = [tx EXCEPT ![w] = [id |-> seq + 1, rows |-> {}]]
  /\ Goto(w, IF book[w].bids + book[w].asks = 0 THEN "commit" ELSE "levels")
  /\ UNCHANGED <<process, book, fetched, free, database, limbo, faults>>

(* Mutant: the levels take the sequence's current value.                   *)
CopyLevelsCurrval(w) ==
  /\ up = "up" /\ pc[w] = "levels"
  /\ tx' = [tx EXCEPT ![w].rows = LevelsOf(seq, book[w])]
  /\ Goto(w, "commit")
  /\ UNCHANGED <<process, book, fetched, free, seq, database, limbo, faults>>

(* Mutant: the levels are copied on a connection of their own.             *)
CopyLevelsOutside(w) ==
  /\ up = "up" /\ pc[w] = "levels"
  /\ levels' = levels \cup LevelsOf(tx[w].id, book[w])
  /\ Goto(w, "commit")
  /\ UNCHANGED <<process, book, tx, fetched, free, seq, snapshots, tickers, limbo, faults>>

CopyLevels(w) ==
  /\ up = "up" /\ pc[w] = "levels"
  /\ tx' = [tx EXCEPT ![w].rows = LevelsOf(tx[w].id, book[w])]
  /\ Goto(w, "commit")
  /\ UNCHANGED <<process, book, fetched, free, seq, database, limbo, faults>>

(* Mutant: an early return that leaves the transaction open.               *)
TxFailsLeaking(w) ==
  /\ pc[w] \in InTx
  /\ CallFails
  /\ Goto(w, "idle")
  /\ UNCHANGED <<process, book, tx, fetched, free, seq, database, limbo>>

(* A statement fails, or its answer is lost: the sequence may have moved.  *)
TxFails(w) ==
  /\ pc[w] \in InTx
  /\ CallFails
  /\ seq' \in IF pc[w] = "snapshot" THEN {seq, seq + 1} ELSE {seq}
  /\ Leave(w)
  /\ UNCHANGED <<process, database, limbo>>

(* What a COMMIT, or the one INSERT of a ticker, leaves in the tables.     *)
LandBook(t) ==
  /\ snapshots' = snapshots \cup {[id |-> t.id, book |-> t.book]}
  /\ levels' = levels \cup t.rows
  /\ UNCHANGED tickers

LandTicker(t) ==
  /\ tickers' = Append(tickers, t.book)
  /\ UNCHANGED <<snapshots, levels>>

Land(t) == IF t.book.by \in TickerWorkers THEN LandTicker(t) ELSE LandBook(t)

Pending(w) == [id |-> tx[w].id, rows |-> tx[w].rows, book |-> book[w]]

Stored(w) ==
  /\ pc[w] \in {"commit", "insert"}
  /\ Land(Pending(w))
  /\ Leave(w)
  /\ UNCHANGED <<process, seq, limbo, faults>>

(* Mutant: a store without an answer is tried once more.                   *)
StoreLostRetried(w) ==
  /\ pc[w] \in {"commit", "insert"}
  /\ CallFails
  /\ limbo' = limbo \cup {Pending(w)}
  /\ tx' = [tx EXCEPT ![w] = NoTx]
  /\ free' = free + 1
  /\ Goto(w, "acquire")
  /\ UNCHANGED <<process, book, fetched, seq, database>>

(* Deadline, cancellation or a broken connection, before or after the      *)
(* server took the statement.  The poll is not repeated.                   *)
StoreLost(w) ==
  /\ pc[w] \in {"commit", "insert"}
  /\ CallFails
  /\ limbo' = limbo \cup {Pending(w)}
  /\ Leave(w)
  /\ UNCHANGED <<process, seq, database>>

LimboLands(t) ==
  /\ Land(t)
  /\ limbo' = limbo \ {t}
  /\ UNCHANGED <<process, worker, free, seq, faults>>

LimboAborts(t) ==
  /\ limbo' = limbo \ {t}
  /\ UNCHANGED <<process, worker, free, seq, database, faults>>

-----------------------------------------------------------------------------
Signal ==
  /\ up = "up" /\ stops < MaxStops
  /\ up' = "draining" /\ stops' = stops + 1
  /\ UNCHANGED <<worker, free, seq, database, limbo, faults>>

(* The process is gone: every worker stopped, or it crashed, which leaves  *)
(* to the server what was sent.                                            *)
Exit ==
  /\ up = "draining"
  /\ \A w \in Workers : pc[w] = "idle"
  /\ up' = "down"
  /\ UNCHANGED <<stops, worker, free, seq, database, limbo, faults>>

Crash ==
  /\ up # "down" /\ stops < MaxStops
  /\ up' = "down" /\ stops' = stops + 1
  /\ limbo' = limbo \cup {Pending(w) : w \in {v \in Workers :
                                        pc[v] \in {"commit", "insert"}}}
  /\ pc' = [w \in Workers |-> "idle"]
  /\ book' = [w \in Workers |-> NoLevels(w, fetched[w])]
  /\ tx' = [w \in Workers |-> NoTx]
  /\ free' = MaxConns
  /\ UNCHANGED <<fetched, seq, database, faults>>

Restart ==
  /\ up = "down"
  /\ up' = "up"
  /\ UNCHANGED <<stops, worker, free, seq, database, limbo, faults>>

-----------------------------------------------------------------------------
WorkerStep(w) ==
  \/ FetchBook(w) \/ FetchTicker(w) \/ FetchFails(w)
  \/ Acquire(w) \/ AcquireFails(w)
  \/ InsertSnapshot(w) \/ CopyLevels(w)
  \/ TxFails(w) \/ Stored(w) \/ StoreLost(w)

Next ==
  \/ \E w \in Workers : WorkerStep(w)
  \/ \E t \in limbo : LimboLands(t) \/ LimboAborts(t)
  \/ Signal \/ Exit \/ Crash \/ Restart

Spec == Init /\ [][Next]_vars

-----------------------------------------------------------------------------
(* Every variable has its type, and a store works on what was fetched last.*)
TypeOK ==
  /\ up \in {"up", "draining", "down"}
  /\ pc \in [Workers -> {"idle", "acquire"} \cup Connected]
  /\ \A w \in Workers :
       /\ book[w] \in Books
       /\ book[w].by = w /\ book[w].fetch = fetched[w]
       /\ fetched[w] \in 0 .. MaxFetches[w]
  /\ \A t \in {tx[w] : w \in Workers} \cup limbo :
       t.id \in 0 .. seq /\ \A r \in t.rows : r[1] = t.id
  /\ \A t \in limbo : t.book \in Books
  /\ seq \in Nat
  /\ faults \in 0 .. MaxFaults /\ stops \in 0 .. MaxStops

(* Readers see whole books: each snapshot has exactly the levels of the    *)
(* book it was fetched as, an empty book none, no two share an id, and no  *)
(* level is without its snapshot, though the tables have no foreign key.   *)
WholeBooks ==
  /\ \A s \in snapshots :
       {l \in levels : l[1] = s.id} = LevelsOf(s.id, s.book)
  /\ \A s, t \in snapshots : s.id = t.id => s = t
  /\ \A l \in levels : \E s \in snapshots : s.id = l[1]

(* A later snapshot_id is a later book of its worker, whatever COMMITs     *)
(* land late, after the next poll or from a process that is gone: the id   *)
(* is drawn after the fetch and before the next one.                       *)
BooksInOrder ==
  \A s, t \in snapshots :
    s.book.by = t.book.by /\ s.id < t.id => s.book.fetch < t.book.fetch

(* A fetched book or ticker is stored once at most, also when the answer   *)
(* to its store was lost.                                                  *)
StoredOnce ==
  /\ \A s, t \in snapshots : s.book = t.book => s = t
  /\ \A i, j \in DOMAIN tickers : tickers[i] = tickers[j] => i = j

(* Every path out of a store gives its connection back: what the pool may  *)
(* hand out and what the workers hold make MaxConns.                       *)
PoolBalanced ==
  free + Cardinality({w \in Workers : pc[w] \in Connected}) = MaxConns

-----------------------------------------------------------------------------
(* What the database shows is a BookLog.                                   *)
Log == INSTANCE BookLog

(* Every step of the workers, the server and the process stores one whole  *)
(* book, or one ticker, where it belongs, or leaves what is stored as it   *)
(* is: the statement-by-statement transaction, its early returns, its late *)
(* COMMITs and the restarts implement the log.                             *)
ImplementsBookLog == Log!Spec
=============================================================================
