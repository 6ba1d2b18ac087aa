---------------------------- MODULE TradeIngest ----------------------------
(***************************************************************************)
(* The trade path of crypto-ingest: the polling workers                    *)
(* (internal/worker/trade.go), the page of aggregate trades the exchange   *)
(* answers (internal/client/binance.go), and the database transaction that *)
(* stores a page together with the resume mark                             *)
(* (internal/store/postgres.go).                                           *)
(*                                                                         *)
(* One process runs one worker per entry of SYMBOLS; it may be stopped by  *)
(* a cancelled context, crash, and be started again by Docker.  A COMMIT   *)
(* whose answer never reaches the worker is decided later by the server:   *)
(* such a transaction is in `limbo` and still holds its row locks.         *)
(***************************************************************************)
EXTENDS Integers, FiniteSetsExt

CONSTANTS
  Workers,     \* the entries of SYMBOLS: one trade worker each
  Symbols,     \* the traded symbols
  SymbolOf,    \* the symbol of each entry; entries may repeat a symbol
  Limit,       \* trades per page (1000 in FetchAggTrades)
  Malformed,   \* per symbol, the ids answered with an empty price or quantity
  MaxTrade,    \* bound: the last trade id the exchange ever publishes
  MaxFaults,   \* bound: failures of one call (HTTP or database)
  MaxStops     \* bound: signals and crashes

ASSUME WorkerAssumption == SymbolOf \in [Workers -> Symbols]
ASSUME LimitAssumption == Limit \in Nat \ {0}
ASSUME MalformedAssumption == Malformed \in [Symbols -> SUBSET Nat]
ASSUME BoundAssumption == MaxTrade \in Nat /\ MaxFaults \in Nat /\ MaxStops \in Nat

Nil == -1   \* a nil cursor, an absent ingest_state row, no trade yet

VARIABLES
  up,       \* the process: "up", "draining" (context cancelled) or "down"
  pc,       \* where each worker is in Run, pollTrades and InsertAggTrades
  cursor,   \* fromID of each worker
  batch,    \* the ids of the page the worker is storing
  head,     \* the last trade id the exchange published, per symbol
  rows,     \* crypto.agg_trades: the committed ids, per symbol
  mark,     \* crypto.ingest_state.last_id, per symbol
  limbo,    \* the transaction whose COMMIT was sent and whose sender left
  floor,    \* history: the first id of the first page stored
  gaps,     \* history: ids passed over by a page of latest trades
  faults,   \* failures so far
  stops     \* signals and crashes so far

process  == <<up, stops>>
worker   == <<pc, cursor, batch>>
database == <<rows, mark, limbo, floor, gaps>>
vars == <<process, worker, head, database, faults>>

States == {"load", "poll", "insert", "mark", "commit", "committing", "acked",
           "idle", "stopped"}
InTx == {"insert", "mark", "commit", "committing"}

NoTx == [from |-> Nil, ids |-> {}]

(* The page answered for a cursor: ids from the cursor on, or the latest.  *)
Page(s, from) ==
  IF from = Nil
  THEN {i \in 0 .. head[s] : i > head[s] - Limit}
  ELSE from .. Min({head[s], from + Limit - 1})

(* Mutant: entries without a price are kept.                               *)
UnfilteredPage(s, from) == Page(s, from)

(* FetchAggTrades drops entries without a price or a quantity.             *)
GoodPage(s, from) == Page(s, from) \ Malformed[s]

Published(s) == (0 .. head[s]) \ Malformed[s]

(* Mutant: a restart reads an overlap of one page again.                   *)
ResumeOverlapping(s) ==
  IF mark[s] = Nil THEN Nil ELSE Max({0, mark[s] - Limit})

Resume(s) == IF mark[s] = Nil THEN Nil ELSE mark[s] + 1

(* The row locks a transaction waits for: uncommitted rows with its ids,   *)
(* and the ingest_state row of its symbol.                                 *)
RowsLocked(w) ==
  \/ limbo[SymbolOf[w]].ids \cap batch[w] # {}
  \/ \E v \in Workers \ {w} : /\ SymbolOf[v] = SymbolOf[w]
                              /\ pc[v] \in InTx \ {"insert"}
                              /\ batch[v] \cap batch[w] # {}
MarkLocked(w) ==
  \/ limbo[SymbolOf[w]] # NoTx
  \/ \E v \in Workers \ {w} : /\ SymbolOf[v] = SymbolOf[w]
                              /\ pc[v] \in {"commit", "committing"}

-----------------------------------------------------------------------------
Init ==
  /\ up = "up"
  /\ stops = 0
  /\ pc = [w \in Workers |-> "load"]
  /\ cursor = [w \in Workers |-> Nil]
  /\ batch = [w \in Workers |-> {}]
  /\ head = [s \in Symbols |-> Nil]
  /\ rows = [s \in Symbols |-> {}]
  /\ mark = [s \in Symbols |-> Nil]
  /\ limbo = [s \in Symbols |-> NoTx]
  /\ floor = [s \in Symbols |-> Nil]
  /\ gaps = [s \in Symbols |-> {}]
  /\ faults = 0

Goto(w, l) == pc' = [pc EXCEPT ![w] = l]

Fault == /\ faults < MaxFaults
         /\ faults' = faults + 1

(* A call fails because its context is cancelled, or for a reason of its   *)
(* own.                                                                    *)
CallFails == \/ up = "draining" /\ UNCHANGED faults
             \/ up = "up" /\ Fault

(* The exchange publishes the next trade.                                  *)
Publish(s) ==
  /\ head[s] < MaxTrade
  /\ head' = [head EXCEPT ![s] = @ + 1]
  /\ UNCHANGED <<process, worker, database, faults>>

(* Run: the resume mark is read; if that fails the worker starts from the  *)
(* latest trades.                                                          *)
Load(w) ==
  /\ up = "up" /\ pc[w] = "load"
  /\ cursor' = [cursor EXCEPT ![w] = Resume(SymbolOf[w])]
  /\ Goto(w, "poll")
  /\ UNCHANGED <<process, batch, head, database, faults>>

LoadFails(w) ==
  /\ pc[w] = "load"
  /\ CallFails
  /\ Goto(w, "poll")
  /\ UNCHANGED <<process, cursor, batch, head, database>>

(* pollTrades up to the insert.                                            *)
FetchPage(w) ==
  /\ up = "up" /\ pc[w] = "poll"
  /\ GoodPage(SymbolOf[w], cursor[w]) # {}
  /\ batch' = [batch EXCEPT ![w] = GoodPage(SymbolOf[w], cursor[w])]
  /\ Goto(w, "insert")
  /\ UNCHANGED <<process, cursor, head, database, faults>>

(* Mutant: the worker returns on an empty page.                            *)
FetchEmptyReturning(w) ==
  /\ up = "up" /\ pc[w] = "poll"
  /\ GoodPage(SymbolOf[w], cursor[w]) = {}
  /\ Goto(w, "stopped")
  /\ UNCHANGED <<process, cursor, batch, head, database, faults>>

FetchEmpty(w) ==
  /\ up = "up" /\ pc[w] = "poll"
  /\ GoodPage(SymbolOf[w], cursor[w]) = {}
  /\ Goto(w, "idle")
  /\ UNCHANGED <<process, cursor, batch, head, database, faults>>

FetchFails(w) ==
  /\ pc[w] = "poll"
  /\ CallFails
  /\ Goto(w, "idle")
  /\ UNCHANGED <<process, cursor, batch, head, database>>

(* The select of Run: the next tick, or the cancelled context.             *)
Tick(w) ==
  /\ pc[w] = "idle"
  /\ Goto(w, "poll")
  /\ UNCHANGED <<process, cursor, batch, head, database, faults>>

WorkerStops(w) ==
  /\ up = "draining" /\ pc[w] = "idle"
  /\ Goto(w, "stopped")
  /\ UNCHANGED <<process, cursor, batch, head, database, faults>>

-----------------------------------------------------------------------------
(* InsertAggTrades, statement by statement.                                *)

InsertRows(w) ==
  /\ up = "up" /\ pc[w] = "insert"
  /\ ~RowsLocked(w)
  /\ Goto(w, "mark")
  /\ UNCHANGED <<process, cursor, batch, head, database, faults>>

UpsertMark(w) ==
  /\ up = "up" /\ pc[w] = "mark"
  /\ ~MarkLocked(w)
  /\ Goto(w, "commit")
  /\ UNCHANGED <<process, cursor, batch, head, database, faults>>

SendCommit(w) ==
  /\ up = "up" /\ pc[w] = "commit"
  /\ Goto(w, "committing")
  /\ UNCHANGED <<process, cursor, batch, head, database, faults>>

Abandon(w) ==
  /\ Goto(w, "idle")
  /\ batch' = [batch EXCEPT ![w] = {}]

(* Mutant: the cursor moves on although the insert failed.                 *)
TxFailsAdvancing(w) ==
  /\ pc[w] \in {"insert", "mark", "commit"}
  /\ CallFails
  /\ cursor' = [cursor EXCEPT ![w] = Max(batch[w]) + 1]
  /\ Abandon(w)
  /\ UNCHANGED <<process, head, database>>

(* A statement fails, or the five-second deadline passes while it waits    *)
(* for a row lock: the deferred Rollback ends the transaction and the      *)
(* cursor stays.                                                           *)
TxFails(w) ==
  /\ pc[w] \in {"insert", "mark", "commit"}
  /\ CallFails
  /\ Abandon(w)
  /\ UNCHANGED <<process, cursor, head, database>>

LockTimeout(w) ==
  /\ \/ pc[w] = "insert" /\ RowsLocked(w)
     \/ pc[w] = "mark" /\ MarkLocked(w)
  /\ up = "up"
  /\ Abandon(w)
  /\ UNCHANGED <<process, cursor, head, database, faults>>

(* The server commits: the rows and the mark become visible together.  The *)
(* upsert takes EXCLUDED.last_id whatever the row held.                    *)
Apply(s, from, ids) ==
  /\ rows' = [rows EXCEPT ![s] = @ \cup ids]
  /\ mark' = [mark EXCEPT ![s] = Max(ids)]
  /\ floor' = [floor EXCEPT ![s] = IF @ = Nil THEN Min(ids) ELSE @]
  /\ gaps' = [gaps EXCEPT ![s] =
                IF from = Nil /\ mark[s] # Nil
                THEN @ \cup (mark[s] + 1 .. Min(ids) - 1) ELSE @]

CommitApplied(w) ==
  /\ pc[w] = "committing"
  /\ Apply(SymbolOf[w], cursor[w], batch[w])
  /\ Goto(w, "acked")
  /\ UNCHANGED <<process, cursor, batch, head, limbo, faults>>

CommitRejected(w) ==
  /\ pc[w] = "committing"
  /\ Fault
  /\ Abandon(w)
  /\ UNCHANGED <<process, cursor, head, database>>

(* Mutant: a COMMIT without an answer counts as done.                      *)
CommitLostAdvancing(w) ==
  /\ pc[w] = "committing"
  /\ CallFails
  /\ limbo' = [limbo EXCEPT ![SymbolOf[w]] =
                 [from |-> cursor[w], ids |-> batch[w]]]
  /\ cursor' = [cursor EXCEPT ![w] = Max(batch[w]) + 1]
  /\ Abandon(w)
  /\ UNCHANGED <<process, head, rows, mark, floor, gaps>>

(* Deadline, cancellation or a broken connection after the COMMIT was      *)
(* sent: the worker takes it as failed, the server has yet to decide.      *)
CommitLost(w) ==
  /\ pc[w] = "committing"
  /\ CallFails
  /\ limbo' = [limbo EXCEPT ![SymbolOf[w]] =
                 [from |-> cursor[w], ids |-> batch[w]]]
  /\ Abandon(w)
  /\ UNCHANGED <<process, cursor, head, rows, mark, floor, gaps>>

(* The same after the server committed.                                    *)
AckLost(w) ==
  /\ pc[w] = "acked"
  /\ CallFails
  /\ Abandon(w)
  /\ UNCHANGED <<process, cursor, head, database>>

(* Mutant: the cursor moves by a whole page, as if every page were full.   *)
AckFullPage(w) ==
  /\ pc[w] = "acked"
  /\ cursor' = [cursor EXCEPT ![w] = IF @ = Nil THEN Max(batch[w]) + 1 ELSE @ + Limit]
  /\ Abandon(w)
  /\ UNCHANGED <<process, head, database, faults>>

Ack(w) ==
  /\ pc[w] = "acked"
  /\ cursor' = [cursor EXCEPT ![w] = Max(batch[w]) + 1]
  /\ Abandon(w)
  /\ UNCHANGED <<process, head, database, faults>>

LimboCommits(s) ==
  /\ limbo[s] # NoTx
  /\ Apply(s, limbo[s].from, limbo[s].ids)
  /\ limbo' = [limbo EXCEPT ![s] = NoTx]
  /\ UNCHANGED <<process, worker, head, faults>>

LimboAborts(s) ==
  /\ limbo[s] # NoTx
  /\ limbo' = [limbo EXCEPT ![s] = NoTx]
  /\ UNCHANGED <<process, worker, head, rows, mark, floor, gaps, faults>>

-----------------------------------------------------------------------------
(* SIGTERM, SIGINT or an IP ban cancels the context of every worker.       *)
Signal ==
  /\ up = "up"
  /\ stops < MaxStops
  /\ stops' = stops + 1
  /\ up' = "draining"
  /\ UNCHANGED <<worker, head, database, faults>>

(* Every worker returned: Stop and main return.                            *)
Exit ==
  /\ up = "draining"
  /\ \A w \in Workers : pc[w] = "stopped"
  /\ up' = "down"
  /\ UNCHANGED <<stops, worker, head, database, faults>>

(* The worker of symbol s whose COMMIT is in flight, if there is one.      *)
Committing(s) == {w \in Workers : SymbolOf[w] = s /\ pc[w] = "committing"}

(* The process dies (or Stop gave up waiting): what memory held is lost,   *)
(* a transaction short of COMMIT is rolled back, one whose COMMIT was sent *)
(* is left to the server.                                                  *)
Crash ==
  /\ up # "down"
  /\ stops < MaxStops
  /\ stops' = stops + 1
  /\ up' = "down"
  /\ pc' = [w \in Workers |-> "stopped"]
  /\ batch' = [w \in Workers |-> {}]
  /\ limbo' = [s \in Symbols |->
       IF Committing(s) = {} THEN limbo[s]
       ELSE LET w == CHOOSE w \in Committing(s) : TRUE
            IN [from |-> cursor[w], ids |-> batch[w]]]
  /\ UNCHANGED <<cursor, head, rows, mark, floor, gaps, faults>>

(* Docker starts the container again; each worker begins with a nil fromID.*)
Restart ==
  /\ up = "down"
  /\ up' = "up"
  /\ pc' = [w \in Workers |-> "load"]
  /\ cursor' = [w \in Workers |-> Nil]
  /\ UNCHANGED <<stops, batch, head, database, faults>>

-----------------------------------------------------------------------------
WorkerStep(w) ==
  \/ Load(w) \/ LoadFails(w)
  \/ FetchPage(w) \/ FetchEmpty(w) \/ FetchFails(w)
  \/ InsertRows(w) \/ UpsertMark(w) \/ SendCommit(w)
  \/ TxFails(w) \/ LockTimeout(w)
  \/ CommitApplied(w) \/ CommitRejected(w) \/ CommitLost(w)
  \/ Ack(w) \/ AckLost(w)
  \/ Tick(w) \/ WorkerStops(w)

Next ==
  \/ \E w \in Workers : WorkerStep(w)
  \/ \E s \in Symbols : Publish(s) \/ LimboCommits(s) \/ LimboAborts(s)
  \/ Signal \/ Exit \/ Crash \/ Restart

Spec == Init /\ [][Next]_vars

(* Goroutines run, tickers fire and calls return; the server decides every *)
(* transaction; Docker restarts the container.  Once the context is        *)
(* cancelled the select of Run sees its Done case each time around, so it  *)
(* is taken in the end: strong fairness.  Publish, Signal, Crash and the   *)
(* failures are owed nothing: only bounded many of them happen.            *)
Fairness ==
  /\ \A w \in Workers : WF_vars(WorkerStep(w)) /\ SF_vars(WorkerStops(w))
  /\ \A s \in Symbols : WF_vars(LimboCommits(s) \/ LimboAborts(s))
  /\ WF_vars(Exit)
  /\ WF_vars(Restart)

LiveSpec == Spec /\ Fairness

-----------------------------------------------------------------------------
(* Every variable has its type; a batch holds only well-formed published   *)
(* trades and is empty outside a transaction; no worker outlives its       *)
(* process.                                                                *)
TypeOK ==
  /\ up \in {"up", "draining", "down"}
  /\ pc \in [Workers -> States]
  /\ cursor \in [Workers -> Nat \cup {Nil}]
  /\ batch \in [Workers -> SUBSET Nat]
  /\ head \in [Symbols -> Nat \cup {Nil}]
  /\ rows \in [Symbols -> SUBSET Nat]
  /\ mark \in [Symbols -> Nat \cup {Nil}]
  /\ limbo \in [Symbols -> [from : Nat \cup {Nil}, ids : SUBSET Nat]]
  /\ floor \in [Symbols -> Nat \cup {Nil}]
  /\ gaps \in [Symbols -> SUBSET Nat]
  /\ faults \in 0 .. MaxFaults
  /\ stops \in 0 .. MaxStops
  /\ up = "down" => \A w \in Workers : pc[w] = "stopped"
  /\ \A w \in Workers :
       /\ batch[w] \subseteq Published(SymbolOf[w])
       /\ batch[w] # {} <=> pc[w] \in InTx \cup {"acked"}
  /\ \A s \in Symbols :
       /\ rows[s] \subseteq Published(s)
       /\ limbo[s].ids \subseteq Published(s)
       /\ limbo[s].ids = {} => limbo[s] = NoTx

(* Every well-formed trade from the first one stored up to n is stored, or *)
(* was passed over by a page of latest trades (which gaps records).        *)
Settled(s, n) ==
  \A i \in floor[s] .. n - 1 : i \in rows[s] \cup gaps[s] \cup Malformed[s]

(* No trade is lost silently: whatever crashes, lost acknowledgements,     *)
(* failed inserts and restarts happen, everything below the resume mark    *)
(* and below a worker's cursor is stored, except what a worker that        *)
(* started from the latest trades jumped over.                             *)
NoSilentGap ==
  /\ \A s \in Symbols : mark[s] # Nil => Settled(s, mark[s] + 1)
  /\ \A w \in Workers : cursor[w] # Nil =>
       /\ mark[SymbolOf[w]] # Nil
       /\ Settled(SymbolOf[w], cursor[w])

(* A pending page joins on to what is settled below it: it holds every     *)
(* well-formed id from its cursor, or from its first id, to its last.      *)
Joins(s, from, ids) ==
  /\ from # Nil => mark[s] # Nil /\ Settled(s, from)
  /\ \A i \in (IF from = Nil THEN Min(ids) ELSE from) .. Max(ids) :
       i \in ids \cup Malformed[s]

SymbolOK(s) ==
  /\ mark[s] # Nil <=> floor[s] # Nil
  /\ mark[s] # Nil => Settled(s, mark[s] + 1)
  /\ limbo[s] # NoTx => Joins(s, limbo[s].from, limbo[s].ids)

WorkerOK(w) ==
  LET s == SymbolOf[w] IN
  /\ cursor[w] # Nil => mark[s] # Nil /\ Settled(s, cursor[w])
  /\ pc[w] \in InTx => Joins(s, cursor[w], batch[w])
  /\ pc[w] = "acked" => mark[s] # Nil /\ Settled(s, Max(batch[w]) + 1)

(* The inductive strengthening of NoSilentGap: pages in a worker's hands   *)
(* and in limbo join on, and an acknowledged page is settled.              *)
Inv == /\ TypeOK
       /\ \A s \in Symbols : SymbolOK(s)
       /\ \A w \in Workers : WorkerOK(w)

(* A worker's cursor stays within a page of the durable mark: never ahead  *)
(* of it by more than the next id, never so far behind that the page it    *)
(* stores next would move the mark back.  Holds per symbol listed once,    *)
(* until a jump leaves a gap.                                              *)
CursorNearMark ==
  \A w \in Workers :
    LET s == SymbolOf[w] IN
    cursor[w] # Nil /\ gaps[s] = {} =>
      cursor[w] <= mark[s] + 1 /\ mark[s] <= cursor[w] + Limit - 1

(* last_id is a high-water mark although the upsert overwrites it with     *)
(* whatever page commits: it moves back only for a symbol where a page of  *)
(* latest trades had jumped over ids.  For symbols listed once.            *)
MarkRegressesOnlyAfterJump ==
  [][\A s \in Symbols : mark'[s] >= mark[s] \/ gaps[s] # {}]_vars

(* A full page of malformed trades: every later poll of that cursor        *)
(* answers the same empty batch.                                           *)
Poisoned(w) ==
  /\ head[SymbolOf[w]] >= cursor[w] + Limit - 1
  /\ GoodPage(SymbolOf[w], cursor[w]) = {}

(* Ingestion keeps up: a well-formed trade is eventually stored, unless it *)
(* precedes the first page or was jumped over, or the worker is stuck at a *)
(* page of malformed trades only, for good.                                *)
EveryTradeSettles ==
  \A w \in Workers : \A i \in 0 .. MaxTrade :
    LET s == SymbolOf[w] IN
    (head[s] >= i /\ i \notin Malformed[s]) ~>
      (i \in rows[s] \cup gaps[s] \/ i < floor[s] \/ []Poisoned(w))

-----------------------------------------------------------------------------
(* What the database shows is a TradeLog.                                  *)
Log == INSTANCE TradeLog WITH
         Good <- [s \in Symbols |-> (0 .. MaxTrade) \ Malformed[s]]

(* Every step of the workers, the server and the process appends one page  *)
(* with its mark to the log of a symbol, or leaves the log as it is: the   *)
(* statement-by-statement transaction, its lost COMMITs and the restarts   *)
(* implement the log.  For symbols listed once.                            *)
ImplementsTradeLog == Log!Spec

=============================================================================
