# Verification of the crypto-ingest pipeline and the DDL scripts

TLA+ models of the program logic of this repository, model-checked with TLC,
with theorems checked by TLAPS. The repository is a data-engineering sandbox.
Its own code is of two kinds:

- `crypto-ingest` (Go) polls the Binance REST API and stores what it reads in
  PostgreSQL: concurrent, exposed to failures, with durable state;
- three Python scripts that turn the catalog of a live database into SQL files:
  `clickhouse/extract_ddl.py`, and the check and the conversion under
  `Greenplum_extraction`. They are sequential, but the catalog they read changes
  under them, their files outlive them, and their output is only right if
  another program can run it.

`PROJECT.json` lists components, runs, mutants, the map from definitions to
source lines, findings, hazards and theorems.

## 1. Inventory

| Component | State it keeps | Operations | What is hard |
| --- | --- | --- | --- |
| Trade worker (`internal/worker/trade.go`), one per entry of `SYMBOLS` | `fromID`, the page in hand | load the resume mark, poll, tick, stop | failures between fetch, commit and cursor; resume after a crash; a symbol listed twice |
| Trade transaction (`InsertAggTrades`, `GetIngestState`) | `agg_trades`, `ingest_state.last_id` | insert rows, upsert the mark, commit | lost COMMIT answers decided late; row locks and the deadline; the mark is overwritten, not maximised |
| Order-book and ticker workers and their store | `orderbook_snapshots`, `orderbook_levels`, `ticker_24hr`, the snapshot sequence, the pool | poll, acquire, insert, copy, commit, release | ids drawn in open transactions, early returns, late statements, pool limits |
| Exchange client (`doRequest`) | ban flag, `pauseUntil`, token bucket | pause, wait for tokens, send, back off, obey Retry-After, ban | shared pause read once; retries unpaid; ban during waits |
| Manager and main | health flag, reason, `banCh`, contexts | startup, Start, handleBan, health server, Stop | handleBan runs concurrently in several workers; order of its steps; shutdown with calls in flight |
| Migrations | the schema | ten statements, no transaction | a crash between any two |
| Docker | container state | restart, stop, kill | restarts during a ban |
| ClickHouse extraction (`clickhouse/extract_ddl.py`) | the statements so far, the output file | resolve the cluster and the macros, nine sections of a listing and SHOW CREATEs, write | the catalog changes between queries; some queries may fail in silence; order and idempotence of the file; paths of replicated tables |
| Greenplum check (`пример скрипта-выгрузки DDL.py`) | `ddl_stage.sql`, the texts in hand | extract five parts, compare, save the reference, regenerate | queries of different moments; two files that must agree, written one after the other |
| Greenplum conversion (`пример скрипта_2.py`) | `ddl_*_pg.sql`, `init.sql` | read, strip Greenplum's clauses, write | runs inside the check or by hand beside it; line rules that know no statements |

Interaction. main builds one client and one store and hands them to the
Manager. Each worker is a goroutine that calls the client, then the store. A 418
makes the client call the Manager's ban handler in the worker's goroutine; it
cancels the context all workers share and closes `banCh`, on which main waits.
SIGTERM cancels the root context. PostgreSQL is the only state that outlives the
process; Docker starts it again. The scripts stand apart: `extract_ddl.py` writes
a file that is replayed on another cluster, the Greenplum check calls the
conversion, and both share their files with a conversion by hand.

What makes each part correct:

- trades: whatever fails, everything below the resume mark is stored, or was
  passed over by a page of latest trades; the mark moves with its rows;
- snapshots: readers see whole books, the newest id is the newest book, nothing
  is stored twice, no path leaks a connection;
- client: bounded requests, every call returns, a ban silences it;
- lifecycle: no worker stores into a partial schema, health falls before
  workers are cancelled, main stops only for a cause, and always stops for one;
- ClickHouse extraction: what was there all along is written once, can be
  created in the order of the file on every server, and no two servers become
  replicas of each other that were not;
- Greenplum: "no changes" is true, `init.sql` follows the reference, and the
  conversion removes clauses and nothing else.

## 2. Modules

| Module | Models |
| --- | --- |
| `TradeLog` | abstract: per symbol a log of trades with a resume mark, appended a page at a time |
| `TradeIngest` | trade workers, the exchange's pages, `InsertAggTrades` statement by statement, crash and restart; implements `TradeLog` |
| `BookLog` | abstract: what readers see, whole books and tickers that appear one at a time, each book in its place |
| `SnapshotStore` | order-book and ticker workers, `InsertOrderBook`, `InsertTicker`, the pool; implements `BookLog` |
| `BinanceClient` | `doRequest` with its pause, token bucket, retry loop, backoff and ban |
| `Lifecycle` | main, migrations, Manager, ban handler, health server, Stop, Docker |
| `DdlDump` | `extract_ddl.py`, every query a step, with other clients between them |
| `DdlReplay` | composes `DdlDump` with a replay of its file on an empty cluster |
| `GreenplumRefresh` | the check and `convert_and_generate` with their files, by hand too |
| `StripGp` | `strip_gp_clauses`, one line a step |
| `*Proofs` | the theorems about the module they are named after |
| `MC*` | values of the constants for TLC |

### TradeIngest

`cursor` is `fromID` (`Nil` for a nil pointer), `batch` the page passed to
`InsertAggTrades`, `pc` the place in `Run`, `pollTrades` and the transaction;
`rows` and `mark` are the committed tables. Trade ids are 0, 1, 2, ...;
`Malformed` are the ids whose entry lacks a price or a quantity, which
`FetchAggTrades` drops. `InsertRows`, `UpsertMark` and `SendCommit` are the three
round trips of the transaction. The locks they wait for are derived from the
other transactions (`RowsLocked`, `MarkLocked`); a worker waits until its
deadline (`LockTimeout`). `committing` is the time between sending COMMIT and
its answer: the server may commit (`CommitApplied`), refuse (`CommitRejected`),
or the worker may give up first (`CommitLost`), which leaves the transaction in
`limbo` for the server to decide. `floor` and `gaps` are history: the first id
stored, and what a page of latest trades jumped over.

A jump happens when `GetIngestState` fails at start, or when two workers of one
symbol start on an empty table. The code then fetches the latest page and the
next commit moves the mark over what lies between, although `forum_plan.md:368`
says workers resume from `last_id + 1`; `NoSilentGap` is the strongest statement
that survives this.

The mark itself may regress, since the upsert takes `EXCLUDED.last_id`: a lost
COMMIT of a page of latest trades, decided after the worker stored another page,
is enough. `MarkRegressesOnlyAfterJump` says that nothing else is.

### SnapshotStore

A fetched book is the number of its fetch and the number of well-formed levels
per side, a ticker just the number of its fetch. `tx` is the open transaction,
`seq` the sequence behind `snapshot_id`, which no rollback undoes. `free` counts
the connections the pool may hand out. `limbo` holds COMMITs, and tickers'
INSERTs, that were sent by a worker or a process that left. Trade workers use
the same pool; to this module that is one more reason for `AcquireFails`.
`BooksInOrder` is per worker, so per symbol when `SYMBOLS` has no repetition.
No such order holds for tickers, whose INSERT can land late. `ImplementsBookLog`
maps by name: `fetched`, `seq` and the three tables are those of `BookLog`;
`Stored` and `LimboLands` are `StoreBook` or `StoreTicker`, a fetch is `Poll`, an
id drawn is `Draw` and everything else leaves the log as it is.

### BinanceClient

Timers are countdowns, and time passes without waiting for late callers.
`Begin` reads the pause once, as the code does; `Acquire` is the token bucket
(burst, rate and weight are constants); one turn of the loop is `Send`, a
response action, and `WaitEnds`. `sent` and `stale` are history. The unit of
time is half of the base delay, and no wait is longer than `MaxBackoff`.

### Lifecycle

Startup is one action per call of main; `created` is how many migrations exist
in the database and survives the process. handleBan is one action per statement
(`BanUnhealthy`, `BanReason`, `BanCancel`, `BanCheck`, `BanClose`), because
several workers can be in it at once. `Die(n)` ends the process with exit code
`n`: 0 return, 1 `os.Exit(1)`, 2 panic, 137 kill. The health server's goroutine
may assign `httpServer` after Stop looked at it: `ServeHealth` may fire late.

### DdlDump and DdlReplay

`catalog` is what the asked server has, by name and kind; `Create` and `Drop` are
other clients, at any moment, within what the server allows (an object lives in
an existing database and refers to existing objects). main is `Connect`,
`Resolve`, `GetMacros`, `GetDatabases`, then each of the nine sections of
`Sections`: `List` is its listing, `Show` one SHOW CREATE, which skips an object
that has gone. A listing of a tolerant section and any SHOW CREATE may fail
without ending the script: `missed` records what that left out. `Open` and
`Write` are the two halves of `write_text`.

The text of a statement is abstracted to what the rewriting changes: its name,
whether it takes an existing object (`safe`: IF NOT EXISTS or OR REPLACE), its
ON CLUSTER, and the arguments of its ReplicatedMergeTree. `Garbled` is the name
that results when a pattern ends a quoted name at its first odd character.
`Reparameterize` is `str.replace` with its treatment of adjacent components
(`Replaced`). `system.tables` lists dictionaries, so a dictionary is written
twice, the second time as a harmless repetition. A listing is `Rows` of a set of
names, the one sequence in which each row comes `Before` the next, as ORDER BY
asks; `Place` is the alphabet.

The constants are a catalog a server could have accepted (`KindAssumption`,
`CatalogsValid`): a name is that of a database, of something in one, or of
neither; what exists lives in a database that exists and refers to what exists.
`ClusterAssumption` says nothing of which servers a cluster has: the asked server
need not be in the cluster that `resolve_cluster` picks. That function reads
`LIMIT 100` Distributed tables in no order; `RowLimit` is that limit, and
`ResultRows` any so many of them. If those read name no cluster, the code falls
back to the first cluster without a failed query, although others may name one;
`ClusterFollowsTables` therefore asks that the tables which name none be too few to
fill the rows (`Silent`).

`DdlReplay` runs the file on an empty cluster of the same layout, which is an
external system: a statement needs what it refers to on each target server, must
not register a replica that exists, and stops the replay when it fails on one. A
replay may be interrupted and started from the top.

A path is told from another by what both had in the source (`PathOf`): a
component that the rewriting replaces, or that is a macro already (`Marked`), at
one place of both (`ByShard`), or replica arguments that are both the replica's
own (`Own`). Both tables must have been there all along (`Rewritten`): a
Distributed table that is dropped and made again as a replicated one between the
listing and its SHOW CREATE is written by the section `distributed`, with ON
CLUSTER and with its path as it was.

### GreenplumRefresh

`pc` has a place for the check and one for a conversion by hand; they share the
steps of `convert_and_generate`, parameterised by the process. `PartKinds` are
the five queries, each of which sees the catalog of its moment and returns its
rows in any order its ORDER BY permits (`Rows`). A unique constraint is skipped
if an index of the same name was extracted (`labels`). A file is truncated, then
written; `Die` may come in between and leave a beginning of the text (`Torn`).
`harmed` and `byHand` are history: a run of the check failed after it began to
rewrite the reference; a conversion by hand made `init.sql` or may yet.
`UnchangedIsTrue` compares as sets, for the text has an order the database does
not guarantee. SchemaAssumption: the script's schemas exist, so no extraction is
empty.

### StripGp

A line is its tokens and whether it is indented; the tokens are what the regular
expressions tell apart. The actions are the rules in the order they are tried. A
clause that `re.sub` takes out of a line leaves a `"blank"` in its place, so that
the places of a line stay comparable; `from` is history, the line of the script
that each line of the output was. Mapped: `strip_gp_clauses`, lines 8 to 109.

The rules know lines, not statements. Three properties say what a statement
keeps, for every sequence of lines, with the cases that break them named by what
goes wrong in the text:

- the semicolon of a removed clause is lost, or comes to life: no line above can
  take it (another WITH that the rules do not know is in between, or the line
  ends in a comment), or it was in a comment itself (`Unterminated`);
- text beside a removed clause, or between the lines of one, goes with it
  (`Swallows`);
- a clause stays that no rule sees, such as DISTRIBUTED RANDOMLY, the second line
  of a DISTRIBUTED BY that is cut in two, a WITH of a bare value in a body
  (`Overlooked`);
- a line that is just `schema.table` goes, which in a body may be the table of a
  query: `CodeKept` leaves bare names out.

`StatementsStayApart` counts the semicolons outside comments; `CodeKept` compares
the rest place by place, through `from`. `Stays`, `Remains` and `Home` tell from
the script alone which lines stay, as what, and where a semicolon goes.

The scripts of the run (`MCStripGp`) are families of tables and functions of the
forms the extraction writes, alone and one after the other, and every four lines
out of eleven forms.

## 3. Runs

| Run | Question | Bounds | Result |
| --- | --- | --- | --- |
| `ingest` | does a worker lose or reorder anything, does it implement `TradeLog`, and is every trade stored in the end? | pages of 2, 7 trades, malformed 1 and 2 (which can fill a page), 3 faults, 2 stops | holds |
| `ingest_twice` | and with the symbol listed twice, is there a silent gap? | pages of 2, 5 trades, 1 fault, 1 stop | holds |
| `client` | are calls bounded, do they return, does a ban silence? | 2 callers, 3 attempts each, pause of 3 | holds |
| `life` | does the container start, stop and report correctly? | 2 workers, 2 migrations, 2 bans, 2 failures or signals | holds |
| `snapshots` | are books whole, ordered, stored once; does the pool balance; does every step implement `BookLog`? | 2 book workers, 1 ticker worker, 2 connections, 1 fault, 1 stop | holds |
| `ddl` | does the file have what was there, and can it be replayed? | 13 names of every kind, 2 servers in 2 shards, 2 clusters, 1 row read to find the cluster, 3 events, 2 replays | holds |
| `refresh` | is "no changes" true, and does `init.sql` follow? | 8 objects, 1 change, 1 fault, 3 runs | holds |
| `strip` | does the conversion remove clauses only? | 9 tables, 320 functions, each alone, two tables, a table before a function; every 4 lines of 11 forms | holds |
| `life_close_claim` | is the double close guarded? | 2 workers, 1 ban | violated |
| `life_exit_claim` | does a ban keep the process alive? | 2 workers, 1 ban | violated |
| `ddl_twice_claim` | can a replayed file be replayed again? | as `ddl`, no events | violated |
| `refresh_claim` | does "no changes" mean `init.sql` is current? | no change, 1 fault, 2 runs | violated |

Why the bounds are enough to be interesting. Pages of two trades and seven ids
give full, short and empty pages, a jump with room for a gap, and several pages
after it; ids 1 and 2 fill a page with malformed trades or half of two pages,
depending on where the worker starts. Three faults reach a failed load, a lost
COMMIT and one more failure in one behaviour; two stops reach a crash during the
recovery from a crash. Two workers on a symbol are enough for every lock
conflict, because a transaction conflicts with one other at a time. Two callers
are enough for the pause, which is set by one and missed by another. Two workers
can meet in handleBan. Two fetches of one worker and two transactions at once are
what `BooksInOrder` and `WholeBooks` need. In `ddl` three events are an object
that is dropped and made again as another kind with a failed query beside it;
the catalogs have every kind, a database left out, a path with the shard twice in
a row, one with the shard at its end, a name that needs quotes, and a name that
may be a Distributed or a replicated table; with `RowLimit = 1` and up to three
Distributed tables, two of which name a cluster, more tables are there than are
read, with a silent one among them or not; one of the two clusters lacks the
asked server. In `refresh`
one change can fall between any two queries, and three runs are a failed one, the
one that does not repair it, and a conversion by hand or a repairing one.

Every bound is a constant named `Max...` and appears in a guard of an environment
action (`Publish`, `Fault`, `Signal`, `Crash`, `Kill`, `ExchangeBans`, `Fetch`,
`Create`, `Drop`, `Start`, `Change`, `Begin`), `Queries` aside, which stands for
the ten migrations.

Deadlock is checked in the runs of crypto-ingest. The scripts end, and so do the
runs `ddl`, `refresh`, `strip` and the claims of the first two, which say
`CHECK_DEADLOCK FALSE`.

### Fairness

- `TradeIngest`: workers run, tickers fire, calls return (each has a deadline or
  a client timeout), the server decides every transaction, Docker restarts. A
  worker whose context is cancelled takes the `Done` case in the end (strong
  fairness on `WorkerStops`): Go's select chooses at random among ready cases.
  Publishing, signals, crashes and failures are owed nothing.
- `BinanceClient`: a started call goes on, requests end (30 s client timeout),
  time passes; the token bucket grants reservations first come first served
  (strong fairness on `Acquire`).
- `Lifecycle`: main, the health server, Docker, handleBan and store calls (five
  second deadline) go on; no fairness for requests in flight, so Stop's timeout
  is really needed.
- The scripts have safety properties only: each is a straight line that ends.

## 4. Findings

1. `life_close_claim`: `handleBan` tests and closes `banCh` in two steps without
   a lock, in the goroutines of all banned workers; the second close panics.
   `errors.md:12` calls this a double-close guard.
2. `life_exit_claim`: a ban wakes main, which stops and returns; the plan
   (`task_plan.md:391`) wants the process kept, serving 503. Docker restarts it
   and it pings an exchange that bans it.
3. `ddl_twice_claim`: settings profiles, row policies and quotas are written
   without IF NOT EXISTS or OR REPLACE, so a second replay stops at the first of
   them; `extract_ddl.py:22` calls the file idempotent.
4. `refresh_claim`: the reference is saved before `init.sql` is made from it; a
   run that dies in between makes the next one report no changes over an old
   `init.sql`.

Also seen while modelling, and stated by properties that hold only with these
cases named: `last_id` is not a high-water mark (`MarkRegressesOnlyAfterJump`); a
failed read of the mark makes the worker skip trades (the `gaps` of
`NoSilentGap`); a full page of malformed trades stops a worker for good
(`Poisoned` in `EveryTradeSettles`); `pauseUntil` is read once per call, before
the token bucket and all retries, so a call that looked before goes on through a
pause (`OnlyStaleCallsIgnorePause`; `binance.go:384` says "pausing all
requests"); retries take nothing from the token bucket, so the requests of a call
are bounded by its attempts and not by the budget (`BoundedRequests`); a
statement may precede what it refers to, and a path may keep the source's shard,
also when a Distributed table became a replicated one after it was listed
(`StopsForCause`, `ShardsApart`); the cases of `StripGp` above.

## 5. Proofs

Each proof module proves its theorems for all values of the constants, from the
named assumptions of the module it extends. A theorem (`Inductive`, `PagesJoin`,
`PagesKeepUp`, `NothingInvented`, `ExtractionInductive`) or a lemma says that the
strengthened invariant is inductive, with one step per action or group of actions
that disturb it alike.

**TradeIngestProofs**: `TypeCorrect`, `PagesJoin` (`Spec => []Inv`), `GapFree`
(`Spec => []NoSilentGap`), for one worker per symbol or many. `NoSilentGap` is
not inductive: a commit changes the mark to the largest id of a page, so one
must know that the page has no hole above the cursor it was fetched for, and
that everything below that cursor is settled still. `Inv` adds this for pages in
workers' hands and in limbo (`Joins`), and that a page in `acked` is settled up
to its last id, so that `Ack` may move the cursor. The lemmas follow the life of
a page: `PageJoins` (a fetched page joins on), `ApplySettles` (a commit of a page
that joins settles it and unsettles nothing), `TablesUnchanged` and
`SymbolsUnchanged` for the steps that leave the tables alone. `MaxMinOfIds` gives
the maximum and minimum of a non-empty finite set of ids, from the
well-foundedness of strict inclusion between finite sets.

**TradeLogProofs**: if `SYMBOLS` repeats no symbol (`ListedOnce`, a hypothesis of
each theorem, not an assumption of the module), `Implements`
(`ImplementsTradeLog`), `NearMark` (`CursorNearMark`) and `MarkHigh`
(`MarkRegressesOnlyAfterJump`). `LogInv` extends `Inv`: a page reaches no further
than `Limit` ids (`InRange`); a worker's transaction waits behind the one in limbo
(`TxOK`); and, while there is no gap, neither a page nor what is in limbo ends
below the mark, and what is in limbo ends neither below the mark nor above the
next page (`LimboOK`, `NearOK`), so that its late commit takes nothing back.
`AppendsPage` then maps the commit of a page, from a worker or from limbo, to
`First`, `Extend` or `Jump` of the log; every other step leaves the log alone.
`MarkHigh` follows from the refinement. With a symbol listed twice the hypothesis
fails and so may the properties, which is why `ingest_twice` does not check them.

**BinanceClientProofs**: for any number of callers, the type invariant, the bound
on requests and the action property on pauses. The invariant adds that the
requests sent by a call are those of the attempts it finished or has in flight
(`Counted`) and that only a call which looked at the pause before it was set may
be past it (`Looked`).

**LifecycleProofs**: for any number of workers and migrations, `UnhealthyFirst`
(`BanShowsUnhealthy`), `StopHasCause`, `SchemaComplete` (`StoresMeetTables`) and
`PollsEnd` (`NoCallWhileStopping`). The invariant says of each place in handleBan
what was done before it (`Handled`), that a cancelled context has a signal or a
ban behind it (`Caused`), that main gets past the migrations only with a complete
schema (`Migrated`), and that nothing is cancelled before Start (`Started`).

**SnapshotStoreProofs**: for any number of workers and any pool, `BooksWhole`,
`InOrder`, `OnceOnly` and `PoolConserved`. The invariant has five parts: `Shapes`
(what a transaction holds at each statement), `Holdings` (what the tables and
limbo hold), `Ordered` (ids drawn later belong to later fetches of a worker, and
no id is drawn twice), `Apart` (a ticker is in one place only), `PoolBalanced`.

The same module proves `Implements` (`ImplementsBookLog`), for which it needs
`NothingInvented` besides: what a worker has in hand, or left in limbo, was
fetched. A COMMIT that is answered stores its worker's latest fetch under its
latest id (`StoredLands`). A late one finds its place among the worker's older and
newer books, since ids follow fetches (`LimboLandsLate`; a book that is in the
tables already would change nothing). Every other step leaves the tables alone
(`BookLogStep`).

**GreenplumRefreshProofs**: `InitFollows` (`InitFollowsReference`) for any set of objects and any
number of runs, changes and failures. Its invariant needs `NonBlank` (an
extracted text is not empty once the schemas were read, so `stage` is what the
check converts) and `Current` (what each place of the check has already made
from the reference).

The extraction has an invariant of its own (`ExtractionInductive`), with
`TypeCorrect`, `ExtractedOnce` (`SteadyExtractedOnce`) and `ReportIsTrue`
(`UnchangedIsTrue`). `Extracted` is `SteadyExtractedOnce` of the parts so far,
each object counted when its part has run (`HomeOf`); a unique constraint is
written as an index, so the invariant must also know that its label was recorded
(`labels`) before the constraints are read, which holds of what was there all
along only. `Reported` says that the reference is still what the check compared
with, and that "unchanged" was said of the text at hand. `PlacesGrow` counts the
occurrences of an object in a text to which a part was appended.

**DdlReplayProofs**: for any catalog, clusters, servers, macros and paths, and any
number of changes, failures and replays: `TypeCorrect`, `DumpedOnce`
(`SteadyDumpedOnce`), `ReplayedAll` (`ReplayedEverywhere`), `StopHasCause`
(`StopsForCause`), `Shards` (`ShardsApart`), `ClusterFollows`
(`ClusterFollowsTables`). The invariant says

- of the databases and of the rows in hand, that none is repeated, and that what
  was there all along still is what its section lists (`Databases`, `Pending`);
- of each statement, that it is guarded unless it makes an access entity, that
  no left-out database is in it, and that it has the kind and the rewritten path
  of an object that was there all along (`Kept`);
- of each object owed, that the sections done with it (`Done`) have written it,
  each once (`Covered`); `SteadyDumpedOnce` is this at the end of the last section;
- of the replay, that what it has is from the file, and that whatever the
  statements before `pos` make is on every server they go to (`Replayed`).

`RowsFacts` gives what a listing is: each name once, nothing else, for any
finite number of rows. `CoveredStep` is the counting, shared by a section written
in one step (`BulkStep`), a row shown (`ShowStep`) and a section without rows
(`SkipStep`). `PathsApart` and `ReplicasApart` are the argument on paths:
components at a marked place become the macros of two servers, which differ.
`StopStep` goes through the reasons for which a statement fails on a server and
finds the cause for each. `LeastNatural` is the well-foundedness of the naturals,
for the first cluster in sorted order. `NamingTableRead` is the counting on
`RowLimit`: tables that name no cluster cannot fill all rows, so one that names a
cluster is read; `Silent` only grows, as objects stop being steady.

**StripGpProofs**: for any scripts, any sequences of any lines, `TypeCorrect`,
`StatementsApart` (`StatementsStayApart`), `KeepsCode` (`CodeKept`) and
`NoClauseLeft` (`ClausesGone`). None of them is inductive: each speaks of the end,
and of what lookahead to a closing parenthesis has skipped. The invariant says

- that the next line is not in the middle of a block that was removed (`Ahead`),
  for which `ClosingFacts` and `BlockFacts` give what a lookahead finds;
- that the output is, line by line and in order, what remains of the lines that
  stay, each with at most one semicolon more (`Traced`), and that the last line
  has none more since the last removed line that ended a statement (`LastAsIs`);
- that the output has as many semicolons as the lines so far, unless one of the
  named cases is in the script (`Counted`).

`StepKinds` reduces the five actions to three kinds of step: a line is kept as
what remains of it (`KeepStep`), lines are dropped (`DropStep`), or a line is
dropped that ended a statement (`EndStep`). The kinds say nothing of the rules, so
that the other lemmas need not know them. `SemicolonMoves` is the heart of the
count: the place `Home` that the script has for a semicolon is the last line of
the output when its turn comes. `Beside` says that of a dropped line nothing is
read but its clauses and a last semicolon, unless text is swallowed.
`PlaceOfSemicolon`, `OutputGrows`, `OutputEnded` and `BeforeGrows` do the counting
a line at a time, so no induction over a text is needed; the recursion over its
lines is the behaviour itself.

Properties that had held on the instance and not in general were restated before
they were proved, and the instances now have the cases. `ShardsApart` and
`StopsForCause` did not exclude a table that changed its kind after it was listed,
nor a cluster without the asked server; `ClusterFollowsTables` did not know the
limit of rows. Those of `StripGp` held of the scripts the
extraction writes only, with exceptions that named forms of lines; they now name
what goes wrong in any text.

Only model-checked: liveness (`EveryTradeSettles`, `CallsReturn`, `BanSilences`,
`SignalEnds`, `BanEnds`), as the provers do not handle fairness and ENABLED. Every
other property of a passing run has a theorem.

## 6. Not modelled

Contents of trades, books and tickers; logging; HTTP and SQL wording; the
`-healthcheck` probe, which only reads. `ingest_state.last_timestamp`, which
nothing reads back. Two containers against one database. Of the Greenplum
scripts `load_env`, the diff report, which nothing reads, and the COPY commands
of `generate_init_sql`, which depend on nothing that changes. `init.sh`: a wait
and one client call; `DdlReplay` models what such a run does with a file. The
Flink jobs and notebooks are declarative, their state lives elsewhere. Of the
compose file only crypto-ingest's restart policy and grace period.

Three edges of the data: the newline translation of `read_text` and `write_text`
(the comparison strips both texts, and takes what was written to be what is read
again); the `.*?\)` of `strip_gp_clauses`' first rule, which may run to a later
parenthesis of its line; a quote inside the parentheses of a DISTRIBUTED BY. No
property tells them apart.

## 7. Plan

Done: all components above. What is left is the composition of `BinanceClient`
and `Lifecycle`, so that the ban handler's order is checked against calls in
backoff.
