------------------------ MODULE SnapshotStoreProofs ------------------------
(* Theorems about SnapshotStore, for any workers, pool and bounds.         *)
EXTENDS SnapshotStore, TLAPS, FiniteSetTheorems

Drawn == {"levels", "commit"}  \* a worker whose transaction has its id

Rows == SUBSET (Nat \X {"bid", "ask"} \X Nat)

(* What is stored, or may be still, as a book.                             *)
Items == snapshots \cup {t \in limbo : t.book.by \in BookWorkers}

Late == {t \in limbo : t.book.by \in TickerWorkers}

(* The variables' types, and what a transaction holds at each of its       *)
(* statements.                                                             *)
Shapes ==
  /\ up \in {"up", "draining", "down"}
  /\ seq \in Nat /\ free \in Int
  /\ faults \in 0 .. MaxFaults /\ stops \in 0 .. MaxStops
  /\ pc \in [Workers -> {"idle", "acquire"} \cup Connected]
  /\ book \in [Workers -> Books]
  /\ fetched \in [Workers -> Nat]
  /\ tx \in [Workers -> [id : Nat, rows : Rows]]
  /\ \A w \in Workers :
       /\ book[w].by = w /\ book[w].fetch = fetched[w]
       /\ fetched[w] <= MaxFetches[w]
       /\ pc[w] \notin Drawn => tx[w] = NoTx
       /\ pc[w] \in Drawn => tx[w].id \in 1 .. seq
       /\ pc[w] = "levels" => tx[w].rows = {}
       /\ pc[w] = "commit" => tx[w].rows = LevelsOf(tx[w].id, book[w])
       /\ pc[w] = "insert" => w \in TickerWorkers
       /\ pc[w] \in InTx => w \in BookWorkers

(* What the tables and limbo hold.                                         *)
Holdings ==
  /\ limbo \subseteq [id : Nat, rows : Rows, book : Books]
  /\ snapshots \subseteq [id : Nat, book : Books]
  /\ \A s \in snapshots : s.book.by \in BookWorkers
  /\ tickers \in Seq(Books)
  /\ \A i \in DOMAIN tickers : tickers[i].by \in TickerWorkers
  /\ \A t \in limbo :
       /\ t.id <= seq
       /\ t.book.by \in BookWorkers => t.rows = LevelsOf(t.id, t.book)
       /\ t.book.by \in TickerWorkers => t.id = 0 /\ t.rows = {}
  /\ levels = UNION {LevelsOf(s.id, s.book) : s \in snapshots}

(* Ids are drawn in the order of the fetches of a worker, and none twice.  *)
Ordered ==
  /\ \A r \in Items :
       /\ r.id \in 1 .. seq
       /\ r.book.fetch <= fetched[r.book.by]
       /\ pc[r.book.by] # "idle" => r.book.fetch < fetched[r.book.by]
  /\ \A r, q \in Items :
       /\ r.id = q.id <=> r.book = q.book
       /\ r.book.by = q.book.by /\ r.id < q.id => r.book.fetch < q.book.fetch
  /\ \A w \in BookWorkers : pc[w] \in Drawn =>
       /\ \A r \in Items :
            r.id # tx[w].id /\ (r.book.by = w => r.id < tx[w].id)
       /\ \A v \in BookWorkers : pc[v] \in Drawn /\ tx[v].id = tx[w].id => v = w

(* A ticker is in one place of the table, or in limbo, or not stored.      *)
Apart ==
  /\ \A i, j \in DOMAIN tickers : tickers[i] = tickers[j] => i = j
  /\ \A i \in DOMAIN tickers :
       /\ tickers[i].fetch <= fetched[tickers[i].by]
       /\ pc[tickers[i].by] # "idle" => tickers[i].fetch < fetched[tickers[i].by]
       /\ \A t \in Late : tickers[i] # t.book
  /\ \A t \in Late :
       /\ t.book.fetch <= fetched[t.book.by]
       /\ pc[t.book.by] # "idle" => t.book.fetch < fetched[t.book.by]

(* None of WholeBooks, BooksInOrder and StoredOnce is inductive: what will *)
(* be committed, now or from limbo, must fit what is stored already.       *)
IInv == Shapes /\ Holdings /\ Ordered /\ Apart /\ PoolBalanced

-----------------------------------------------------------------------------
(* The rows of a book carry its id, and an empty book has none.            *)
LEMMA RowsOfBook ==
  ASSUME NEW id \in Nat, NEW b \in Books
  PROVE  /\ LevelsOf(id, b) \in Rows
         /\ \A r \in LevelsOf(id, b) : r[1] = id
         /\ b.bids + b.asks = 0 => LevelsOf(id, b) = {}
<1>1. b.bids \in Nat /\ b.asks \in Nat
  BY SnapshotAssumption DEF SnapshotAssumption, Books, Side
<1>2. LevelsOf(id, b) \in Rows
  BY <1>1 DEF LevelsOf, Rows
<1>3. \A r \in LevelsOf(id, b) : r[1] = id
  BY DEF LevelsOf
<1>4. b.bids + b.asks = 0 => LevelsOf(id, b) = {}
  BY <1>1 DEF LevelsOf
<1> QED BY <1>2, <1>3, <1>4

(* A worker with no fetch in hand, and a fetch in hand, are books.         *)
LEMMA FreshBook ==
  ASSUME NEW w \in Workers, NEW n \in Nat
  PROVE  /\ NoLevels(w, n) \in Books
         /\ NoLevels(w, n).by = w /\ NoLevels(w, n).fetch = n
BY SnapshotAssumption DEF SnapshotAssumption, NoLevels, Books, Side

(* Taking a connection adds a holder, giving it back removes one.          *)
LEMMA Holders ==
  ASSUME NEW P \in SUBSET Workers, NEW w \in Workers
  PROVE  /\ IsFiniteSet(P) /\ Cardinality(P) \in Nat
         /\ w \notin P => Cardinality(P \cup {w}) = Cardinality(P) + 1
         /\ w \in P => Cardinality(P \ {w}) = Cardinality(P) - 1
<1>1. IsFiniteSet(Workers)
  BY SnapshotAssumption, FS_Union DEF SnapshotAssumption, Workers
<1>2. IsFiniteSet(P)
  BY <1>1, FS_Subset
<1> QED BY <1>2, FS_CardinalityType, FS_AddElement, FS_RemoveElement

-----------------------------------------------------------------------------
(* A step of one worker that takes a connection from the pool, gives one   *)
(* back, or does neither.                                                  *)
LEMMA PoolKept ==
  ASSUME Shapes, PoolBalanced, NEW w \in Workers, NEW l, Goto(w, l),
         \/ pc[w] \notin Connected /\ l \in Connected /\ free' = free - 1
         \/ pc[w] \in Connected /\ l \notin Connected /\ free' = free + 1
         \/ (pc[w] \in Connected <=> l \in Connected) /\ free' = free
  PROVE  PoolBalanced'
<1> DEFINE P == {v \in Workers : pc[v] \in Connected}
<1>1. pc \in [Workers -> {"idle", "acquire"} \cup Connected] /\ free \in Int
  BY DEF Shapes
<1>2. /\ w \in P <=> pc[w] \in Connected
      /\ Cardinality(P) \in Nat
      /\ w \notin P => Cardinality(P \cup {w}) = Cardinality(P) + 1
      /\ w \in P => Cardinality(P \ {w}) = Cardinality(P) - 1
  BY Holders
<1>3. free + Cardinality(P) = MaxConns
  BY DEF PoolBalanced
<1> HIDE DEF P
<1>4. {v \in Workers : pc'[v] \in Connected} =
        IF l \in Connected THEN P \cup {w} ELSE P \ {w}
  BY <1>1 DEF Goto, P
<1>5. CASE w \notin P /\ l \in Connected /\ free' = free - 1
  <2>1. {v \in Workers : pc'[v] \in Connected} = P \cup {w}
    BY <1>4, <1>5
  <2>2. Cardinality(P \cup {w}) = Cardinality(P) + 1
    BY <1>2, <1>5
  <2>3. (free - 1) + (Cardinality(P) + 1) = MaxConns
    BY <1>1, <1>2, <1>3
  <2> QED BY <1>5, <2>1, <2>2, <2>3 DEF PoolBalanced
<1>6. CASE w \in P /\ l \notin Connected /\ free' = free + 1
  <2>1. {v \in Workers : pc'[v] \in Connected} = P \ {w}
    BY <1>4, <1>6
  <2>2. Cardinality(P \ {w}) = Cardinality(P) - 1
    BY <1>2, <1>6
  <2>3. (free + 1) + (Cardinality(P) - 1) = MaxConns
    BY <1>1, <1>2, <1>3
  <2> QED BY <1>6, <2>1, <2>2, <2>3 DEF PoolBalanced
<1>7. CASE (w \in P <=> l \in Connected) /\ free' = free
  <2>1. {v \in Workers : pc'[v] \in Connected} = P
    BY <1>4, <1>7
  <2> QED BY <1>3, <1>7, <2>1 DEF PoolBalanced
<1> QED
  BY <1>2, <1>5, <1>6, <1>7

(* Every path through a store ends with the connection given back.         *)
LEMMA StepPool == Shapes /\ PoolBalanced /\ [Next]_vars => PoolBalanced'
<1> SUFFICES ASSUME Shapes, PoolBalanced, [Next]_vars PROVE PoolBalanced'
  OBVIOUS
<1> USE DEF Connected, InTx
<1>1. ASSUME NEW w \in Workers, FetchBook(w) \/ FetchTicker(w) PROVE PoolBalanced'
  BY <1>1, PoolKept DEF FetchBook, FetchTicker, Fetch
<1>2. ASSUME NEW w \in Workers, Acquire(w) PROVE PoolBalanced'
  BY <1>2, PoolKept DEF Acquire
<1>3. ASSUME NEW w \in Workers, AcquireFails(w) PROVE PoolBalanced'
  BY <1>3, PoolKept DEF AcquireFails
<1>4. ASSUME NEW w \in Workers, InsertSnapshot(w) \/ CopyLevels(w) PROVE PoolBalanced'
  BY <1>4, PoolKept DEF InsertSnapshot, CopyLevels
<1>5. ASSUME NEW w \in Workers, TxFails(w) \/ Stored(w) \/ StoreLost(w)
      PROVE  PoolBalanced'
  BY <1>5, PoolKept DEF TxFails, Stored, StoreLost, Leave
<1>6. CASE Crash
  <2>1. {w \in Workers : pc'[w] \in Connected} = {}
    BY <1>6 DEF Crash
  <2>2. free' = MaxConns /\ MaxConns \in Nat
    BY <1>6, SnapshotAssumption DEF Crash, SnapshotAssumption
  <2> QED BY <2>1, <2>2, FS_EmptySet DEF PoolBalanced
<1>7. CASE UNCHANGED <<pc, free>>
  BY <1>7 DEF PoolBalanced
<1>8. ASSUME NEW w \in Workers, FetchFails(w) PROVE PoolBalanced'
  BY <1>7, <1>8 DEF FetchFails, vars, worker
<1>9. ASSUME NEW t \in limbo, LimboLands(t) \/ LimboAborts(t) PROVE PoolBalanced'
  BY <1>7, <1>9 DEF LimboLands, LimboAborts, worker
<1>10. CASE Signal \/ Exit \/ Restart \/ UNCHANGED vars
  BY <1>7, <1>10 DEF Signal, Exit, Restart, vars, worker
<1> QED
  BY <1>1, <1>2, <1>3, <1>4, <1>5, <1>6, <1>8, <1>9, <1>10 DEF Next, WorkerStep

-----------------------------------------------------------------------------
(* A worker that is back at rest has no transaction and no book.           *)
LEMMA LeaveShapes ==
  ASSUME Shapes, NEW w \in Workers, Leave(w), seq' \in Nat, seq <= seq',
         UNCHANGED up, faults' \in 0 .. MaxFaults, UNCHANGED stops
  PROVE  Shapes'
BY FreshBook DEF Shapes, Leave, Goto, NoTx, Rows, Drawn, Connected, InTx

(* Each statement finds its transaction as the one before it left it.      *)
LEMMA StepShapes == Shapes /\ [Next]_vars => Shapes'
<1> SUFFICES ASSUME Shapes, [Next]_vars PROVE Shapes'
  OBVIOUS
<1>0. MaxFaults \in Nat /\ MaxStops \in Nat /\ MaxConns \in Nat /\ MaxLevels \in Nat
  BY SnapshotAssumption DEF SnapshotAssumption
<1>a. CallFails => faults' \in 0 .. MaxFaults
  BY <1>0 DEF CallFails, Shapes
<1> USE DEF Shapes, Goto, Drawn, Connected, InTx, process, worker, database
<1>1. ASSUME NEW w \in Workers, NEW bids \in Side, NEW asks \in Side, Fetch(w, bids, asks)
      PROVE  Shapes'
  BY <1>0, <1>1, SnapshotAssumption DEF Fetch, Books, SnapshotAssumption, Workers
<1>2. ASSUME NEW w \in Workers, FetchBook(w) \/ FetchTicker(w) PROVE Shapes'
  BY <1>0, <1>1, <1>2 DEF FetchBook, FetchTicker, Side
<1>3. ASSUME NEW w \in Workers, Acquire(w) PROVE Shapes'
  BY <1>3 DEF Acquire, Workers
<1>4. ASSUME NEW w \in Workers, AcquireFails(w) PROVE Shapes'
  BY <1>a, <1>4, FreshBook DEF AcquireFails
<1>5. ASSUME NEW w \in Workers, InsertSnapshot(w) PROVE Shapes'
  <2>1. book[w].bids + book[w].asks = 0 => LevelsOf(seq + 1, book[w]) = {}
    BY RowsOfBook
  <2>2. /\ pc[w] = "snapshot" /\ seq' = seq + 1
        /\ tx' = [tx EXCEPT ![w] = [id |-> seq + 1, rows |-> {}]]
        /\ UNCHANGED <<up, stops, book, fetched, free, faults>>
    BY <1>5 DEF InsertSnapshot
  <2>3. [id |-> seq + 1, rows |-> {}] \in [id : Nat, rows : Rows]
    BY DEF Rows
  <2>4. \A v \in Workers : pc[v] \in Drawn => tx[v].id \in 1 .. seq'
    BY <2>2
  <2>5. CASE pc' = [pc EXCEPT ![w] = "levels"]
    BY <2>2, <2>3, <2>4, <2>5
  <2>6. CASE pc' = [pc EXCEPT ![w] = "commit"] /\ book[w].bids + book[w].asks = 0
    BY <2>1, <2>2, <2>3, <2>4, <2>6
  <2> QED BY <1>5, <2>5, <2>6 DEF InsertSnapshot
<1>6. ASSUME NEW w \in Workers, CopyLevels(w) PROVE Shapes'
  <2>1. LevelsOf(tx[w].id, book[w]) \in Rows
    BY RowsOfBook
  <2> QED BY <1>6, <2>1 DEF CopyLevels
<1>7. ASSUME NEW w \in Workers, TxFails(w) PROVE Shapes'
  BY <1>a, <1>7, LeaveShapes DEF TxFails
<1>8. ASSUME NEW w \in Workers, Stored(w) \/ StoreLost(w) PROVE Shapes'
  BY <1>a, <1>8, LeaveShapes DEF Stored, StoreLost
<1>9. CASE Crash
  BY <1>0, <1>9, FreshBook DEF Crash, NoTx, Rows
<1>10. CASE Signal \/ Exit \/ Restart
  BY <1>0, <1>10 DEF Signal, Exit, Restart
<1>11. ASSUME NEW t \in limbo, LimboLands(t) \/ LimboAborts(t) PROVE Shapes'
  BY <1>11 DEF LimboLands, LimboAborts
<1>12. CASE UNCHANGED vars
  BY <1>12 DEF vars
<1>13. ASSUME NEW w \in Workers, FetchFails(w) PROVE Shapes'
  BY <1>12, <1>13 DEF FetchFails
<1> QED
  BY <1>2, <1>3, <1>4, <1>5, <1>6, <1>7, <1>8, <1>9, <1>10, <1>11, <1>12, <1>13
     DEF Next, WorkerStep

-----------------------------------------------------------------------------
(* What is about to be decided about a transaction.                        *)
Deciding(t) ==
  /\ t.id \in Nat /\ t.rows \in Rows /\ t.book \in Books
  /\ t.id <= seq
  /\ t.book.by \in BookWorkers => t.rows = LevelsOf(t.id, t.book)
  /\ t.book.by \in TickerWorkers => t.id = 0 /\ t.rows = {}

(* A worker at its COMMIT, or its INSERT, sends what it drew and fetched.  *)
LEMMA SentWhole ==
  ASSUME Shapes, NEW w \in Workers, pc[w] \in {"commit", "insert"}
  PROVE  /\ Deciding(Pending(w))
         /\ Pending(w) \in [id : Nat, rows : Rows, book : Books]
         /\ Pending(w).id = tx[w].id /\ Pending(w).book = book[w]
         /\ pc[w] = "commit" <=> w \in BookWorkers
<1>1. /\ tx[w].id \in Nat /\ tx[w].rows \in Rows /\ book[w] \in Books
      /\ book[w].by = w
      /\ pc[w] = "commit" <=> w \in BookWorkers
      /\ pc[w] = "insert" <=> w \in TickerWorkers
  BY SnapshotAssumption DEF SnapshotAssumption, Shapes, InTx, Workers
<1>2. tx[w].id <= seq
  BY <1>1 DEF Shapes, Drawn, NoTx
<1>3. pc[w] = "insert" => tx[w].id = 0 /\ tx[w].rows = {}
  BY DEF Shapes, Drawn, NoTx
<1>4. pc[w] = "commit" => tx[w].rows = LevelsOf(tx[w].id, book[w])
  BY <1>1 DEF Shapes
<1> DEFINE t == Pending(w)
<1>5. /\ t.id = tx[w].id /\ t.rows = tx[w].rows /\ t.book = book[w]
      /\ t \in [id : Nat, rows : Rows, book : Books]
  BY <1>1 DEF Pending
<1> HIDE DEF t
<1>6. CASE pc[w] = "commit"
  <2>1. w \notin TickerWorkers
    BY <1>1, <1>6
  <2> QED BY <1>1, <1>2, <1>4, <1>5, <1>6, <2>1 DEF Deciding, t
<1>7. CASE pc[w] = "insert"
  <2>1. w \notin BookWorkers
    BY <1>1, <1>7
  <2> QED BY <1>1, <1>2, <1>3, <1>5, <1>7, <2>1 DEF Deciding, t
<1> QED BY <1>6, <1>7

(* A commit stores a snapshot with exactly its levels, or a ticker.        *)
LEMMA LandsWhole ==
  ASSUME Holdings, NEW t, Deciding(t), Land(t), limbo' \subseteq limbo,
         seq \in Nat, seq' \in Nat, seq <= seq'
  PROVE  Holdings'
<1>1. t.book.by \in BookWorkers \/ t.book.by \in TickerWorkers
  BY DEF Deciding, Books, Workers
<1>2. CASE t.book.by \in TickerWorkers
  <2>1. /\ tickers' = Append(tickers, t.book) /\ t.book \in Books
        /\ UNCHANGED <<snapshots, levels>>
    BY <1>2 DEF Deciding, Land, LandTicker
  <2>2. tickers \in Seq(Books) /\ \A i \in DOMAIN tickers : tickers[i].by \in TickerWorkers
    BY DEF Holdings
  <2>3. tickers' \in Seq(Books) /\ \A i \in DOMAIN tickers' : tickers'[i].by \in TickerWorkers
    <3>1. /\ tickers' \in Seq(Books) /\ DOMAIN tickers = 1 .. Len(tickers)
          /\ DOMAIN tickers' = 1 .. Len(tickers) + 1 /\ Len(tickers) \in Nat
          /\ tickers'[Len(tickers) + 1] = t.book
          /\ \A i \in 1 .. Len(tickers) : tickers'[i] = tickers[i]
      BY <2>1, <2>2
    <3>2. \A i \in DOMAIN tickers' : i \in DOMAIN tickers \/ i = Len(tickers) + 1
      BY <3>1
    <3> QED BY <1>2, <2>2, <3>1, <3>2
  <2> QED BY <2>1, <2>3 DEF Holdings
<1>3. CASE t.book.by \notin TickerWorkers
  <2> DEFINE s == [id |-> t.id, book |-> t.book]
  <2>1. /\ s \in [id : Nat, book : Books] /\ s.book.by \in BookWorkers
        /\ t.rows = LevelsOf(s.id, s.book)
    BY <1>1, <1>3 DEF Deciding
  <2>2. snapshots' = snapshots \cup {s} /\ levels' = levels \cup t.rows
        /\ UNCHANGED tickers
    BY <1>3 DEF Land, LandBook
  <2> HIDE DEF s
  <2>3. levels' = UNION {LevelsOf(r.id, r.book) : r \in snapshots'}
    BY <2>1, <2>2 DEF Holdings
  <2> QED BY <2>1, <2>2, <2>3 DEF Holdings
<1> QED BY <1>2, <1>3

(* The tables hold whole books whatever is decided, and whenever.          *)
LEMMA StepHoldings == Shapes /\ Holdings /\ [Next]_vars => Holdings'
<1> SUFFICES ASSUME Shapes, Holdings, [Next]_vars PROVE Holdings'
  OBVIOUS
<1>0. seq \in Nat
  BY DEF Shapes
<1>1. CASE UNCHANGED <<database, limbo>> /\ seq' \in {seq, seq + 1}
  BY <1>0, <1>1 DEF Holdings, database
<1>2. ASSUME NEW w \in Workers, FetchBook(w) \/ FetchTicker(w) \/ FetchFails(w)
                                 \/ Acquire(w) \/ AcquireFails(w)
      PROVE  Holdings'
  BY <1>1, <1>2
     DEF FetchBook, FetchTicker, Fetch, FetchFails, Acquire, AcquireFails, vars
<1>3. ASSUME NEW w \in Workers, InsertSnapshot(w) \/ CopyLevels(w) \/ TxFails(w)
      PROVE  Holdings'
  BY <1>1, <1>3 DEF InsertSnapshot, CopyLevels, TxFails
<1>4. ASSUME NEW w \in Workers, Stored(w) PROVE Holdings'
  BY <1>0, <1>4, SentWhole, LandsWhole DEF Stored
<1>5. ASSUME NEW w \in Workers, StoreLost(w) PROVE Holdings'
  <2>1. Deciding(Pending(w)) /\ Pending(w) \in [id : Nat, rows : Rows, book : Books]
    BY <1>5, SentWhole DEF StoreLost
  <2> QED BY <1>0, <1>5, <2>1 DEF StoreLost, Holdings, Deciding, database
<1>6. ASSUME NEW t \in limbo, LimboLands(t) PROVE Holdings'
  <2>1. Deciding(t)
    BY DEF Holdings, Deciding
  <2> QED BY <1>0, <1>6, <2>1, LandsWhole DEF LimboLands
<1>7. ASSUME NEW t \in limbo, LimboAborts(t) PROVE Holdings'
  BY <1>0, <1>7 DEF LimboAborts, Holdings, database
<1>8. CASE Crash
  <2> DEFINE sent == {Pending(w) : w \in {v \in Workers : pc[v] \in {"commit", "insert"}}}
  <2>1. \A t \in sent : Deciding(t) /\ t \in [id : Nat, rows : Rows, book : Books]
    BY SentWhole
  <2>2. limbo' = limbo \cup sent /\ UNCHANGED <<seq, database>>
    BY <1>8 DEF Crash
  <2> HIDE DEF sent
  <2> QED BY <1>0, <2>1, <2>2 DEF Holdings, Deciding, database
<1>9. CASE Signal \/ Exit \/ Restart \/ UNCHANGED vars
  BY <1>1, <1>9 DEF Signal, Exit, Restart, vars
<1> QED
  BY <1>2, <1>3, <1>4, <1>5, <1>6, <1>7, <1>8, <1>9 DEF Next, WorkerStep

-----------------------------------------------------------------------------
(* What a step may do to the order of ids: the books that are stored, or   *)
(* may be, were so before or belong to a worker that committed and left;   *)
(* and ids are drawn one at a time.                                        *)
ItemOf(r, w) ==
  /\ w \in BookWorkers /\ pc[w] = "commit" /\ pc'[w] = "idle"
  /\ r.id = tx[w].id /\ r.book = book[w]

Known(r) == \E q \in Items : q.id = r.id /\ q.book = r.book

Draws(w) == tx'[w].id = seq + 1 /\ seq' = seq + 1 /\ pc[w] # "idle"

Keeps(w) == pc[w] \in Drawn /\ tx'[w].id = tx[w].id

LEMMA OrderKept ==
  ASSUME Shapes, Shapes', Holdings, Holdings', Ordered, seq <= seq',
         \A r \in Items' : Known(r) \/ \E w \in BookWorkers : ItemOf(r, w),
         \A w \in Workers :
           /\ fetched[w] <= fetched'[w]
           /\ pc'[w] # "idle" => pc[w] # "idle" \/ fetched[w] < fetched'[w],
         \A w \in BookWorkers : pc'[w] \in Drawn => Keeps(w) \/ Draws(w),
         \A v, w \in BookWorkers :
           pc'[v] \in Drawn /\ Draws(v) /\ pc'[w] \in Drawn /\ Draws(w) => v = w
  PROVE  Ordered'
<1>0. /\ seq \in Nat /\ seq' \in Nat
      /\ \A w \in Workers : fetched[w] \in Nat /\ fetched'[w] \in Nat
      /\ \A w \in Workers : tx[w].id \in Nat /\ tx'[w].id \in Nat
      /\ \A w \in Workers : book[w] \in Books /\ book[w].by = w /\ book[w].fetch = fetched[w]
      /\ \A w \in Workers : pc[w] \in Drawn => tx[w].id \in 1 .. seq
      /\ BookWorkers \subseteq Workers
  BY DEF Shapes, Workers
<1>1. /\ \A r \in Items : r.id \in Nat /\ r.book \in Books /\ r.book.by \in BookWorkers
      /\ \A r \in Items' : r.id \in Nat /\ r.book \in Books /\ r.book.by \in BookWorkers
  BY DEF Holdings, Items
<1>2. \A b \in Books : b.fetch \in Nat
  BY DEF Books
<1>3. ASSUME NEW r \in Items'
      PROVE  /\ r.id \in 1 .. seq'
             /\ r.book.fetch <= fetched'[r.book.by]
             /\ pc'[r.book.by] # "idle" => r.book.fetch < fetched'[r.book.by]
  <2>1. CASE Known(r)
    BY <1>0, <1>1, <1>2, <2>1 DEF Known, Ordered
  <2>2. ASSUME NEW w \in BookWorkers, ItemOf(r, w)
        PROVE  /\ r.id \in 1 .. seq' /\ r.book.by = w
               /\ r.book.fetch <= fetched'[w] /\ pc'[w] = "idle"
    BY <1>0, <1>1, <1>2, <2>2 DEF ItemOf, Drawn
  <2> QED BY <1>3, <2>1, <2>2
<1>4. ASSUME NEW r \in Items', NEW q \in Items'
      PROVE  /\ r.id = q.id <=> r.book = q.book
             /\ r.book.by = q.book.by /\ r.id < q.id => r.book.fetch < q.book.fetch
  <2>1. CASE Known(r) /\ Known(q)
    BY <1>0, <1>1, <1>2, <2>1 DEF Known, Ordered
  <2>2. ASSUME NEW w \in BookWorkers, ItemOf(r, w), Known(q)
        PROVE  /\ r.id # q.id /\ r.book # q.book
               /\ r.book.by = q.book.by => q.id < r.id /\ q.book.fetch < r.book.fetch
    BY <1>0, <1>1, <1>2, <2>2 DEF Known, ItemOf, Ordered, Drawn
  <2>3. ASSUME NEW w \in BookWorkers, ItemOf(q, w), Known(r)
        PROVE  /\ r.id # q.id /\ r.book # q.book
               /\ r.book.by = q.book.by => r.id < q.id /\ r.book.fetch < q.book.fetch
    BY <1>0, <1>1, <1>2, <2>3 DEF Known, ItemOf, Ordered, Drawn
  <2>4. ASSUME NEW v \in BookWorkers, NEW w \in BookWorkers, ItemOf(r, v), ItemOf(q, w)
        PROVE  /\ r.id = q.id <=> r.book = q.book
               /\ r.book.by = q.book.by => r.id = q.id
    BY <1>0, <2>4 DEF ItemOf, Ordered, Drawn
  <2> QED BY <1>1, <1>2, <1>4, <2>1, <2>2, <2>3, <2>4
<1>5. ASSUME NEW w \in BookWorkers, pc'[w] \in Drawn
      PROVE  /\ \A r \in Items' :
                  r.id # tx'[w].id /\ (r.book.by = w => r.id < tx'[w].id)
             /\ \A v \in BookWorkers :
                  pc'[v] \in Drawn /\ tx'[v].id = tx'[w].id => v = w
  <2>1. ASSUME NEW r \in Items', Known(r)
        PROVE  r.id # tx'[w].id /\ (r.book.by = w => r.id < tx'[w].id)
    BY <1>0, <1>1, <1>5, <2>1 DEF Known, Ordered, Keeps, Draws
  <2>2. ASSUME NEW r \in Items', NEW v \in BookWorkers, ItemOf(r, v)
        PROVE  r.id # tx'[w].id /\ r.book.by # w
    BY <1>0, <1>1, <1>5, <2>2 DEF ItemOf, Ordered, Keeps, Draws, Drawn
  <2>3. ASSUME NEW v \in BookWorkers, pc'[v] \in Drawn, tx'[v].id = tx'[w].id
        PROVE  v = w
    BY <1>0, <1>5, <2>3 DEF Ordered, Keeps, Draws
  <2> QED BY <1>5, <2>1, <2>2, <2>3
<1> QED BY <1>3, <1>4, <1>5 DEF Ordered

(* A book keeps its place in the order wherever it waits, and whichever    *)
(* worker, or none, is left to hear of it.                                 *)
LEMMA StepOrdered ==
  ASSUME Shapes, Shapes', Holdings, Holdings', Ordered, [Next]_vars
  PROVE  Ordered'
<1>0. /\ seq \in Nat
      /\ \A w \in Workers : fetched[w] \in Nat
      /\ pc \in [Workers -> {"idle", "acquire"} \cup Connected]
      /\ tx \in [Workers -> [id : Nat, rows : Rows]]
      /\ fetched \in [Workers -> Nat]
      /\ BookWorkers \subseteq Workers
  BY DEF Shapes, Workers
<1>1. \A r \in Items : Known(r)
  BY DEF Known
<1> USE <1>0 DEF Goto, Connected, InTx, process, worker, database
<1>2. ASSUME UNCHANGED <<database, limbo>> PROVE \A r \in Items' : Known(r)
  BY <1>1, <1>2 DEF Items
<1>3. ASSUME \A r \in Items' : Known(r) \/ \E w \in BookWorkers : ItemOf(r, w),
             seq' = seq, fetched' = fetched,
             \A w \in Workers : /\ pc'[w] # "idle" => pc[w] # "idle"
                                /\ pc'[w] \in Drawn => Keeps(w)
      PROVE  Ordered'
  <2>1. \A w \in Workers : ~Draws(w)
    BY <1>3 DEF Draws
  <2>2. seq <= seq'
    BY <1>3
  <2>3. \A w \in Workers :
          /\ fetched[w] <= fetched'[w]
          /\ pc'[w] # "idle" => pc[w] # "idle" \/ fetched[w] < fetched'[w]
    BY <1>3
  <2>4. \A w \in BookWorkers : pc'[w] \in Drawn => Keeps(w) \/ Draws(w)
    BY <1>3, Zenon
  <2>5. \A v, w \in BookWorkers :
          pc'[v] \in Drawn /\ Draws(v) /\ pc'[w] \in Drawn /\ Draws(w) => v = w
    BY <2>1
  <2> QED BY <1>3, <2>2, <2>3, <2>4, <2>5, OrderKept, Zenon
<1>4. ASSUME NEW w \in Workers, FetchBook(w) \/ FetchTicker(w) PROVE Ordered'
  <2>1. /\ seq' = seq /\ tx' = tx /\ UNCHANGED <<database, limbo>>
        /\ fetched' = [fetched EXCEPT ![w] = @ + 1]
        /\ pc' = [pc EXCEPT ![w] = "acquire"]
    BY <1>4 DEF FetchBook, FetchTicker, Fetch
  <2> QED BY <1>2, <2>1, OrderKept DEF Keeps, Draws, Drawn
<1>5. ASSUME NEW w \in Workers, Acquire(w) \/ AcquireFails(w) \/ CopyLevels(w)
      PROVE  Ordered'
  BY <1>2, <1>3, <1>5 DEF Acquire, AcquireFails, CopyLevels, Keeps, Drawn
<1>6. ASSUME NEW w \in Workers, InsertSnapshot(w) PROVE Ordered'
  <2>1. /\ pc[w] = "snapshot" /\ seq' = seq + 1 /\ fetched' = fetched
        /\ tx' = [tx EXCEPT ![w] = [id |-> seq + 1, rows |-> {}]]
        /\ \E l \in Drawn : pc' = [pc EXCEPT ![w] = l]
        /\ UNCHANGED <<database, limbo>>
    BY <1>6 DEF InsertSnapshot, Drawn
  <2>2. \A v \in Workers \ {w} : tx'[v] = tx[v] /\ pc'[v] = pc[v]
    BY <2>1
  <2>3. Draws(w) /\ pc'[w] # "idle"
    BY <2>1 DEF Draws, Drawn
  <2>4. \A v \in Workers : pc'[v] \in Drawn => Keeps(v) \/ v = w
    BY <2>2 DEF Keeps
  <2>5. \A v \in BookWorkers : pc'[v] \in Drawn /\ Draws(v) => v = w
    BY <2>1, <2>2 DEF Draws, Shapes, Drawn
  <2>6. \A v \in Workers : pc'[v] # "idle" => pc[v] # "idle"
    BY <2>1, <2>2
  <2> QED BY <1>2, <2>1, <2>3, <2>4, <2>5, <2>6, OrderKept
<1>7. ASSUME NEW w \in Workers, TxFails(w) PROVE Ordered'
  <2>1. /\ seq <= seq' /\ fetched' = fetched /\ pc' = [pc EXCEPT ![w] = "idle"]
        /\ tx' = [tx EXCEPT ![w] = NoTx] /\ UNCHANGED <<database, limbo>>
    BY <1>7 DEF TxFails, Leave
  <2>2. \A v \in Workers : /\ pc'[v] # "idle" => pc[v] # "idle"
                           /\ pc'[v] \in Drawn => Keeps(v)
    BY <2>1 DEF Keeps, Drawn
  <2>3. \A v \in BookWorkers : pc'[v] \in Drawn => ~Draws(v)
    BY <2>1, <2>2 DEF Keeps, Draws, Shapes
  <2> QED BY <1>2, <2>1, <2>2, <2>3, OrderKept
<1>8. ASSUME NEW w \in Workers, Stored(w) \/ StoreLost(w) PROVE Ordered'
  <2>1. /\ Pending(w).id = tx[w].id /\ Pending(w).book = book[w] /\ book[w].by = w
        /\ pc[w] = "commit" <=> w \in BookWorkers
    BY <1>8, SentWhole DEF Stored, StoreLost, Shapes
  <2>2. /\ seq' = seq /\ fetched' = fetched
        /\ pc' = [pc EXCEPT ![w] = "idle"] /\ tx' = [tx EXCEPT ![w] = NoTx]
    BY <1>8 DEF Stored, StoreLost, Leave
  <2>3. ASSUME NEW r \in Items', ~Known(r) PROVE w \in BookWorkers /\ ItemOf(r, w)
    <3>1. /\ r.book.by \in BookWorkers
          /\ r = Pending(w) \/ r = [id |-> Pending(w).id, book |-> Pending(w).book]
      BY <1>1, <1>8, <2>3
         DEF Stored, StoreLost, Land, LandBook, LandTicker, Items, Holdings
    <3> QED BY <2>1, <2>2, <3>1 DEF ItemOf
  <2>4. \A v \in Workers : /\ pc'[v] # "idle" => pc[v] # "idle"
                           /\ pc'[v] \in Drawn => Keeps(v)
    BY <2>2 DEF Keeps, Drawn
  <2> QED BY <1>3, <2>2, <2>3, <2>4
<1>9. ASSUME NEW t \in limbo, LimboLands(t) \/ LimboAborts(t) PROVE Ordered'
  <2>1. \A r \in Items' : Known(r)
    <3>1. ASSUME NEW r \in Items', r \notin Items
          PROVE  t \in Items /\ r.id = t.id /\ r.book = t.book
      BY <1>9, <3>1, SnapshotAssumption
         DEF LimboLands, LimboAborts, Land, LandBook, LandTicker, Items, Holdings, Books,
             Workers, SnapshotAssumption
    <3> QED BY <1>1, <3>1 DEF Known
  <2> QED BY <1>3, <1>9, <2>1 DEF LimboLands, LimboAborts, Keeps
<1>10. CASE Crash
  <2>1. /\ seq' = seq /\ fetched' = fetched /\ pc' = [w \in Workers |-> "idle"]
        /\ UNCHANGED database
        /\ limbo' = limbo \cup {Pending(w) : w \in {v \in Workers :
                                          pc[v] \in {"commit", "insert"}}}
    BY <1>10 DEF Crash
  <2>2. ASSUME NEW r \in Items', ~Known(r) PROVE \E w \in BookWorkers : ItemOf(r, w)
    <3>1. PICK w \in Workers : /\ pc[w] \in {"commit", "insert"}
                               /\ r = Pending(w) /\ r.book.by \in BookWorkers
      BY <1>1, <2>1, <2>2 DEF Items
    <3>2. /\ r.id = tx[w].id /\ r.book = book[w] /\ book[w].by = w
          /\ pc[w] = "commit" <=> w \in BookWorkers
      BY <3>1, SentWhole DEF Shapes
    <3>3. w \in BookWorkers /\ pc[w] = "commit" /\ pc'[w] = "idle"
      BY <2>1, <3>1, <3>2
    <3> QED BY <3>2, <3>3, Zenon DEF ItemOf
  <2> QED BY <1>3, <2>1, <2>2 DEF Drawn
<1>11. CASE UNCHANGED vars
  BY <1>2, <1>3, <1>11 DEF vars, Keeps
<1>12. ASSUME NEW w \in Workers, FetchFails(w) PROVE Ordered'
  BY <1>11, <1>12 DEF FetchFails
<1>13. CASE Signal \/ Exit \/ Restart
  BY <1>2, <1>3, <1>13 DEF Signal, Exit, Restart, Keeps
<1> QED
  BY <1>4, <1>5, <1>6, <1>7, <1>8, <1>9, <1>10, <1>11, <1>12, <1>13
     DEF Next, WorkerStep

-----------------------------------------------------------------------------
(* The ticker of a worker at its INSERT, which then rests.                 *)
TickerOf(b, w) ==
  w \in TickerWorkers /\ pc[w] = "insert" /\ pc'[w] = "idle" /\ b = book[w]

(* What a step may do to the tickers: some become late, or one arrives     *)
(* that was late and is no more, or that its worker has just sent.         *)
LEMMA ApartKept ==
  ASSUME Shapes, Shapes', Holdings, Holdings', Apart,
         \A w \in Workers :
           /\ fetched[w] <= fetched'[w]
           /\ pc'[w] # "idle" => pc[w] # "idle" \/ fetched[w] < fetched'[w],
         \/ /\ tickers' = tickers
            /\ \A t \in Late' : t \in Late \/ \E w \in TickerWorkers : TickerOf(t.book, w)
         \/ /\ Late' \subseteq Late
            /\ \E b \in Books :
                 /\ b.by \in TickerWorkers
                 /\ tickers' = Append(tickers, b)
                 /\ \/ \E w \in TickerWorkers : TickerOf(b, w)
                    \/ \E t \in Late : t.book = b /\ t \notin Late'
  PROVE  Apart'
<1>0. /\ \A w \in Workers : fetched[w] \in Nat /\ fetched'[w] \in Nat
      /\ \A w \in Workers : book[w] \in Books /\ book[w].by = w /\ book[w].fetch = fetched[w]
      /\ TickerWorkers \subseteq Workers
      /\ \A b \in Books : b.fetch \in Nat /\ b.by \in Workers
  BY DEF Shapes, Workers, Books
<1>1. /\ tickers \in Seq(Books)
      /\ \A i \in DOMAIN tickers : tickers[i] \in Books /\ tickers[i].by \in TickerWorkers
      /\ \A t \in Late : t.book \in Books /\ t.book.by \in TickerWorkers
      /\ \A t, u \in Late : t.book = u.book => t = u
  <2>1. \A t \in Late : /\ t \in [id : Nat, rows : Rows, book : Books]
                        /\ t.book.by \in TickerWorkers /\ t.id = 0 /\ t.rows = {}
    BY DEF Holdings, Late
  <2>2. \A t, u \in Late : t.book = u.book => t = u
    BY <2>1
  <2>3. tickers \in Seq(Books) /\ \A i \in DOMAIN tickers : tickers[i] \in Books
    BY DEF Holdings
  <2> QED BY <2>1, <2>2, <2>3 DEF Holdings
<1>2. ASSUME NEW b \in Books, b.by \in TickerWorkers, b.fetch <= fetched[b.by],
             pc[b.by] # "idle" => b.fetch < fetched[b.by]
      PROVE  /\ b.fetch <= fetched'[b.by]
             /\ pc'[b.by] # "idle" => b.fetch < fetched'[b.by]
  BY <1>0, <1>2
<1>3. ASSUME NEW b, NEW w \in TickerWorkers, TickerOf(b, w)
      PROVE  /\ b \in Books /\ b.by = w /\ b.fetch <= fetched'[b.by] /\ pc'[b.by] = "idle"
             /\ \A i \in DOMAIN tickers : tickers[i] # b
             /\ \A t \in Late : t.book # b
  BY <1>0, <1>1, <1>3 DEF TickerOf, Apart
<1>4. CASE /\ tickers' = tickers
           /\ \A t \in Late' : t \in Late \/ \E w \in TickerWorkers : TickerOf(t.book, w)
  <2>1. ASSUME NEW t \in Late'
        PROVE  /\ t.book.fetch <= fetched'[t.book.by]
               /\ pc'[t.book.by] # "idle" => t.book.fetch < fetched'[t.book.by]
               /\ \A i \in DOMAIN tickers : tickers[i] # t.book
    <3>1. CASE t \in Late BY <1>1, <1>2, <3>1 DEF Apart
    <3>2. ASSUME NEW w \in TickerWorkers, TickerOf(t.book, w)
          PROVE  /\ t.book.fetch <= fetched'[t.book.by] /\ pc'[t.book.by] = "idle"
                 /\ \A i \in DOMAIN tickers : tickers[i] # t.book
      BY <1>3, <3>2
    <3> QED BY <1>4, <3>1, <3>2
  <2>2. ASSUME NEW i \in DOMAIN tickers
        PROVE  /\ tickers[i].fetch <= fetched'[tickers[i].by]
               /\ pc'[tickers[i].by] # "idle" => tickers[i].fetch < fetched'[tickers[i].by]
    BY <1>1, <1>2 DEF Apart
  <2> QED BY <1>4, <2>1, <2>2 DEF Apart
<1>5. ASSUME Late' \subseteq Late, NEW b \in Books, b.by \in TickerWorkers,
             tickers' = Append(tickers, b),
             \/ \E w \in TickerWorkers : TickerOf(b, w)
             \/ \E t \in Late : t.book = b /\ t \notin Late'
      PROVE  Apart'
  <2>1. /\ b.fetch <= fetched'[b.by]
        /\ pc'[b.by] # "idle" => b.fetch < fetched'[b.by]
        /\ \A i \in DOMAIN tickers : tickers[i] # b
        /\ \A t \in Late' : t.book # b
    <3>1. ASSUME NEW w \in TickerWorkers, TickerOf(b, w)
          PROVE  /\ b.fetch <= fetched'[b.by] /\ pc'[b.by] = "idle"
                 /\ \A i \in DOMAIN tickers : tickers[i] # b
                 /\ \A t \in Late' : t.book # b
      BY <1>3, <1>5, <3>1
    <3>2. ASSUME NEW t \in Late, t.book = b, t \notin Late'
          PROVE  /\ b.fetch <= fetched'[b.by]
                 /\ pc'[b.by] # "idle" => b.fetch < fetched'[b.by]
                 /\ \A i \in DOMAIN tickers : tickers[i] # b
                 /\ \A u \in Late' : u.book # b
      BY <1>1, <1>2, <1>5, <3>2 DEF Apart
    <3> QED BY <1>5, <3>1, <3>2
  <2>2. DOMAIN tickers' = 1 .. Len(tickers) + 1 /\ DOMAIN tickers = 1 .. Len(tickers)
        /\ Len(tickers) \in Nat
    BY <1>1, <1>5
  <2>3. \A i \in DOMAIN tickers' :
          tickers'[i] = IF i \in DOMAIN tickers THEN tickers[i] ELSE b
    BY <1>1, <1>5
  <2>4. \A i \in DOMAIN tickers' : i \in DOMAIN tickers \/ i = Len(tickers) + 1
    BY <2>2
  <2>5. \A i, j \in DOMAIN tickers' : tickers'[i] = tickers'[j] => i = j
    BY <2>1, <2>3, <2>4 DEF Apart
  <2>6. ASSUME NEW i \in DOMAIN tickers
        PROVE  /\ tickers[i].fetch <= fetched'[tickers[i].by]
               /\ pc'[tickers[i].by] # "idle" => tickers[i].fetch < fetched'[tickers[i].by]
               /\ \A t \in Late' : tickers[i] # t.book
    BY <1>1, <1>2, <1>5 DEF Apart
  <2>7. ASSUME NEW t \in Late'
        PROVE  /\ t.book.fetch <= fetched'[t.book.by]
               /\ pc'[t.book.by] # "idle" => t.book.fetch < fetched'[t.book.by]
    BY <1>1, <1>2, <1>5 DEF Apart
  <2>8. \A i \in DOMAIN tickers' :
          /\ tickers'[i].fetch <= fetched'[tickers'[i].by]
          /\ pc'[tickers'[i].by] # "idle" => tickers'[i].fetch < fetched'[tickers'[i].by]
          /\ \A t \in Late' : tickers'[i] # t.book
    BY <2>1, <2>3, <2>6
  <2> QED BY <2>5, <2>7, <2>8 DEF Apart
<1> QED BY <1>4, <1>5

(* A ticker whose answer was lost is late once, and its worker fetches     *)
(* anew before it stores again.                                            *)
LEMMA StepApart ==
  ASSUME Shapes, Shapes', Holdings, Holdings', Apart, [Next]_vars
  PROVE  Apart'
<1>0. /\ pc \in [Workers -> {"idle", "acquire"} \cup Connected]
      /\ fetched \in [Workers -> Nat]
      /\ \A w \in Workers : fetched[w] \in Nat
  BY DEF Shapes
<1> USE <1>0 DEF Goto, Connected, InTx, process, worker, database
<1>1. ASSUME \A w \in Workers :
               /\ fetched[w] <= fetched'[w]
               /\ pc'[w] # "idle" => pc[w] # "idle" \/ fetched[w] < fetched'[w],
             UNCHANGED tickers,
             \A t \in Late' : t \in Late \/ \E w \in TickerWorkers : TickerOf(t.book, w)
      PROVE  Apart'
  BY <1>1, ApartKept, Zenon
<1>2. ASSUME \A w \in Workers :
               /\ fetched[w] <= fetched'[w]
               /\ pc'[w] # "idle" => pc[w] # "idle" \/ fetched[w] < fetched'[w],
             UNCHANGED <<tickers, limbo>>
      PROVE  Apart'
  BY <1>1, <1>2 DEF Late
<1>3. ASSUME NEW w \in Workers, FetchBook(w) \/ FetchTicker(w) PROVE Apart'
  BY <1>2, <1>3 DEF FetchBook, FetchTicker, Fetch
<1>4. ASSUME NEW w \in Workers, Acquire(w) \/ AcquireFails(w) \/ CopyLevels(w)
                                 \/ InsertSnapshot(w)
      PROVE  Apart'
  BY <1>2, <1>4 DEF Acquire, AcquireFails, CopyLevels, InsertSnapshot
<1>5. ASSUME NEW w \in Workers, TxFails(w) PROVE Apart'
  BY <1>2, <1>5 DEF TxFails, Leave
<1>6. ASSUME NEW w \in Workers, Stored(w) \/ StoreLost(w) PROVE Apart'
  <2>1. /\ Pending(w).book = book[w] /\ book[w].by = w /\ book[w] \in Books
        /\ w \in TickerWorkers => pc[w] = "insert"
    BY <1>6, SentWhole, SnapshotAssumption
       DEF Stored, StoreLost, Shapes, Workers, SnapshotAssumption
  <2>2. /\ fetched' = fetched /\ pc' = [pc EXCEPT ![w] = "idle"]
    BY <1>6 DEF Stored, StoreLost, Leave
  <2>3. \A v \in Workers :
          /\ fetched[v] <= fetched'[v]
          /\ pc'[v] # "idle" => pc[v] # "idle" \/ fetched[v] < fetched'[v]
    BY <2>2
  <2>4. w \in TickerWorkers => TickerOf(book[w], w)
    BY <2>1, <2>2 DEF TickerOf
  <2>5. CASE StoreLost(w)
    <3>1. \A t \in Late' : t \in Late \/ \E v \in TickerWorkers : TickerOf(t.book, v)
      BY <2>1, <2>4, <2>5 DEF StoreLost, Late
    <3> QED BY <1>1, <2>3, <2>5, <3>1 DEF StoreLost
  <2>6. CASE Stored(w) /\ w \notin TickerWorkers
    BY <1>2, <2>1, <2>3, <2>6 DEF Stored, Land, LandBook
  <2>7. CASE Stored(w) /\ w \in TickerWorkers
    <3>1. tickers' = Append(tickers, book[w]) /\ Late' = Late
      BY <2>1, <2>7 DEF Stored, Land, LandTicker, Late
    <3> QED BY <2>1, <2>3, <2>4, <2>7, <3>1, ApartKept
  <2> QED BY <1>6, <2>5, <2>6, <2>7
<1>7. ASSUME NEW t \in limbo, LimboLands(t) \/ LimboAborts(t) PROVE Apart'
  <2>1. /\ Late' \subseteq Late /\ fetched' = fetched /\ pc' = pc
    BY <1>7 DEF LimboLands, LimboAborts, Late
  <2>2. \A v \in Workers :
          /\ fetched[v] <= fetched'[v]
          /\ pc'[v] # "idle" => pc[v] # "idle" \/ fetched[v] < fetched'[v]
    BY <2>1
  <2>3. CASE UNCHANGED tickers
    BY <1>1, <2>1, <2>2, <2>3
  <2>4. CASE LimboLands(t) /\ t.book.by \in TickerWorkers
    <3>1. tickers' = Append(tickers, t.book) /\ t \in Late /\ t \notin Late'
      BY <2>4 DEF LimboLands, Land, LandTicker, Late
    <3>2. t.book \in Books
      BY DEF Holdings
    <3> QED BY <2>1, <2>2, <2>4, <3>1, <3>2, ApartKept
  <2> QED BY <1>7, <2>3, <2>4 DEF LimboLands, LimboAborts, Land, LandBook
<1>8. CASE Crash
  <2>1. /\ fetched' = fetched /\ pc' = [w \in Workers |-> "idle"]
        /\ UNCHANGED tickers
        /\ limbo' = limbo \cup {Pending(w) : w \in {v \in Workers :
                                          pc[v] \in {"commit", "insert"}}}
    BY <1>8 DEF Crash
  <2>2. ASSUME NEW t \in Late', t \notin Late
        PROVE  \E w \in TickerWorkers : TickerOf(t.book, w)
    <3>1. PICK w \in Workers : /\ pc[w] \in {"commit", "insert"}
                               /\ t = Pending(w) /\ t.book.by \in TickerWorkers
      BY <2>1, <2>2 DEF Late
    <3>2. /\ t.book = book[w] /\ book[w].by = w
          /\ pc[w] = "commit" <=> w \in BookWorkers
      BY <3>1, SentWhole DEF Shapes
    <3>3. w \in TickerWorkers /\ w \notin BookWorkers
      BY <3>1, <3>2, SnapshotAssumption DEF SnapshotAssumption
    <3>4. pc[w] = "insert" /\ pc'[w] = "idle"
      BY <2>1, <3>1, <3>2, <3>3
    <3> QED BY <3>2, <3>3, <3>4, Zenon DEF TickerOf
  <2> QED BY <1>1, <2>1, <2>2
<1>9. CASE UNCHANGED vars
  BY <1>2, <1>9 DEF vars
<1>10. ASSUME NEW w \in Workers, FetchFails(w) PROVE Apart'
  BY <1>9, <1>10 DEF FetchFails
<1>11. CASE Signal \/ Exit \/ Restart
  BY <1>2, <1>11 DEF Signal, Exit, Restart
<1> QED
  BY <1>3, <1>4, <1>5, <1>6, <1>7, <1>8, <1>9, <1>10, <1>11 DEF Next, WorkerStep

-----------------------------------------------------------------------------
(* An empty database and a process at rest.                                *)
LEMMA InitIInv == Init => IInv
<1> SUFFICES ASSUME Init PROVE IInv
  OBVIOUS
<1>1. Shapes
  BY FreshBook, SnapshotAssumption
     DEF SnapshotAssumption, Init, Shapes, NoTx, Rows, Drawn, Connected, InTx, Workers
<1>2. Holdings /\ Ordered /\ Apart
  <2>1. /\ limbo = {} /\ snapshots = {} /\ levels = {} /\ tickers = <<>>
        /\ \A w \in Workers : pc[w] = "idle"
    BY DEF Init
  <2>2. Items = {} /\ Late = {}
    BY <2>1 DEF Items, Late
  <2>3. Holdings
    BY <2>1 DEF Holdings
  <2>4. Ordered
    BY <2>1, <2>2 DEF Ordered, Drawn, Workers
  <2>5. Apart
    BY <2>1, <2>2 DEF Apart
  <2> QED BY <2>3, <2>4, <2>5
<1>3. {w \in Workers : pc[w] \in Connected} = {}
  BY DEF Init, Connected, InTx
<1>4. PoolBalanced
  <2>1. free = MaxConns /\ MaxConns \in Nat
    BY SnapshotAssumption DEF Init, SnapshotAssumption
  <2> QED BY <1>3, <2>1, FS_EmptySet DEF PoolBalanced
<1> QED BY <1>1, <1>2, <1>4 DEF IInv

(* Throughout, what is stored and what may be still fit together.          *)
THEOREM Inductive == Spec => []IInv
<1>1. IInv /\ [Next]_vars => IInv'
  BY StepShapes, StepHoldings, StepOrdered, StepApart, StepPool DEF IInv
<1> QED BY <1>1, InitIInv, PTL DEF Spec

(* Every variable keeps its type, and rows carry the id of their snapshot. *)
THEOREM TypeCorrect == Spec => []TypeOK
<1>1. ASSUME IInv PROVE TypeOK
  <2>1. \A w \in Workers : tx[w].id \in 0 .. seq /\ \A r \in tx[w].rows : r[1] = tx[w].id
    BY <1>1, RowsOfBook DEF IInv, Shapes, Drawn, NoTx
  <2>2. \A t \in limbo : t.id \in 0 .. seq /\ \A r \in t.rows : r[1] = t.id
    BY <1>1, RowsOfBook DEF IInv, Shapes, Holdings, Books, Workers
  <2>3. \A t \in limbo : t.book \in Books
    BY <1>1 DEF IInv, Holdings
  <2>4. \A w \in Workers : fetched[w] \in 0 .. MaxFetches[w]
    BY <1>1, SnapshotAssumption DEF IInv, Shapes, SnapshotAssumption, Workers
  <2> QED BY <1>1, <2>1, <2>2, <2>3, <2>4 DEF TypeOK, IInv, Shapes
<1> QED BY <1>1, Inductive, PTL

(* Readers see whole books, for any workers, pool, crashes and late        *)
(* COMMITs (InsertOrderBook's one transaction).                            *)
THEOREM BooksWhole == Spec => []WholeBooks
<1>1. ASSUME IInv PROVE WholeBooks
  <2>1. /\ snapshots \subseteq [id : Nat, book : Books]
        /\ levels = UNION {LevelsOf(s.id, s.book) : s \in snapshots}
        /\ snapshots \subseteq Items
    BY <1>1 DEF IInv, Holdings, Items
  <2>2. \A s, t \in snapshots : s.id = t.id => s = t
    BY <1>1, <2>1 DEF IInv, Ordered
  <2>3. \A s \in snapshots : \A r \in LevelsOf(s.id, s.book) : r[1] = s.id
    BY <2>1, RowsOfBook
  <2>4. \A l \in levels : \E s \in snapshots : l \in LevelsOf(s.id, s.book)
    BY <2>1
  <2>5. \A s \in snapshots : LevelsOf(s.id, s.book) \subseteq levels
    BY <2>1
  <2>6. \A s \in snapshots : {l \in levels : l[1] = s.id} = LevelsOf(s.id, s.book)
    BY <2>2, <2>3, <2>4, <2>5
  <2>7. \A l \in levels : \E s \in snapshots : s.id = l[1]
    BY <2>3, <2>4
  <2> QED BY <2>2, <2>6, <2>7 DEF WholeBooks
<1> QED BY <1>1, Inductive, PTL

(* The snapshot ids of a worker follow its fetches, however late COMMITs   *)
(* are decided: the id is drawn between two fetches.                       *)
THEOREM InOrder == Spec => []BooksInOrder
<1>1. IInv => BooksInOrder
  BY DEF IInv, Ordered, Items, BooksInOrder
<1> QED BY <1>1, Inductive, PTL

(* No book and no ticker is stored twice, also when an answer is lost.     *)
THEOREM OnceOnly == Spec => []StoredOnce
<1>1. IInv => StoredOnce
  BY DEF IInv, Ordered, Apart, Holdings, Items, StoredOnce
<1> QED BY <1>1, Inductive, PTL

(* No path through InsertOrderBook or InsertTicker leaks a connection.     *)
THEOREM PoolConserved == Spec => []PoolBalanced
BY Inductive, PTL DEF IInv
-----------------------------------------------------------------------------
(* SnapshotStore implements BookLog.                                       *)

(* What is in hand or in limbo was fetched.                                *)
Real ==
  /\ \A w \in Workers : pc[w] # "idle" => fetched[w] > 0
  /\ \A t \in limbo : t.book.fetch > 0

LEMMA RealInit == Init => Real
BY DEF Init, Real

LEMMA RealStep ==
  ASSUME Shapes, Real, [Next]_vars
  PROVE  Real'
<1>1. /\ pc \in [Workers -> {"idle", "acquire"} \cup Connected]
      /\ fetched \in [Workers -> Nat]
      /\ \A w \in Workers : book[w].fetch = fetched[w]
  BY DEF Shapes
<1>2. ASSUME NEW w \in Workers, FetchBook(w) \/ FetchTicker(w)  PROVE Real'
  <2>1. PICK bids, asks \in Side : Fetch(w, bids, asks)
    BY <1>2, SnapshotAssumption
       DEF FetchBook, FetchTicker, Side, SnapshotAssumption
  <2> QED BY <1>1, <2>1 DEF Fetch, Goto, Real
<1>3. ASSUME NEW w \in Workers,
             \/ Acquire(w) \/ AcquireFails(w) \/ InsertSnapshot(w)
             \/ CopyLevels(w) \/ TxFails(w) \/ Stored(w)
      PROVE  Real'
  <2>1. /\ UNCHANGED <<fetched, limbo>> /\ pc[w] # "idle"
        /\ \A v \in Workers \ {w} : pc'[v] = pc[v]
    BY <1>1, <1>3 DEF Acquire, AcquireFails, InsertSnapshot, CopyLevels,
       TxFails, Stored, Leave, Goto, InTx
  <2> QED BY <2>1 DEF Real
<1>4. ASSUME NEW w \in Workers, StoreLost(w)  PROVE Real'
  <2>1. /\ UNCHANGED fetched /\ limbo' = limbo \cup {Pending(w)} /\ pc[w] # "idle"
        /\ \A v \in Workers \ {w} : pc'[v] = pc[v]
    BY <1>1, <1>4 DEF StoreLost, Leave, Goto
  <2> QED BY <1>1, <2>1 DEF Real, Pending
<1>5. ASSUME NEW t \in limbo, LimboLands(t) \/ LimboAborts(t)  PROVE Real'
  BY <1>5 DEF LimboLands, LimboAborts, worker, Real
<1>6. ASSUME Crash  PROVE Real'
  <2>1. /\ UNCHANGED fetched /\ \A w \in Workers : pc'[w] = "idle"
        /\ limbo' = limbo \cup {Pending(w) : w \in {v \in Workers :
                                   pc[v] \in {"commit", "insert"}}}
    BY <1>6 DEF Crash
  <2> QED BY <1>1, <2>1 DEF Real, Pending
<1>7. ASSUME \/ Signal \/ Exit \/ Restart \/ UNCHANGED vars
             \/ \E w \in Workers : FetchFails(w)
      PROVE  Real'
  BY <1>7 DEF Signal, Exit, Restart, FetchFails, vars, worker, Real
<1> QED BY <1>2, <1>3, <1>4, <1>5, <1>6, <1>7 DEF Next, WorkerStep

(* Whatever is stored, or will be, was fetched.                            *)
THEOREM NothingInvented == Spec => []Real
<1>1. IInv => Shapes
  BY DEF IInv
<1> QED BY RealInit, RealStep, Inductive, <1>1, PTL DEF Spec

-----------------------------------------------------------------------------
(* A book that lands whole and in its place is a book of the log.          *)
LEMMA BookLands ==
  ASSUME NEW w \in BookWorkers, NEW b \in Books, NEW id \in 1 .. seq,
         seq \in Nat, fetched[w] \in Nat,
         b.by = w, b.fetch \in 1 .. fetched[w], Log!Fits(id, b),
         snapshots' = snapshots \cup {[id |-> id, book |-> b]},
         levels' = levels \cup LevelsOf(id, b),
         UNCHANGED <<tickers, fetched, seq>>
  PROVE  Log!Next
<1>1. b \in Log!Fetched(w)
  BY DEF Log!Fetched, Books
<1>2. Log!StoreBook(id, b)
  BY DEF Log!StoreBook, LevelsOf
<1> QED BY <1>1, <1>2 DEF Log!Next

LEMMA TickerLands ==
  ASSUME NEW w \in TickerWorkers, NEW b \in Books,
         b.by = w, b.fetch \in 1 .. fetched[w], fetched[w] \in Nat,
         \A i \in DOMAIN tickers : tickers[i] # b,
         tickers' = Append(tickers, b),
         UNCHANGED <<snapshots, levels, fetched, seq>>
  PROVE  Log!Next
<1>1. b \in Log!Fetched(w)
  BY DEF Log!Fetched, Books
<1>2. Log!StoreTicker(b)
  BY DEF Log!StoreTicker
<1> QED BY <1>1, <1>2 DEF Log!Next

(* A COMMIT or INSERT that is answered stores what its worker fetched last.*)
LEMMA StoredLands ==
  ASSUME IInv, Real, NEW w \in Workers, Stored(w)
  PROVE  Log!Next
<1>1. /\ Shapes /\ Holdings /\ Ordered /\ Apart
      /\ book[w] \in Books /\ book[w].by = w /\ book[w].fetch = fetched[w]
      /\ fetched[w] \in Nat /\ seq \in Nat
      /\ pc[w] \in {"commit", "insert"} /\ fetched[w] > 0
      /\ Land(Pending(w)) /\ UNCHANGED <<fetched, seq>>
  BY DEF IInv, Shapes, Stored, Leave, Real
<1>2. CASE w \in TickerWorkers
  <2>1. tickers' = Append(tickers, book[w]) /\ UNCHANGED <<snapshots, levels>>
    BY <1>1, <1>2 DEF Land, LandTicker, Pending
  <2>2. \A i \in DOMAIN tickers : tickers[i] # book[w]
    BY <1>1 DEF Apart
  <2> QED BY <1>1, <1>2, <2>1, <2>2, TickerLands
<1>3. CASE w \notin TickerWorkers
  <2>1. w \in BookWorkers /\ pc[w] = "commit"
    BY <1>1, <1>3 DEF Workers, Shapes
  <2>2. /\ tx[w].id \in 1 .. seq /\ tx[w].rows = LevelsOf(tx[w].id, book[w])
    BY <1>1, <2>1 DEF Shapes, Drawn
  <2>3. /\ snapshots' = snapshots \cup {[id |-> tx[w].id, book |-> book[w]]}
        /\ levels' = levels \cup LevelsOf(tx[w].id, book[w])
        /\ UNCHANGED tickers
    BY <1>1, <1>3, <2>2 DEF Land, LandBook, Pending
  <2>4. Log!Fits(tx[w].id, book[w])
    <3>1. ASSUME NEW s \in snapshots
          PROVE  /\ s.id # tx[w].id
                 /\ s.book.by = w => s.id < tx[w].id /\ s.book.fetch < fetched[w]
      BY <1>1, <2>1 DEF Ordered, Items, Drawn
    <3>2. \A s \in snapshots : s.id \in Nat /\ s.book.fetch \in Nat
      BY <1>1 DEF Holdings, Books
    <3> QED BY <1>1, <3>1, <3>2 DEF Log!Fits
  <2> QED BY <1>1, <2>1, <2>2, <2>3, <2>4, BookLands
<1> QED BY <1>2, <1>3

(* A late one finds its place too, or was stored before.                   *)
LEMMA LimboLandsLate ==
  ASSUME IInv, Real, NEW t \in limbo, LimboLands(t)
  PROVE  [Log!Next]_(Log!vars)
<1>1. /\ Shapes /\ Holdings /\ Ordered /\ Apart
      /\ t \in [id : Nat, rows : Rows, book : Books] /\ t.book.fetch > 0
      /\ t.book.by \in Workers /\ t.book.fetch \in Nat
      /\ fetched[t.book.by] \in Nat /\ seq \in Nat
      /\ Land(t) /\ UNCHANGED <<fetched, seq>>
  BY DEF IInv, Shapes, Holdings, LimboLands, Real, worker, Books
<1>2. CASE t.book.by \in TickerWorkers
  <2>1. tickers' = Append(tickers, t.book) /\ UNCHANGED <<snapshots, levels>>
    BY <1>1, <1>2 DEF Land, LandTicker
  <2>2. /\ \A i \in DOMAIN tickers : tickers[i] # t.book
        /\ t.book.fetch <= fetched[t.book.by]
    BY <1>1, <1>2 DEF Apart, Late
  <2>3. t.book \in Books /\ t.book.fetch \in 1 .. fetched[t.book.by]
    BY <1>1, <2>2
  <2> QED BY <1>1, <1>2, <2>1, <2>2, <2>3, TickerLands
<1>3. CASE t.book.by \notin TickerWorkers
  <2>1. t.book.by \in BookWorkers /\ t \in Items /\ t.book \in Books
    BY <1>1, <1>3 DEF Workers, Items
  <2>2. /\ t.id \in 1 .. seq /\ t.rows = LevelsOf(t.id, t.book)
        /\ t.book.fetch \in 1 .. fetched[t.book.by]
    BY <1>1, <2>1 DEF Ordered, Holdings
  <2>3. /\ snapshots' = snapshots \cup {[id |-> t.id, book |-> t.book]}
        /\ levels' = levels \cup LevelsOf(t.id, t.book)
        /\ UNCHANGED tickers
    BY <1>1, <1>3, <2>2 DEF Land, LandBook
  <2>4. \A s \in snapshots : /\ s \in Items /\ s.id \in Nat
                             /\ s.book.fetch \in Nat
                             /\ s = [id |-> s.id, book |-> s.book]
    BY <1>1 DEF Holdings, Items, Books
  <2>5. CASE \E s \in snapshots : s.id = t.id
    <3>1. PICK s \in snapshots : s.id = t.id
      BY <2>5
    <3>2. s.book = t.book
      BY <1>1, <2>1, <2>4, <3>1 DEF Ordered
    <3>3. LevelsOf(t.id, t.book) \subseteq levels
      BY <1>1, <3>1, <3>2 DEF Holdings
    <3> QED BY <1>1, <2>3, <2>4, <3>1, <3>2, <3>3 DEF Log!vars
  <2>6. CASE \A s \in snapshots : s.id # t.id
    <3>1. ASSUME NEW s \in snapshots
          PROVE  /\ s.book # t.book
                 /\ s.book.by = t.book.by =>
                      (s.id < t.id <=> s.book.fetch < t.book.fetch)
      BY <1>1, <2>1, <2>4, <2>6 DEF Ordered
    <3>2. Log!Fits(t.id, t.book)
      BY <2>6, <3>1 DEF Log!Fits
    <3> QED BY <1>1, <2>1, <2>2, <2>3, <3>2, BookLands
  <2> QED BY <2>5, <2>6
<1> QED BY <1>2, <1>3

(* Every step stores one book or ticker where it belongs, polls, draws an  *)
(* id, or shows a reader nothing.                                          *)
LEMMA BookLogStep ==
  ASSUME IInv, Real, [Next]_vars
  PROVE  [Log!Next]_(Log!vars)
<1>1. ASSUME NEW w \in Workers, FetchBook(w) \/ FetchTicker(w)  PROVE Log!Next
  <2>1. PICK bids, asks \in Side : Fetch(w, bids, asks)
    BY <1>1, SnapshotAssumption
       DEF FetchBook, FetchTicker, Side, SnapshotAssumption
  <2>2. Log!Poll(w)
    BY <2>1 DEF Fetch, Log!Poll, database
  <2> QED BY <2>2 DEF Log!Next, Log!Workers, Workers
<1>2. ASSUME NEW w \in Workers, InsertSnapshot(w)  PROVE Log!Next
  <2>1. Log!Draw
    BY <1>2 DEF InsertSnapshot, Log!Draw, database
  <2> QED BY <2>1 DEF Log!Next
<1>3. ASSUME NEW w \in Workers, TxFails(w)  PROVE Log!Next \/ UNCHANGED Log!vars
  <2>1. UNCHANGED <<fetched, snapshots, levels, tickers>> /\ seq' \in {seq, seq + 1}
    BY <1>3 DEF TxFails, Leave, database
  <2>2. seq' = seq + 1 => Log!Draw
    BY <2>1 DEF Log!Draw
  <2> QED BY <2>1, <2>2 DEF Log!Next, Log!vars
<1>4. ASSUME NEW w \in Workers,
             \/ FetchFails(w) \/ Acquire(w) \/ AcquireFails(w)
             \/ CopyLevels(w) \/ StoreLost(w)
      PROVE  UNCHANGED Log!vars
  BY <1>4 DEF FetchFails, Acquire, AcquireFails, CopyLevels, StoreLost, Leave,
     vars, worker, database, Log!vars
<1>5. ASSUME NEW t \in limbo, LimboAborts(t)  PROVE UNCHANGED Log!vars
  BY <1>5 DEF LimboAborts, worker, database, Log!vars
<1>6. ASSUME Signal \/ Exit \/ Crash \/ Restart \/ UNCHANGED vars
      PROVE  UNCHANGED Log!vars
  BY <1>6 DEF Signal, Exit, Crash, Restart, vars, worker, database, Log!vars
<1> QED
  BY <1>1, <1>2, <1>3, <1>4, <1>5, <1>6, StoredLands, LimboLandsLate
     DEF Next, WorkerStep

(* The statement-by-statement transaction on a shared pool, its early      *)
(* returns, late COMMITs, crashes and restarts implement a log in which    *)
(* whole books appear one at a time, each in its place.                    *)
THEOREM Implements == Spec => ImplementsBookLog
<1>1. Init => Log!Init
  BY DEF Init, Log!Init, Log!Workers, Workers
<1>2. IInv /\ Real /\ [Next]_vars => [Log!Next]_(Log!vars)
  BY BookLogStep
<1> QED
  BY <1>1, <1>2, Inductive, NothingInvented, PTL
     DEF Spec, ImplementsBookLog, Log!Spec
=============================================================================
