--------------------------- MODULE TradeLogProofs ---------------------------
(* TradeIngest implements TradeLog, for any list of symbols without a      *)
(* repetition, any page size, malformed trades and bounds.                 *)
EXTENDS TradeIngestProofs

(* SYMBOLS names no symbol twice.                                          *)
ListedOnce == \A v, w \in Workers : SymbolOf[v] = SymbolOf[w] => v = w

(* A page reaches no further than Limit ids, counted from its cursor.      *)
InRange(from, ids) ==
  /\ from # Nil => \A i \in ids : from <= i /\ i <= from + Limit - 1
  /\ from = Nil => \A i, j \in ids : j - i <= Limit - 1

(* The transaction in limbo would be committed without a jump.             *)
NoJump(s) ==
  limbo[s].from # Nil \/ mark[s] = Nil \/ \E i \in limbo[s].ids : i <= mark[s] + 1

(* A transaction in limbo is within a page of the mark and does not move   *)
(* it back.                                                                *)
LimboOK(s) ==
  limbo[s] # NoTx =>
    /\ InRange(limbo[s].from, limbo[s].ids)
    /\ gaps[s] = {} => \E i \in limbo[s].ids : i >= mark[s]
    /\ gaps[s] = {} /\ NoJump(s) /\ mark[s] # Nil =>
         \A i \in limbo[s].ids : i <= mark[s] + Limit

(* The mark is the id of a stored trade, and trades are bounded.           *)
MarkStored(s) ==
  /\ mark[s] # Nil => mark[s] \in rows[s]
  /\ head[s] <= MaxTrade

(* A worker's transaction waits for the one in limbo; its page is in       *)
(* range; an acknowledged page ends at the mark.                           *)
TxOK(w) ==
  LET s == SymbolOf[w] IN
  /\ limbo[s] # NoTx => pc[w] \notin {"commit", "committing", "acked"}
  /\ pc[w] \in InTx => InRange(cursor[w], batch[w])
  /\ pc[w] = "acked" => mark[s] \in batch[w] /\ \A i \in batch[w] : i <= mark[s]

(* Without a gap, a cursor is near the mark and a page does not end below  *)
(* it; nor does either fall behind what is in limbo, lest that commit pass *)
(* them.                                                                   *)
NearOK(w) ==
  LET s == SymbolOf[w] IN
  gaps[s] = {} =>
    /\ cursor[w] # Nil => cursor[w] <= mark[s] + 1 /\ mark[s] <= cursor[w] + Limit - 1
    /\ pc[w] \in InTx => \E i \in batch[w] : i >= mark[s]
    /\ limbo[s] # NoTx /\ NoJump(s) => \A i \in limbo[s].ids :
         /\ cursor[w] # Nil => i <= cursor[w] + Limit - 1
         /\ pc[w] \in InTx => \E j \in batch[w] : i <= j

(* CursorNearMark is not inductive: a commit moves the mark to the end of  *)
(* its page, from a worker or from limbo, so pages must be near it too.    *)
LogInv ==
  /\ Inv
  /\ \A s \in Symbols : LimboOK(s) /\ MarkStored(s)
  /\ \A w \in Workers : TxOK(w) /\ NearOK(w)

USE WorkerAssumption, LimitAssumption, MalformedAssumption, BoundAssumption
    DEF Nil

-----------------------------------------------------------------------------
(* The page answered for a cursor reaches no further than Limit ids.       *)
LEMMA PageInRange ==
  ASSUME TypeOK, NEW s \in Symbols, NEW from \in Nat \cup {Nil}
  PROVE  InRange(from, GoodPage(s, from))
<1>1. head[s] \in Int
  BY DEF TypeOK
<1>2. CASE from = Nil
  BY <1>1, <1>2 DEF GoodPage, Page, InRange
<1>3. CASE from # Nil
  <2> DEFINE last == Min({head[s], from + Limit - 1})
  <2>1. last \in Int /\ last <= from + Limit - 1
    <3>1. \E x \in {head[s], from + Limit - 1} :
            \A y \in {head[s], from + Limit - 1} : x <= y
      BY <1>1, <1>3
    <3> QED BY <1>1, <1>3, <3>1 DEF Min
  <2>2. GoodPage(s, from) \subseteq from .. last
    BY <1>3 DEF GoodPage, Page
  <2> HIDE DEF last
  <2> QED BY <1>3, <2>1, <2>2 DEF InRange
<1> QED BY <1>2, <1>3

(* It does not end below a well-formed trade that it could reach.          *)
LEMMA PageReaches ==
  ASSUME TypeOK, NEW s \in Symbols, NEW from \in Nat \cup {Nil},
         GoodPage(s, from) # {},
         NEW i \in Published(s), from # Nil => i <= from + Limit - 1
  PROVE  \E j \in GoodPage(s, from) : i <= j
<1>1. head[s] \in Int /\ i \in 0 .. head[s] /\ i \notin Malformed[s]
  BY DEF TypeOK, Published
<1>2. CASE from = Nil
  BY <1>1, <1>2 DEF GoodPage, Page
<1>3. CASE from # Nil
  <2> DEFINE last == Min({head[s], from + Limit - 1})
  <2>1. last \in {head[s], from + Limit - 1}
    <3>1. \E x \in {head[s], from + Limit - 1} :
            \A y \in {head[s], from + Limit - 1} : x <= y
      BY <1>1, <1>3
    <3> QED BY <1>1, <1>3, <3>1 DEF Min
  <2>2. GoodPage(s, from) = (from .. last) \ Malformed[s]
    BY <1>3 DEF GoodPage, Page
  <2> HIDE DEF last
  <2>3. i <= last /\ last \in Int
    BY <1>1, <1>3, <2>1
  <2> QED BY <1>1, <1>3, <2>2, <2>3
<1> QED BY <1>2, <1>3

(* What the commit of a page does to the mark: it becomes the last id of   *)
(* the page, and no gap is left only if the page did not jump.             *)
LEMMA ApplyMark ==
  ASSUME TypeOK, NEW s \in Symbols, NEW from \in Nat \cup {Nil}, NEW ids,
         ids \subseteq Published(s), ids # {}, Apply(s, from, ids)
  PROVE  /\ mark'[s] \in ids /\ \A i \in ids : i <= mark'[s]
         /\ mark'[s] \in rows'[s]
         /\ gaps[s] \subseteq gaps'[s]
         /\ gaps'[s] = {} =>
              from # Nil \/ mark[s] = Nil \/ \E i \in ids : i <= mark[s] + 1
         /\ \A t \in Symbols \ {s} :
              UNCHANGED <<rows[t], mark[t], floor[t], gaps[t]>>
<1>1. head[s] \in Int /\ ids \subseteq 0 .. head[s] /\ ids \subseteq Nat
  BY DEF TypeOK, Published
<1>2. /\ Max(ids) \in ids /\ \A i \in ids : i <= Max(ids)
      /\ Min(ids) \in ids
  BY <1>1, MaxMinOfIds
<1>3. /\ mark'[s] = Max(ids) /\ rows'[s] = rows[s] \cup ids
      /\ gaps[s] \subseteq gaps'[s]
      /\ \A t \in Symbols \ {s} :
           UNCHANGED <<rows[t], mark[t], floor[t], gaps[t]>>
  BY DEF TypeOK, Apply
<1>4. ASSUME gaps'[s] = {}, from = Nil, mark[s] # Nil
      PROVE  Min(ids) <= mark[s] + 1
  <2>1. mark[s] + 1 .. Min(ids) - 1 = {} /\ mark[s] \in Nat
    BY <1>4 DEF TypeOK, Apply
  <2>2. Min(ids) \in Nat
    BY <1>1, <1>2
  <2>3. CASE mark[s] + 1 < Min(ids)
    <3>1. mark[s] + 1 \in mark[s] + 1 .. Min(ids) - 1
      BY <2>1, <2>2, <2>3
    <3> QED BY <2>1, <3>1
  <2> QED BY <2>1, <2>2, <2>3
<1> QED BY <1>2, <1>3, <1>4

(* With nothing stored and nothing in hand all of it holds.                *)
LEMMA LogInit == Init => LogInv
BY InvInit DEF Init, LogInv, LimboOK, MarkStored, TxOK, NearOK, InTx

(* Cursors, pages, limbo and the mark keep together: no step of a worker,  *)
(* the server or the process takes one of them past another, unless by a   *)
(* jump, which leaves a gap.                                               *)
LEMMA LogStep ==
  ASSUME ListedOnce, LogInv, [Next]_vars
  PROVE  LogInv'
<1> DEFINE Same(s) == UNCHANGED <<rows[s], mark[s], gaps[s], limbo[s]>>
           SymbolGoal(s) == LimboOK(s)' /\ MarkStored(s)'
           WorkerGoal(w) == TxOK(w)' /\ NearOK(w)'
           Others(w) == \A v \in Workers \ {w} :
                          UNCHANGED <<cursor[v], batch[v], pc[v]>>
           Goal == /\ \A s \in Symbols : SymbolGoal(s)
                   /\ \A w \in Workers : WorkerGoal(w)
<1>1. Inv /\ TypeOK /\ TypeOK' /\ Inv'
  BY InvStep DEF LogInv, Inv
<1>2. /\ \A s \in Symbols : LimboOK(s) /\ MarkStored(s) /\ SymbolOK(s)
      /\ \A w \in Workers : TxOK(w) /\ NearOK(w) /\ WorkerOK(w)
  BY DEF LogInv, Inv
<1>3. ASSUME NEW s \in Symbols, Same(s), UNCHANGED head
      PROVE  SymbolGoal(s)
  BY <1>2, <1>3 DEF LimboOK, MarkStored, NoJump
<1>4. ASSUME NEW w \in Workers, Same(SymbolOf[w]),
             UNCHANGED <<cursor[w], batch[w], pc[w]>>
      PROVE  WorkerGoal(w)
  BY <1>2, <1>4 DEF TxOK, NearOK, NoJump
<1>5. ASSUME NEW w \in Workers, Same(SymbolOf[w]), cursor'[w] = cursor[w],
             pc'[w] \notin InTx \cup {"acked"}
      PROVE  WorkerGoal(w)
  BY <1>2, <1>5 DEF TxOK, NearOK, NoJump, InTx
<1>6. ASSUME NEW w \in Workers, UNCHANGED <<head, database>>, Others(w), WorkerGoal(w)
      PROVE  Goal
  <2>1. \A s \in Symbols : Same(s)
    BY <1>6 DEF database
  <2> QED BY <1>1, <1>3, <1>4, <1>6, <2>1 DEF TypeOK
<1>7. ASSUME NEW w \in Workers,
             \/ LoadFails(w) \/ FetchEmpty(w) \/ FetchFails(w) \/ TxFails(w)
             \/ LockTimeout(w) \/ CommitRejected(w) \/ AckLost(w)
             \/ Tick(w) \/ WorkerStops(w)
      PROVE  Goal
  <2>1. UNCHANGED <<head, database>> /\ Others(w)
    BY <1>1, <1>7 DEF LoadFails, FetchEmpty, FetchFails, TxFails, LockTimeout,
       CommitRejected, AckLost, Tick, WorkerStops, TypeOK, Goto, Abandon, database
  <2>2. cursor'[w] = cursor[w] /\ pc'[w] \notin InTx \cup {"acked"}
    BY <1>1, <1>7 DEF LoadFails, FetchEmpty, FetchFails, TxFails, LockTimeout,
       CommitRejected, AckLost, Tick, WorkerStops, TypeOK, Goto, Abandon, InTx
  <2>3. Same(SymbolOf[w])
    BY <2>1 DEF database
  <2> QED BY <1>5, <1>6, <2>1, <2>2, <2>3
<1>8. ASSUME NEW w \in Workers, Load(w)  PROVE Goal
  <2>1. UNCHANGED <<head, database>> /\ Others(w)
    BY <1>1, <1>8 DEF Load, TypeOK, Goto, database
  <2>2. /\ cursor'[w] = Resume(SymbolOf[w]) /\ pc'[w] = "poll"
        /\ Same(SymbolOf[w])
    BY <1>1, <1>8 DEF Load, TypeOK, Goto, database
  <2>3. NearOK(w)'
    <3>1. /\ SymbolOf[w] \in Symbols /\ mark[SymbolOf[w]] \in Nat \cup {Nil}
          /\ limbo[SymbolOf[w]].ids \subseteq Nat
      BY <1>1 DEF TypeOK
    <3>2. CASE mark[SymbolOf[w]] = Nil
      BY <2>2, <3>2 DEF NearOK, InTx, Resume
    <3>3. CASE mark[SymbolOf[w]] # Nil
      <4>1. cursor'[w] = mark[SymbolOf[w]] + 1
        BY <2>2, <3>3 DEF Resume
      <4>2. ASSUME gaps[SymbolOf[w]] = {}, limbo[SymbolOf[w]] # NoTx, NoJump(SymbolOf[w]),
                   NEW i \in limbo[SymbolOf[w]].ids
            PROVE  i <= cursor'[w] + Limit - 1
        BY <1>2, <3>1, <3>3, <4>1, <4>2 DEF LimboOK
      <4> QED BY <2>2, <3>1, <3>3, <4>1, <4>2 DEF NearOK, NoJump, InTx
    <3> QED BY <3>2, <3>3
  <2>4. TxOK(w)'
    BY <2>2 DEF TxOK, InTx
  <2> QED BY <1>6, <2>1, <2>3, <2>4
<1>9. ASSUME NEW w \in Workers, FetchPage(w)  PROVE Goal
  <2> DEFINE s == SymbolOf[w]
             page == GoodPage(s, cursor[w])
  <2>1. UNCHANGED <<head, database>> /\ Others(w)
    BY <1>1, <1>9 DEF FetchPage, TypeOK, Goto, database
  <2>2. /\ batch'[w] = page /\ cursor'[w] = cursor[w] /\ pc'[w] = "insert"
        /\ Same(s) /\ page # {}
    BY <1>1, <1>9 DEF FetchPage, TypeOK, Goto, database
  <2>3. s \in Symbols /\ cursor[w] \in Nat \cup {Nil}
    BY <1>1 DEF TypeOK
  <2>4. TxOK(w)'
    BY <1>1, <2>2, <2>3, PageInRange DEF TxOK
  <2>5. ASSUME gaps[s] = {}  PROVE \E i \in page : i >= mark[s]
    <3>1. CASE mark[s] = Nil
      <4>1. page \subseteq Nat
        BY <1>1, <2>3, PageType DEF Published
      <4> QED BY <2>2, <3>1, <4>1
    <3>2. CASE mark[s] # Nil
      <4>1. /\ mark[s] \in Published(s)
            /\ cursor[w] # Nil => mark[s] <= cursor[w] + Limit - 1
        BY <1>1, <1>2, <2>3, <2>5, <3>2 DEF MarkStored, NearOK, TypeOK
      <4>2. \E i \in page : mark[s] <= i
        BY <1>1, <2>2, <2>3, <4>1, PageReaches
      <4>3. page \subseteq Nat /\ mark[s] \in Nat
        BY <1>1, <2>3, <3>2, PageType DEF Published, TypeOK
      <4> QED BY <4>2, <4>3
    <3> QED BY <3>1, <3>2
  <2>6. ASSUME gaps[s] = {}, limbo[s] # NoTx, NoJump(s), NEW i \in limbo[s].ids
        PROVE  \E j \in page : i <= j
    <3>1. /\ i \in Published(s)
          /\ cursor[w] # Nil => i <= cursor[w] + Limit - 1
      BY <1>1, <1>2, <2>3, <2>6 DEF NearOK, TypeOK
    <3> QED BY <1>1, <2>2, <2>3, <3>1, PageReaches
  <2>7. NearOK(w)'
    <3> HIDE DEF page
    <3> QED BY <1>2, <2>2, <2>5, <2>6 DEF NearOK, NoJump
  <2> QED BY <1>6, <2>1, <2>4, <2>7
<1>10. ASSUME NEW w \in Workers, InsertRows(w) \/ UpsertMark(w) \/ SendCommit(w)
       PROVE  Goal
  <2>1. UNCHANGED <<head, database>> /\ Others(w)
    BY <1>1, <1>10 DEF InsertRows, UpsertMark, SendCommit, TypeOK, Goto, database
  <2>2. /\ UNCHANGED <<cursor[w], batch[w]>> /\ Same(SymbolOf[w])
        /\ pc[w] \in InTx /\ pc'[w] \in InTx
        /\ pc'[w] \in {"commit", "committing"} =>
             pc[w] \in {"commit"} \/ limbo[SymbolOf[w]] = NoTx
    BY <1>1, <1>10 DEF InsertRows, UpsertMark, SendCommit, TypeOK, Goto,
       database, InTx, MarkLocked
  <2>3. TxOK(w)'
    BY <1>2, <2>2 DEF TxOK, InTx
  <2>4. NearOK(w)'
    BY <1>2, <2>2 DEF NearOK, NoJump
  <2> QED BY <1>6, <2>1, <2>3, <2>4
<1>11. ASSUME NEW w \in Workers, Ack(w)  PROVE Goal
  <2> DEFINE s == SymbolOf[w]
  <2>1. UNCHANGED <<head, database>> /\ Others(w)
    BY <1>1, <1>11 DEF Ack, TypeOK, Abandon, Goto, database
  <2>2. /\ cursor'[w] = Max(batch[w]) + 1 /\ pc[w] = "acked" /\ pc'[w] = "idle"
        /\ Same(s)
    BY <1>1, <1>11 DEF Ack, TypeOK, Abandon, Goto, database
  <2>3. /\ limbo[s] = NoTx /\ mark[s] \in batch[w]
        /\ \A i \in batch[w] : i <= mark[s]
    BY <1>2, <2>2 DEF TxOK
  <2>4. /\ s \in Symbols /\ head[s] \in Int /\ batch[w] \subseteq 0 .. head[s]
        /\ mark[s] \in Nat \cup {Nil}
    BY <1>1 DEF TypeOK, Published
  <2>5. Max(batch[w]) = mark[s]
    <3>1. /\ Max(batch[w]) \in batch[w]
          /\ \A i \in batch[w] : i <= Max(batch[w])
      BY <2>3, <2>4, MaxMinOfIds
    <3> QED BY <2>3, <2>4, <3>1
  <2>6. NearOK(w)' /\ TxOK(w)'
    BY <2>2, <2>3, <2>4, <2>5 DEF NearOK, TxOK, InTx
  <2> QED BY <1>6, <2>1, <2>6
<1>12. ASSUME NEW s \in Symbols, NEW from \in Nat \cup {Nil}, NEW ids,
              ids \subseteq Published(s), ids # {}, InRange(from, ids),
              Apply(s, from, ids), limbo'[s] = NoTx, UNCHANGED head
       PROVE  /\ SymbolGoal(s)
              /\ mark'[s] \in ids /\ \A i \in ids : i <= mark'[s]
  <2>1. /\ mark'[s] \in ids /\ \A i \in ids : i <= mark'[s]
        /\ mark'[s] \in rows'[s]
    BY <1>1, <1>12, ApplyMark
  <2> QED BY <1>2, <1>12, <2>1 DEF LimboOK, MarkStored
<1>13. ASSUME NEW w \in Workers, CommitApplied(w)  PROVE Goal
  <2> DEFINE s == SymbolOf[w]
  <2>1. /\ s \in Symbols /\ cursor[w] \in Nat \cup {Nil}
        /\ batch[w] \subseteq Published(s) /\ batch[w] # {}
        /\ InRange(cursor[w], batch[w]) /\ limbo[s] = NoTx
        /\ Apply(s, cursor[w], batch[w])
    BY <1>1, <1>2, <1>13 DEF CommitApplied, TypeOK, TxOK, InTx
  <2>2. /\ UNCHANGED <<cursor, batch, head, limbo>>
        /\ pc'[w] = "acked" /\ \A v \in Workers \ {w} : pc'[v] = pc[v]
    BY <1>1, <1>13 DEF CommitApplied, TypeOK, Goto
  <2>3. /\ SymbolGoal(s)
        /\ mark'[s] \in batch[w] /\ \A i \in batch[w] : i <= mark'[s]
    BY <1>12, <2>1, <2>2
  <2>4. \A t \in Symbols \ {s} : Same(t)
    BY <1>1, <2>1, <2>2, ApplyMark
  <2>5. \A t \in Symbols : SymbolGoal(t)
    BY <1>3, <2>2, <2>3, <2>4
  <2>6. \A v \in Workers \ {w} : WorkerGoal(v)
    BY <1>4, <2>1, <2>2, <2>4 DEF ListedOnce
  <2>7. TxOK(w)'
    BY <2>1, <2>2, <2>3 DEF TxOK, InTx
  <2>8. NearOK(w)'
    <3>1. batch[w] \subseteq Nat
      BY <2>1 DEF Published
    <3> QED BY <2>1, <2>2, <2>3, <3>1 DEF NearOK, InTx, InRange
  <2> QED BY <2>5, <2>6, <2>7, <2>8
<1>14. ASSUME NEW s \in Symbols, LimboCommits(s)  PROVE Goal
  <2> DEFINE ids == limbo[s].ids
  <2>1. /\ limbo[s].from \in Nat \cup {Nil} /\ limbo[s] # NoTx
        /\ ids \subseteq Published(s) /\ ids # {}
        /\ InRange(limbo[s].from, ids)
        /\ Apply(s, limbo[s].from, ids)
    BY <1>1, <1>2, <1>14 DEF LimboCommits, TypeOK, LimboOK
  <2>2. /\ UNCHANGED <<cursor, batch, pc, head>> /\ limbo'[s] = NoTx
        /\ \A t \in Symbols \ {s} : limbo'[t] = limbo[t]
    BY <1>1, <1>14 DEF LimboCommits, TypeOK, worker
  <2> HIDE DEF ids
  <2>3. /\ SymbolGoal(s)
        /\ mark'[s] \in ids /\ \A i \in ids : i <= mark'[s]
    BY <1>12, <2>1, <2>2
  <2>4. \A t \in Symbols \ {s} : Same(t)
    BY <1>1, <2>1, <2>2, ApplyMark
  <2>5. \A t \in Symbols : SymbolGoal(t)
    BY <1>3, <2>2, <2>3, <2>4
  <2>6. ASSUME NEW w \in Workers, SymbolOf[w] = s  PROVE WorkerGoal(w)
    <3>1. TxOK(w)'
      BY <1>2, <2>1, <2>2, <2>6 DEF TxOK
    <3>2. ASSUME gaps'[s] = {}
          PROVE  gaps[s] = {} /\ NoJump(s)
      BY <1>1, <2>1, <3>2, ApplyMark DEF NoJump, ids
    <3>3. ids \subseteq Nat /\ mark[s] \in Nat \cup {Nil}
      BY <1>1, <2>1 DEF Published, TypeOK
    <3>4. ASSUME gaps'[s] = {}, cursor[w] # Nil
          PROVE  cursor[w] <= mark'[s] + 1 /\ mark'[s] <= cursor[w] + Limit - 1
      <4>1. cursor[w] <= mark[s] + 1 /\ mark'[s] <= cursor[w] + Limit - 1
        BY <1>2, <2>1, <2>3, <2>6, <3>2, <3>4 DEF NearOK, ids
      <4>2. PICK i \in ids : i >= mark[s]
        BY <1>2, <2>1, <3>2, <3>4 DEF LimboOK, ids
      <4>3. cursor[w] \in Nat \cup {Nil} /\ i <= mark'[s]
        BY <1>1, <2>3, <4>2 DEF TypeOK
      <4> QED BY <2>3, <3>3, <4>1, <4>2, <4>3
    <3>5. ASSUME gaps'[s] = {}, pc[w] \in InTx
          PROVE  \E j \in batch[w] : j >= mark'[s]
      <4>1. PICK j \in batch[w] : mark'[s] <= j
        BY <1>2, <2>1, <2>3, <2>6, <3>2, <3>5 DEF NearOK, ids
      <4>2. batch[w] \subseteq Nat
        BY <1>1 DEF TypeOK
      <4> QED BY <2>3, <3>3, <4>1, <4>2
    <3>6. NearOK(w)'
      BY <2>2, <2>6, <3>4, <3>5 DEF NearOK
    <3> QED BY <3>1, <3>6
  <2>7. ASSUME NEW w \in Workers, SymbolOf[w] # s  PROVE WorkerGoal(w)
    <3>1. SymbolOf[w] \in Symbols \ {s}
      BY <2>7
    <3> QED BY <1>4, <2>2, <2>4, <3>1
  <2> QED BY <2>5, <2>6, <2>7
<1>15. ASSUME NEW s \in Symbols, LimboAborts(s)  PROVE Goal
  <2>1. /\ UNCHANGED <<cursor, batch, pc, head, rows, mark, gaps>>
        /\ limbo'[s] = NoTx /\ \A t \in Symbols \ {s} : limbo'[t] = limbo[t]
    BY <1>1, <1>15 DEF LimboAborts, TypeOK, worker
  <2>2. ASSUME NEW t \in Symbols  PROVE SymbolGoal(t)
    BY <1>2, <2>1 DEF LimboOK, MarkStored, NoJump
  <2>3. ASSUME NEW w \in Workers  PROVE WorkerGoal(w)
    <3>1. CASE SymbolOf[w] = s
      BY <1>2, <2>1, <3>1 DEF TxOK, NearOK, NoJump
    <3>2. CASE SymbolOf[w] # s
      BY <1>1, <1>4, <2>1, <3>2 DEF TypeOK
    <3> QED BY <3>1, <3>2
  <2> QED BY <2>2, <2>3
<1>16. ASSUME NEW w \in Workers, pc[w] = "committing",
              limbo'[SymbolOf[w]] = [from |-> cursor[w], ids |-> batch[w]],
              UNCHANGED <<rows, mark, gaps, head, cursor>>,
              pc'[w] \in {"idle", "stopped"}
       PROVE  SymbolGoal(SymbolOf[w]) /\ WorkerGoal(w)
  <2> DEFINE s == SymbolOf[w]
             L == limbo'[s]
  <2>1. L.from = cursor[w] /\ L.ids = batch[w]
    BY <1>16
  <2>2. /\ s \in Symbols /\ mark[s] \in Nat \cup {Nil}
        /\ cursor[w] \in Nat \cup {Nil} /\ batch[w] \subseteq Nat
    BY <1>1 DEF TypeOK
  <2>3. InRange(cursor[w], batch[w])
    BY <1>2, <1>16 DEF TxOK, InTx
  <2>4. ASSUME gaps[s] = {}
        PROVE  /\ \E i \in batch[w] : i >= mark[s]
               /\ cursor[w] # Nil => /\ cursor[w] <= mark[s] + 1
                                     /\ mark[s] <= cursor[w] + Limit - 1
    BY <1>2, <1>16, <2>4 DEF NearOK, InTx
  <2>5. ASSUME gaps[s] = {}, mark[s] # Nil, NEW i \in batch[w],
               cursor[w] # Nil \/ \E j \in batch[w] : j <= mark[s] + 1
        PROVE  i <= mark[s] + Limit
    <3>1. CASE cursor[w] # Nil
      <4>1. i <= cursor[w] + Limit - 1
        BY <2>3, <3>1 DEF InRange
      <4>2. cursor[w] <= mark[s] + 1
        BY <2>4, <2>5, <3>1
      <4> QED BY <2>2, <4>1, <4>2
    <3>2. CASE cursor[w] = Nil
      <4>1. PICK j \in batch[w] : j <= mark[s] + 1
        BY <2>5, <3>2
      <4>2. i - j <= Limit - 1
        BY <2>3, <3>2 DEF InRange
      <4> QED BY <2>2, <4>1, <4>2
    <3> QED BY <3>1, <3>2
  <2>6. SymbolGoal(s)
    <3>1. LimboOK(s)'
      BY <1>16, <2>1, <2>3, <2>4, <2>5 DEF LimboOK, NoJump
    <3>2. MarkStored(s)'
      BY <1>2, <1>16, <2>2 DEF MarkStored
    <3> QED BY <3>1, <3>2
  <2>7. TxOK(w)'
    BY <1>16 DEF TxOK, InTx
  <2>8. NearOK(w)'
    BY <1>16, <2>1, <2>2, <2>3, <2>4 DEF NearOK, InTx, InRange
  <2> QED BY <2>6, <2>7, <2>8
<1>17. ASSUME NEW w \in Workers, CommitLost(w)  PROVE Goal
  <2> DEFINE s == SymbolOf[w]
  <2>1. /\ s \in Symbols /\ pc[w] = "committing" /\ pc'[w] = "idle"
        /\ limbo'[s] = [from |-> cursor[w], ids |-> batch[w]]
        /\ \A t \in Symbols \ {s} : limbo'[t] = limbo[t]
        /\ UNCHANGED <<rows, mark, gaps, head, cursor>> /\ Others(w)
    BY <1>1, <1>17 DEF CommitLost, TypeOK, Goto, Abandon
  <2>2. SymbolGoal(s) /\ WorkerGoal(w)
    BY <1>16, <2>1
  <2>3. \A t \in Symbols \ {s} : Same(t)
    BY <2>1
  <2>4. \A t \in Symbols : SymbolGoal(t)
    BY <1>3, <2>1, <2>2, <2>3
  <2>5. \A v \in Workers \ {w} : WorkerGoal(v)
    BY <1>4, <2>1, <2>3 DEF ListedOnce
  <2> QED BY <2>2, <2>4, <2>5
<1>18. ASSUME NEW s \in Symbols, Publish(s)  PROVE Goal
  <2>1. /\ UNCHANGED <<rows, mark, gaps, limbo, cursor, batch, pc>>
        /\ head'[s] = head[s] + 1 /\ head[s] < MaxTrade
        /\ \A t \in Symbols \ {s} : head'[t] = head[t]
    BY <1>1, <1>18 DEF Publish, TypeOK, worker, database
  <2>2. ASSUME NEW t \in Symbols  PROVE SymbolGoal(t)
    <3>1. LimboOK(t)'
      BY <1>2, <2>1 DEF LimboOK, NoJump
    <3>2. head'[t] <= MaxTrade
      <4>1. head[s] \in Int
        BY <1>1 DEF TypeOK
      <4> QED BY <1>2, <2>1, <4>1 DEF MarkStored
    <3> QED BY <1>2, <2>1, <3>1, <3>2 DEF MarkStored
  <2> QED BY <1>1, <1>4, <2>1, <2>2 DEF TypeOK
<1>19. ASSUME Signal \/ Exit \/ UNCHANGED vars  PROVE Goal
  <2>1. UNCHANGED <<rows, mark, gaps, limbo, head, cursor, batch, pc>>
    BY <1>19 DEF Signal, Exit, vars, worker, database
  <2>2. \A s \in Symbols : SymbolGoal(s)
    BY <1>3, <2>1
  <2>3. \A w \in Workers : WorkerGoal(w)
    BY <1>4, <2>1
  <2> QED BY <2>2, <2>3
<1>20. ASSUME Crash  PROVE Goal
  <2>1. /\ UNCHANGED <<rows, mark, gaps, head, cursor>>
        /\ \A w \in Workers : pc'[w] = "stopped"
    BY <1>1, <1>20 DEF Crash, TypeOK
  <2>2. ASSUME NEW s \in Symbols, Committing(s) = {}
        PROVE  /\ SymbolGoal(s)
               /\ \A w \in Workers : SymbolOf[w] = s => WorkerGoal(w)
    <3>1. Same(s)
      BY <1>20, <2>1, <2>2 DEF Crash
    <3> QED BY <1>3, <1>5, <2>1, <3>1 DEF InTx
  <2>3. ASSUME NEW s \in Symbols, Committing(s) # {}
        PROVE  /\ SymbolGoal(s)
               /\ \A w \in Workers : SymbolOf[w] = s => WorkerGoal(w)
    <3>1. PICK w \in Committing(s) :
            limbo'[s] = [from |-> cursor[w], ids |-> batch[w]]
      BY <1>20, <2>3 DEF Crash
    <3>2. w \in Workers /\ SymbolOf[w] = s /\ pc[w] = "committing"
      BY DEF Committing
    <3>3. SymbolGoal(s) /\ WorkerGoal(w)
      BY <1>16, <2>1, <3>1, <3>2
    <3> QED BY <3>2, <3>3 DEF ListedOnce
  <2>4. ASSUME NEW s \in Symbols
        PROVE  /\ SymbolGoal(s)
               /\ \A w \in Workers : SymbolOf[w] = s => WorkerGoal(w)
    BY <2>2, <2>3
  <2>5. ASSUME NEW w \in Workers  PROVE WorkerGoal(w)
    <3>1. SymbolOf[w] \in Symbols
      OBVIOUS
    <3> QED BY <2>4, <3>1
  <2> QED BY <2>4, <2>5
<1>21. ASSUME Restart  PROVE Goal
  <2>1. /\ UNCHANGED <<rows, mark, gaps, limbo, head>>
        /\ \A w \in Workers : pc'[w] = "load" /\ cursor'[w] = Nil
    BY <1>1, <1>21 DEF Restart, TypeOK, database
  <2>2. \A w \in Workers : WorkerGoal(w)
    BY <2>1 DEF TxOK, NearOK, InTx
  <2>3. \A s \in Symbols : SymbolGoal(s)
    BY <1>3, <2>1
  <2> QED BY <2>2, <2>3
<1>22. Goal
  BY <1>7, <1>8, <1>9, <1>10, <1>11, <1>13, <1>14, <1>15, <1>17, <1>18,
     <1>19, <1>20, <1>21 DEF Next, WorkerStep
<1> QED BY <1>1, <1>22 DEF LogInv

(* The invariant holds throughout, if no symbol is listed twice.           *)
THEOREM PagesKeepUp == ListedOnce /\ Spec => []LogInv
<1>1. ListedOnce /\ LogInv /\ [Next]_vars => LogInv'
  BY LogStep
<1>2. ListedOnce => [](ListedOnce)
  OBVIOUS
<1> QED BY LogInit, <1>1, <1>2, PTL DEF Spec

(* Until a jump leaves a gap, no worker's cursor is ahead of the mark by   *)
(* more than the next id, nor a page behind it.                            *)
THEOREM NearMark == ListedOnce /\ Spec => []CursorNearMark
<1>1. LogInv => CursorNearMark
  BY DEF LogInv, NearOK, CursorNearMark
<1> QED BY <1>1, PagesKeepUp, PTL

-----------------------------------------------------------------------------
(* A page that joins on and is committed is a page appended to the log.    *)
LEMMA AppendsPage ==
  ASSUME LogInv, Inv', NEW s \in Symbols, NEW from \in Nat \cup {Nil}, NEW ids,
         ids \subseteq Published(s), ids # {},
         Joins(s, from, ids), InRange(from, ids), Apply(s, from, ids),
         gaps[s] = {} => \E i \in ids : i >= mark[s]
  PROVE  Log!Next
<1> DEFINE Good == [t \in Symbols |-> (0 .. MaxTrade) \ Malformed[t]]
           lo == Min(ids)
           hi == Max(ids)
<1>1. TypeOK /\ \A t \in Symbols : SymbolOK(t)
  BY DEF LogInv, Inv
<1>2. head[s] \in Int /\ head[s] <= MaxTrade /\ ids \subseteq 0 .. head[s]
  BY <1>1 DEF LogInv, MarkStored, TypeOK, Published
<1>3. /\ lo \in ids /\ hi \in ids /\ lo \in Nat /\ hi \in Nat
      /\ \A i \in ids : lo <= i /\ i <= hi
  BY <1>2, MaxMinOfIds, MaxMinAreNat
<1>4. ids \subseteq Good[s]
  BY <1>2 DEF Published
<1> HIDE DEF lo, hi
<1>5. ids = {i \in Good[s] : lo <= i /\ i <= hi}
  <2>1. ASSUME NEW i \in Good[s], lo <= i, i <= hi  PROVE i \in ids
    <3>1. CASE from = Nil
      <4>1. \A k \in lo .. hi : k \in ids \cup Malformed[s]
        BY <3>1 DEF Joins, lo, hi
      <4> QED BY <1>3, <2>1, <4>1
    <3>2. CASE from # Nil
      <4>1. from <= lo /\ \A k \in from .. hi : k \in ids \cup Malformed[s]
        BY <1>3, <3>2 DEF Joins, InRange, hi
      <4> QED BY <1>3, <2>1, <3>2, <4>1
    <3> QED BY <3>1, <3>2
  <2> QED BY <1>3, <1>4, <2>1
<1>6. Log!Store(s, lo, hi)
  BY <1>3, <1>5 DEF Apply, Log!Store, lo, hi
<1>7. mark[s] \in Nat \cup {Nil} /\ floor[s] \in Nat \cup {Nil}
  BY <1>1 DEF TypeOK
<1>8. CASE mark[s] = Nil
  <2>1. floor' = [floor EXCEPT ![s] = lo] /\ gaps' = gaps
    BY <1>1, <1>8 DEF Apply, SymbolOK, TypeOK, lo
  <2>2. Log!First(s, lo, hi)
    BY <1>6, <1>8, <2>1 DEF Log!First, Log!NoMark
  <2> QED BY <1>3, <1>4, <2>2 DEF Log!Next
<1>9. CASE mark[s] # Nil
  <2>1. floor' = floor
    BY <1>1, <1>9 DEF Apply, SymbolOK, TypeOK
  <2>2. CASE from = Nil /\ lo > mark[s] + 1
    <3>1. gaps' = [gaps EXCEPT ![s] = @ \cup (mark[s] + 1 .. lo - 1)]
      BY <1>9, <2>2 DEF Apply, lo
    <3>2. Log!Jump(s, lo, hi)
      BY <1>6, <1>9, <2>1, <2>2, <3>1 DEF Log!Jump, Log!NoMark
    <3> QED BY <1>3, <1>4, <3>2 DEF Log!Next
  <2>3. CASE ~(from = Nil /\ lo > mark[s] + 1)
    <3>1. gaps' = gaps
      <4>1. CASE from # Nil
        BY <1>1, <4>1 DEF Apply, TypeOK
      <4>2. CASE from = Nil
        <5>1. mark[s] + 1 .. lo - 1 = {}
          BY <1>3, <1>7, <2>3, <4>2
        <5> QED BY <1>1, <1>9, <4>2, <5>1 DEF Apply, TypeOK, lo
      <4> QED BY <4>1, <4>2
    <3>2. \A i \in floor[s] .. hi : i \in Good[s] => i \in rows'[s] \cup gaps[s]
      <4>1. Settled(s, hi + 1)'
        BY <1>1, ApplySettles DEF hi
      <4>2. \A i \in floor[s] .. hi : i \in rows'[s] \cup gaps[s] \cup Malformed[s]
        BY <1>3, <2>1, <3>1, <4>1 DEF Settled
      <4> QED BY <4>2
    <3>3. gaps[s] = {} => hi >= mark[s]
      BY <1>2, <1>3, <1>7
    <3>4. Log!Extend(s, lo, hi)
      BY <1>6, <1>9, <2>1, <3>1, <3>2, <3>3 DEF Log!Extend, Log!NoMark
    <3> QED BY <1>3, <1>4, <3>4 DEF Log!Next
  <2> QED BY <2>2, <2>3
<1> QED BY <1>8, <1>9

(* Every step of TradeIngest appends a page to the log or leaves it as it  *)
(* is: the two ways a transaction commits append one, nothing else does.   *)
LEMMA LogRefines ==
  ASSUME LogInv, Inv', [Next]_vars
  PROVE  [Log!Next]_(Log!vars)
<1>1. /\ TypeOK
      /\ \A s \in Symbols : LimboOK(s) /\ SymbolOK(s)
      /\ \A w \in Workers : TxOK(w) /\ NearOK(w) /\ WorkerOK(w)
  BY DEF LogInv, Inv
<1>2. ASSUME NEW w \in Workers, CommitApplied(w)  PROVE Log!Next
  <2> DEFINE s == SymbolOf[w]
  <2>1. /\ s \in Symbols /\ cursor[w] \in Nat \cup {Nil}
        /\ batch[w] \subseteq Published(s) /\ batch[w] # {}
        /\ InRange(cursor[w], batch[w]) /\ Joins(s, cursor[w], batch[w])
        /\ Apply(s, cursor[w], batch[w])
        /\ gaps[s] = {} => \E i \in batch[w] : i >= mark[s]
    BY <1>1, <1>2 DEF CommitApplied, TypeOK, TxOK, NearOK, WorkerOK, InTx
  <2> QED BY <2>1, AppendsPage
<1>3. ASSUME NEW s \in Symbols, LimboCommits(s)  PROVE Log!Next
  <2>1. /\ limbo[s].from \in Nat \cup {Nil}
        /\ limbo[s].ids \subseteq Published(s) /\ limbo[s].ids # {}
        /\ InRange(limbo[s].from, limbo[s].ids)
        /\ Joins(s, limbo[s].from, limbo[s].ids)
        /\ Apply(s, limbo[s].from, limbo[s].ids)
        /\ gaps[s] = {} => \E i \in limbo[s].ids : i >= mark[s]
    BY <1>1, <1>3 DEF LimboCommits, TypeOK, LimboOK, SymbolOK
  <2> QED BY <2>1, AppendsPage
<1>4. ASSUME NEW w \in Workers,
             \/ Load(w) \/ LoadFails(w)
             \/ FetchPage(w) \/ FetchEmpty(w) \/ FetchFails(w)
             \/ InsertRows(w) \/ UpsertMark(w) \/ SendCommit(w)
             \/ TxFails(w) \/ LockTimeout(w) \/ CommitRejected(w) \/ CommitLost(w)
             \/ Ack(w) \/ AckLost(w) \/ Tick(w) \/ WorkerStops(w)
      PROVE  UNCHANGED Log!vars
  BY <1>4 DEF Load, LoadFails, FetchPage, FetchEmpty, FetchFails, InsertRows,
     UpsertMark, SendCommit, TxFails, LockTimeout, CommitRejected, CommitLost,
     Ack, AckLost, Tick, WorkerStops, database, Log!vars
<1>5. ASSUME NEW s \in Symbols, Publish(s) \/ LimboAborts(s)
      PROVE  UNCHANGED Log!vars
  BY <1>5 DEF Publish, LimboAborts, database, Log!vars
<1>6. ASSUME Signal \/ Exit \/ Crash \/ Restart \/ UNCHANGED vars
      PROVE  UNCHANGED Log!vars
  BY <1>6 DEF Signal, Exit, Crash, Restart, vars, database, Log!vars
<1> QED BY <1>2, <1>3, <1>4, <1>5, <1>6 DEF Next, WorkerStep

(* The statement-by-statement transaction with its lost COMMITs, the       *)
(* crashes and the restarts implement a log that grows a page at a time.   *)
THEOREM Implements == ListedOnce /\ Spec => ImplementsTradeLog
<1>1. Init => Log!Init
  BY DEF Init, Log!Init, Log!NoMark
<1>2. LogInv => Inv
  BY DEF LogInv
<1>3. LogInv /\ Inv' /\ [Next]_vars => [Log!Next]_(Log!vars)
  BY LogRefines
<1> QED
  BY <1>1, <1>2, <1>3, PagesKeepUp, PTL DEF Spec, ImplementsTradeLog, Log!Spec

(* The mark of a symbol moves back only after a jump left it a gap: the    *)
(* log says so of its pages.                                               *)
THEOREM MarkHigh == ListedOnce /\ Spec => MarkRegressesOnlyAfterJump
<1> DEFINE High == \A s \in Symbols : mark'[s] >= mark[s] \/ gaps[s] # {}
<1>1. ASSUME LogInv, Inv', [Next]_vars  PROVE High
  <2>1. mark \in [Symbols -> Nat \cup {Nil}]
    BY <1>1 DEF LogInv, Inv, TypeOK
  <2>2. CASE UNCHANGED Log!vars
    BY <2>1, <2>2 DEF Log!vars
  <2>3. CASE Log!Next
    <3> DEFINE Good == [t \in Symbols |-> (0 .. MaxTrade) \ Malformed[t]]
    <3>1. PICK s \in Symbols : \E lo, hi \in Good[s] :
            Log!First(s, lo, hi) \/ Log!Extend(s, lo, hi) \/ Log!Jump(s, lo, hi)
      BY <2>3 DEF Log!Next
    <3>2. PICK lo \in Good[s], hi \in Good[s] :
            Log!First(s, lo, hi) \/ Log!Extend(s, lo, hi) \/ Log!Jump(s, lo, hi)
      BY <3>1
    <3>3. /\ hi \in Nat /\ lo \in Nat /\ lo <= hi
          /\ mark' = [mark EXCEPT ![s] = hi]
      BY <3>2 DEF Log!First, Log!Extend, Log!Jump, Log!Store
    <3>4. gaps[s] = {} => hi >= mark[s]
      BY <2>1, <3>2, <3>3 DEF Log!First, Log!Extend, Log!Jump, Log!NoMark
    <3> QED BY <2>1, <3>3, <3>4
  <2> QED BY <1>1, <2>2, <2>3, LogRefines
<1>2. LogInv => Inv
  BY DEF LogInv
<1> HIDE DEF High
<1>3. ListedOnce /\ Spec => [][High]_vars
  BY <1>1, <1>2, PagesKeepUp, PTL DEF Spec
<1> QED BY <1>3 DEF High, MarkRegressesOnlyAfterJump
=============================================================================
