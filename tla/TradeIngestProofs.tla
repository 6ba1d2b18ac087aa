------------------------- MODULE TradeIngestProofs -------------------------
(* Proofs about TradeIngest, for any list of symbols, page size, malformed *)
(* trades and bounds.                                                      *)
EXTENDS TradeIngest, TLAPS, FiniteSetTheorems

(* A non-empty set of ids up to n has a largest and a smallest element.    *)
LEMMA MaxMinOfIds ==
  ASSUME NEW n \in Int, NEW S, S \subseteq 0 .. n, S # {}
  PROVE  /\ Max(S) \in S /\ \A y \in S : y <= Max(S)
         /\ Min(S) \in S /\ \A y \in S : Min(S) <= y
<1> DEFINE R == StrictSubsetOrdering(S)
           Sets == FiniteSubsetsOf(S)
           Up(x) == {i \in S : i >= x}
           Down(x) == {i \in S : i <= x}
<1>0. S \subseteq Int
  OBVIOUS
<1>1. IsFiniteSet(S)
  BY FS_Interval, FS_Subset, 0 \in Int
<1>2. IsWellFoundedOn(R, Sets)
  BY <1>1, FS_StrictSubsetOrderingWellFounded
<1>3. \A x \in S : Up(x) \in Sets /\ Down(x) \in Sets
  BY <1>1, FS_Subset DEF FiniteSubsetsOf
<1>4. \A A, B \in SUBSET S : A \subseteq B /\ A # B => <<A, B>> \in R
  BY DEF StrictSubsetOrdering
<1> HIDE DEF R, Sets
<1>5. \E x \in S : \A y \in S : x >= y
  <2>1. {Up(x) : x \in S} \subseteq Sets /\ {Up(x) : x \in S} # {}
    BY <1>3
  <2>2. \E X \in {Up(x) : x \in S} : \A Y \in {Up(x) : x \in S} : <<Y, X>> \notin R
    BY <1>2, <2>1, WFMin
  <2>3. PICK x \in S : \A y \in S : <<Up(y), Up(x)>> \notin R
    BY <2>2
  <2>4. ASSUME NEW y \in S, y > x  PROVE FALSE
    <3>1. ASSUME NEW i \in S, i >= y  PROVE i >= x
      BY <1>0, <2>4, <3>1
    <3>2. Up(y) \subseteq Up(x)
      BY <3>1
    <3>3. x \in Up(x) /\ x \notin Up(y)
      BY <1>0, <2>4
    <3> QED BY <3>2, <3>3, <1>4, <2>3
  <2> QED BY <2>4
<1>6. \E x \in S : \A y \in S : x <= y
  <2>1. {Down(x) : x \in S} \subseteq Sets /\ {Down(x) : x \in S} # {}
    BY <1>3
  <2>2. \E X \in {Down(x) : x \in S} : \A Y \in {Down(x) : x \in S} : <<Y, X>> \notin R
    BY <1>2, <2>1, WFMin
  <2>3. PICK x \in S : \A y \in S : <<Down(y), Down(x)>> \notin R
    BY <2>2
  <2>4. ASSUME NEW y \in S, y < x  PROVE FALSE
    <3>1. ASSUME NEW i \in S, i <= y  PROVE i <= x
      BY <1>0, <2>4, <3>1
    <3>2. Down(y) \subseteq Down(x)
      BY <3>1
    <3>3. x \in Down(x) /\ x \notin Down(y)
      BY <1>0, <2>4
    <3> QED BY <3>2, <3>3, <1>4, <2>3
  <2> QED BY <2>4
<1> QED BY <1>5, <1>6 DEF Max, Min

(* Both are trade ids, so natural numbers.                                 *)
COROLLARY MaxMinAreNat ==
  ASSUME NEW n \in Int, NEW S, S \subseteq 0 .. n, S # {}
  PROVE  Max(S) \in Nat /\ Min(S) \in Nat
<1>1. Max(S) \in S /\ Min(S) \in S
  BY MaxMinOfIds, Zenon
<1>2. S \subseteq Nat
  OBVIOUS
<1> QED BY <1>1, <1>2, Zenon

USE WorkerAssumption, LimitAssumption, MalformedAssumption, BoundAssumption
    DEF Nil

(* Every page answered for a cursor holds published, well-formed ids.      *)
LEMMA PageType ==
  ASSUME TypeOK, NEW s \in Symbols, NEW from \in Nat \cup {Nil}
  PROVE  GoodPage(s, from) \subseteq Published(s)
<1>1. head[s] \in Int
  BY DEF TypeOK
<1>2. CASE from = Nil
  BY <1>1, <1>2 DEF GoodPage, Page, Published
<1>3. CASE from # Nil
  <2> DEFINE S == {head[s], from + Limit - 1}
  <2>1. Min(S) \in Int /\ Min(S) <= head[s]
    <3>1. \E x \in S : \A y \in S : x <= y
      BY <1>1, <1>3
    <3> QED BY <1>1, <1>3, <3>1 DEF Min
  <2> QED BY <1>1, <1>3, <2>1 DEF GoodPage, Page, Published
<1> QED BY <1>2, <1>3

(* What the commit of a page leaves in the tables has the right type.      *)
LEMMA ApplyType ==
  ASSUME TypeOK, NEW s \in Symbols, NEW from \in Nat \cup {Nil}, NEW ids,
         ids \subseteq Published(s), ids # {}, Apply(s, from, ids)
  PROVE  /\ rows' \in [Symbols -> SUBSET Nat]
         /\ mark' \in [Symbols -> Nat \cup {Nil}]
         /\ floor' \in [Symbols -> Nat \cup {Nil}]
         /\ gaps' \in [Symbols -> SUBSET Nat]
         /\ \A t \in Symbols : rows'[t] \subseteq Published(t)
<1>1. head[s] \in Int /\ ids \subseteq 0 .. head[s] /\ ids \subseteq Nat
  BY DEF TypeOK, Published
<1>2. Max(ids) \in Nat /\ Min(ids) \in Nat
  BY <1>1, MaxMinAreNat
<1>3. mark[s] + 1 .. Min(ids) - 1 \subseteq Nat
  BY <1>2 DEF TypeOK
<1> QED BY <1>1, <1>2, <1>3 DEF TypeOK, Apply

(* A new database and a process about to load its marks are well typed.    *)
LEMMA TypeInit == Init => TypeOK
BY DEF Init, TypeOK, States, InTx, NoTx, Published

(* Every operation of the workers, the server and the process keeps the    *)
(* types: pages hold published trades, batches live inside transactions,   *)
(* and a process that is down has no worker.                               *)
LEMMA TypeStep == TypeOK /\ [Next]_vars => TypeOK'
<1> SUFFICES ASSUME TypeOK, [Next]_vars  PROVE TypeOK'
  OBVIOUS
<1> USE DEF TypeOK, States, InTx, process, worker, database, Goto,
                 CallFails, Fault, Abandon, Published
<1>1. ASSUME NEW w \in Workers, Load(w)  PROVE TypeOK'
  BY <1>1 DEF Load, Resume
<1>2. ASSUME NEW w \in Workers, LoadFails(w)  PROVE TypeOK'
  BY <1>2 DEF LoadFails
<1>3. ASSUME NEW w \in Workers, FetchPage(w)  PROVE TypeOK'
  <2>1. GoodPage(SymbolOf[w], cursor[w]) \subseteq Published(SymbolOf[w])
    BY PageType
  <2> QED BY <1>3, <2>1 DEF FetchPage
<1>4. ASSUME NEW w \in Workers, FetchEmpty(w)  PROVE TypeOK'
  BY <1>4 DEF FetchEmpty
<1>5. ASSUME NEW w \in Workers, FetchFails(w)  PROVE TypeOK'
  BY <1>5 DEF FetchFails
<1>6. ASSUME NEW w \in Workers, InsertRows(w)  PROVE TypeOK'
  BY <1>6 DEF InsertRows
<1>7. ASSUME NEW w \in Workers, UpsertMark(w)  PROVE TypeOK'
  BY <1>7 DEF UpsertMark
<1>8. ASSUME NEW w \in Workers, SendCommit(w)  PROVE TypeOK'
  BY <1>8 DEF SendCommit
<1>9. ASSUME NEW w \in Workers, TxFails(w)  PROVE TypeOK'
  BY <1>9 DEF TxFails
<1>10. ASSUME NEW w \in Workers, LockTimeout(w)  PROVE TypeOK'
  BY <1>10 DEF LockTimeout
<1>11. ASSUME NEW w \in Workers, CommitApplied(w)  PROVE TypeOK'
  <2>1. /\ SymbolOf[w] \in Symbols /\ cursor[w] \in Nat \cup {Nil}
        /\ batch[w] \subseteq Published(SymbolOf[w]) /\ batch[w] # {}
        /\ Apply(SymbolOf[w], cursor[w], batch[w])
    BY <1>11 DEF CommitApplied
  <2> QED BY <1>11, <2>1, ApplyType DEF CommitApplied, Published
<1>12. ASSUME NEW w \in Workers, CommitRejected(w)  PROVE TypeOK'
  BY <1>12 DEF CommitRejected
<1>13. ASSUME NEW w \in Workers, CommitLost(w)  PROVE TypeOK'
  BY <1>13 DEF CommitLost
<1>14. ASSUME NEW w \in Workers, Ack(w)  PROVE TypeOK'
  <2>1. head[SymbolOf[w]] \in Int /\ batch[w] \subseteq 0 .. head[SymbolOf[w]] /\ batch[w] # {}
    BY <1>14 DEF Ack
  <2>2. Max(batch[w]) \in Nat
    BY <2>1, MaxMinAreNat
  <2> QED BY <1>14, <2>2 DEF Ack
<1>15. ASSUME NEW w \in Workers, AckLost(w)  PROVE TypeOK'
  BY <1>15 DEF AckLost
<1>16. ASSUME NEW w \in Workers, Tick(w)  PROVE TypeOK'
  BY <1>16 DEF Tick
<1>17. ASSUME NEW w \in Workers, WorkerStops(w)  PROVE TypeOK'
  BY <1>17 DEF WorkerStops
<1>18. ASSUME NEW s \in Symbols, Publish(s)  PROVE TypeOK'
  <2>1. /\ head[s] \in Int /\ head' = [head EXCEPT ![s] = head[s] + 1]
        /\ UNCHANGED <<up, pc, cursor, batch, rows, mark, limbo, floor, gaps, faults, stops>>
    BY <1>18 DEF Publish
  <2>2. head' \in [Symbols -> Nat \cup {Nil}]
    <3>1. head[s] + 1 \in Nat
      BY DEF Nil
    <3>2. head \in [Symbols -> Nat \cup {Nil}]
      OBVIOUS
    <3> HIDE DEF TypeOK, Published
    <3> QED BY <2>1, <3>1, <3>2
  <2>3. \A r \in Symbols : Published(r) \subseteq Published(r)'
    BY <2>1
  <2>4. \A w \in Workers : SymbolOf[w] \in Symbols
    BY WorkerAssumption DEF WorkerAssumption
  <2> HIDE DEF Published
  <2> QED BY <2>1, <2>2, <2>3, <2>4
<1>19. ASSUME NEW s \in Symbols, LimboCommits(s)  PROVE TypeOK'
  <2>1. /\ limbo[s].from \in Nat \cup {Nil}
        /\ limbo[s].ids \subseteq Published(s) /\ limbo[s].ids # {}
        /\ Apply(s, limbo[s].from, limbo[s].ids)
    BY <1>19 DEF LimboCommits
  <2> QED BY <1>19, <2>1, ApplyType DEF LimboCommits, NoTx
<1>20. ASSUME NEW s \in Symbols, LimboAborts(s)  PROVE TypeOK'
  BY <1>20 DEF LimboAborts, NoTx
<1>21. CASE Signal
  BY <1>21 DEF Signal
<1>22. CASE Exit
  BY <1>22 DEF Exit
<1>23. CASE Crash
  <2>1. ASSUME NEW s \in Symbols
        PROVE  /\ limbo'[s] \in [from : Nat \cup {Nil}, ids : SUBSET Nat]
               /\ limbo'[s].ids \subseteq Published(s)
               /\ limbo'[s].ids = {} => limbo'[s] = NoTx
    <3>1. CASE Committing(s) = {}
      BY <1>23, <3>1 DEF Crash
    <3>2. CASE Committing(s) # {}
      <4>1. PICK w \in Committing(s) :
              limbo'[s] = [from |-> cursor[w], ids |-> batch[w]]
        BY <1>23, <3>2 DEF Crash
      <4> QED BY <4>1 DEF Committing
    <3> QED BY <3>1, <3>2
  <2>2. limbo' \in [Symbols -> [from : Nat \cup {Nil}, ids : SUBSET Nat]]
    BY <1>23, <2>1 DEF Crash
  <2>3. \A w \in Workers : pc'[w] = "stopped" /\ batch'[w] = {}
    BY <1>23 DEF Crash
  <2>4. /\ pc' \in [Workers -> States]
        /\ batch' \in [Workers -> SUBSET Nat]
        /\ \A w \in Workers :
             batch'[w] # {} <=> pc'[w] \in InTx \cup {"acked"}
    BY <1>23, <2>3 DEF Crash
  <2>5. /\ up' = "down" /\ stops' \in 0 .. MaxStops
        /\ UNCHANGED <<cursor, head, rows, mark, floor, gaps, faults>>
    BY <1>23 DEF Crash
  <2> QED BY <2>1, <2>2, <2>3, <2>4, <2>5
<1>24. CASE Restart
  BY <1>24 DEF Restart
<1>25. CASE UNCHANGED vars
  BY <1>25 DEF vars
<1> QED
  BY <1>1, <1>2, <1>3, <1>4, <1>5, <1>6, <1>7,
     <1>8, <1>9, <1>10, <1>11, <1>12, <1>13, <1>14,
     <1>15, <1>16, <1>17, <1>18, <1>19, <1>20, <1>21,
     <1>22, <1>23, <1>24, <1>25 DEF Next, WorkerStep

(* Every variable keeps its type, whatever the workers, the server and     *)
(* the process do.                                                         *)
THEOREM TypeCorrect == Spec => []TypeOK
BY TypeInit, TypeStep, PTL DEF Spec

(* ----------------------------------------------------------------------- *)
(* No silent gap.                                                          *)

(* A page answered for a cursor below which all is settled joins on.       *)
LEMMA PageJoins ==
  ASSUME TypeOK, NEW s \in Symbols, NEW from \in Nat \cup {Nil},
         from # Nil => mark[s] # Nil /\ Settled(s, from),
         GoodPage(s, from) # {}
  PROVE  Joins(s, from, GoodPage(s, from))
<1> DEFINE ids == GoodPage(s, from)
<1>1. head[s] \in Int /\ ids \subseteq 0 .. head[s]
  BY PageType DEF TypeOK, Published
<1>2. Max(ids) \in ids /\ Min(ids) \in ids
  BY <1>1, MaxMinOfIds, Zenon
<1>3. CASE from = Nil
  <2>1. ids = {i \in 0 .. head[s] : i > head[s] - Limit} \ Malformed[s]
    BY <1>3 DEF GoodPage, Page
  <2> HIDE DEF ids
  <2>2. /\ Min(ids) \in 0 .. head[s] /\ Max(ids) \in 0 .. head[s]
        /\ Min(ids) > head[s] - Limit
    BY <1>2, <2>1, Zenon
  <2>3. ASSUME NEW i \in Min(ids) .. Max(ids)
        PROVE  i \in ids \cup Malformed[s]
    <3>1. i \in 0 .. head[s] /\ i > head[s] - Limit
      BY <1>1, <2>2
    <3> QED BY <2>1, <3>1
  <2> QED BY <1>3, <2>3 DEF Joins, ids
<1>4. CASE from # Nil
  <2> DEFINE last == Min({head[s], from + Limit - 1})
  <2>1. last \in Int
    <3>1. \E x \in {head[s], from + Limit - 1} :
            \A y \in {head[s], from + Limit - 1} : x <= y
      BY <1>1, <1>4
    <3> QED BY <1>1, <1>4, <3>1 DEF Min
  <2>2. ids = (from .. last) \ Malformed[s]
    BY <1>4 DEF GoodPage, Page
  <2> HIDE DEF last, ids
  <2>3. \A i \in from .. Max(ids) : i \in ids \cup Malformed[s]
    BY <1>2, <2>1, <2>2
  <2> QED BY <1>4, <2>3 DEF Joins, ids
<1> QED BY <1>3, <1>4

(* While the tables stand still, what is settled and what joins on does.   *)
LEMMA TablesUnchanged ==
  ASSUME UNCHANGED <<rows, mark, floor, gaps>>
  PROVE  /\ \A s, n : Settled(s, n)' <=> Settled(s, n)
         /\ \A s, from, ids : Joins(s, from, ids)' <=> Joins(s, from, ids)
BY DEF Settled, Joins

(* The commit of a page that joins on settles everything up to its last    *)
(* id, and unsettles nothing.                                              *)
LEMMA ApplySettles ==
  ASSUME TypeOK, \A t \in Symbols : SymbolOK(t),
         NEW s \in Symbols, NEW from \in Nat \cup {Nil}, NEW ids,
         ids \subseteq Published(s), ids # {},
         Joins(s, from, ids), Apply(s, from, ids)
  PROVE  /\ mark'[s] = Max(ids) /\ mark'[s] # Nil
         /\ floor'[s] # Nil /\ Settled(s, Max(ids) + 1)'
         /\ \A t \in Symbols \ {s} : mark'[t] = mark[t] /\ floor'[t] = floor[t]
         /\ \A t \in Symbols, n \in Nat :
              mark[t] # Nil /\ Settled(t, n) => mark'[t] # Nil /\ Settled(t, n)'
         /\ \A t \in Symbols, f \in Nat \cup {Nil} : \A b :
              Joins(t, f, b) => Joins(t, f, b)'
<1>1. head[s] \in Int /\ ids \subseteq 0 .. head[s] /\ ids \subseteq Nat
  BY DEF TypeOK, Published
<1>2. Max(ids) \in Nat /\ Min(ids) \in Nat
  BY <1>1, MaxMinAreNat
<1>3. mark'[s] = Max(ids) /\ mark'[s] # Nil /\ floor'[s] # Nil
  BY <1>2 DEF TypeOK, Apply
<1>4. \A t \in Symbols \ {s} : /\ mark'[t] = mark[t] /\ floor'[t] = floor[t]
                              /\ rows'[t] = rows[t] /\ gaps'[t] = gaps[t]
  BY DEF TypeOK, Apply
<1>5. ASSUME NEW t \in Symbols, NEW n \in Nat, mark[t] # Nil, Settled(t, n)
      PROVE  mark'[t] # Nil /\ Settled(t, n)'
  <2>1. /\ floor'[t] = floor[t]
        /\ rows[t] \subseteq rows'[t] /\ gaps[t] \subseteq gaps'[t]
    BY <1>4, <1>5 DEF SymbolOK, Apply, TypeOK
  <2> QED BY <1>3, <1>4, <1>5, <2>1 DEF Settled
<1>6. ASSUME NEW t \in Symbols, NEW f \in Nat \cup {Nil}, NEW b, Joins(t, f, b)
      PROVE  Joins(t, f, b)'
  BY <1>5, <1>6 DEF Joins
<1>7. Settled(s, Max(ids) + 1)'
  <2> SUFFICES ASSUME NEW i \in floor'[s] .. Max(ids)
               PROVE  i \in rows'[s] \cup gaps'[s] \cup Malformed[s]
    BY <1>2 DEF Settled
  <2>1. rows'[s] = rows[s] \cup ids /\ gaps[s] \subseteq gaps'[s]
    BY DEF Apply, TypeOK
  <2>2. CASE from # Nil
    <3>1. floor'[s] = floor[s] /\ Settled(s, from)
      BY <2>2 DEF Joins, SymbolOK, Apply, TypeOK
    <3>2. floor[s] \in Int /\ floor'[s] \in Int
      BY <3>1 DEF TypeOK
    <3>3. CASE i < from
      BY <1>2, <2>1, <2>2, <3>1, <3>2, <3>3 DEF Settled
    <3>4. CASE i >= from
      BY <1>2, <2>1, <2>2, <3>2, <3>4 DEF Joins
    <3> QED BY <1>2, <2>2, <3>2, <3>3, <3>4
  <2>3. CASE from = Nil /\ mark[s] = Nil
    <3>1. floor'[s] = Min(ids)
      BY <2>3 DEF SymbolOK, Apply, TypeOK
    <3> QED BY <1>2, <2>1, <2>3, <3>1 DEF Joins
  <2>4. CASE from = Nil /\ mark[s] # Nil
    <3>1. /\ floor[s] \in Nat /\ floor'[s] = floor[s] /\ mark[s] \in Nat
          /\ Settled(s, mark[s] + 1)
          /\ gaps'[s] = gaps[s] \cup (mark[s] + 1 .. Min(ids) - 1)
      BY <2>4 DEF SymbolOK, Apply, TypeOK
    <3>2. CASE i <= mark[s]
      BY <1>2, <2>1, <3>1, <3>2 DEF Settled
    <3>3. CASE i > mark[s] /\ i < Min(ids)
      BY <1>2, <3>1, <3>3
    <3>4. CASE i >= Min(ids)
      BY <1>2, <2>1, <2>4, <3>1, <3>4 DEF Joins
    <3> QED BY <1>2, <3>1, <3>2, <3>3, <3>4
  <2> QED BY <2>2, <2>3, <2>4
<1> QED BY <1>3, <1>4, <1>5, <1>6, <1>7

(* A step that leaves the tables alone and respects limbo preserves what   *)
(* is known of every symbol.                                               *)
LEMMA SymbolsUnchanged ==
  ASSUME \A t \in Symbols : SymbolOK(t), UNCHANGED <<rows, mark, floor, gaps>>,
         \A t \in Symbols :
           limbo'[t] # NoTx => Joins(t, limbo'[t].from, limbo'[t].ids)
  PROVE  \A t \in Symbols : SymbolOK(t)'
BY TablesUnchanged DEF SymbolOK

(* With nothing stored and no page in hand there is nothing to join on to. *)
LEMMA InvInit == Init => Inv
BY TypeInit DEF Init, Inv, SymbolOK, WorkerOK, InTx

(* The inductive step: fetched pages join on, commits settle them now or   *)
(* from limbo, acknowledged cursors stand on settled ground, and failures, *)
(* crashes and restarts only forget.                                       *)
LEMMA InvStep == Inv /\ [Next]_vars => Inv'
<1> SUFFICES ASSUME Inv, [Next]_vars  PROVE Inv'
  OBVIOUS
<1>1. TypeOK /\ TypeOK'
  BY TypeStep DEF Inv
<1>2. (\A s \in Symbols : SymbolOK(s)) /\ (\A w \in Workers : WorkerOK(w))
  BY DEF Inv
<1>3. SUFFICES (\A s \in Symbols : SymbolOK(s)') /\ (\A w \in Workers : WorkerOK(w)')
  BY <1>1 DEF Inv
<1>4. ASSUME UNCHANGED <<rows, mark, floor, gaps>>, UNCHANGED limbo
      PROVE  \A s \in Symbols : SymbolOK(s)'
  BY <1>2, <1>4, SymbolsUnchanged DEF SymbolOK
<1>5. ASSUME UNCHANGED <<rows, mark, floor, gaps>>, NEW v \in Workers,
             UNCHANGED <<cursor[v], batch[v], pc[v]>>
      PROVE  WorkerOK(v)'
  BY <1>2, <1>5, TablesUnchanged DEF WorkerOK
<1> DEFINE Goal == /\ \A s \in Symbols : SymbolOK(s)'
                   /\ \A v \in Workers : WorkerOK(v)'
           Tables == UNCHANGED <<rows, mark, floor, gaps>>
           Others(w) == \A v \in Workers \ {w} :
                          UNCHANGED <<cursor[v], batch[v], pc[v]>>
<1>6. ASSUME NEW w \in Workers, Tables, UNCHANGED limbo, Others(w), WorkerOK(w)'
      PROVE  Goal
  BY <1>4, <1>5, <1>6
<1>7. ASSUME NEW w \in Workers, Tables, cursor'[w] = cursor[w],
             pc'[w] \notin InTx \cup {"acked"}
      PROVE  WorkerOK(w)'
  BY <1>2, <1>7, TablesUnchanged DEF WorkerOK
<1>8. ASSUME NEW w \in Workers, Tables,
             UNCHANGED <<cursor[w], batch[w]>>, pc[w] \in InTx, pc'[w] \in InTx
      PROVE  WorkerOK(w)'
  BY <1>2, <1>8, TablesUnchanged DEF WorkerOK, InTx
<1>9. ASSUME NEW w \in Workers, Load(w)  PROVE Goal
  <2>1. Tables /\ UNCHANGED limbo /\ Others(w)
    BY <1>1, <1>9 DEF Load, TypeOK, database, worker, Goto, Abandon
  <2>2. cursor'[w] = Resume(SymbolOf[w]) /\ pc'[w] = "poll"
    BY <1>1, <1>9 DEF Load, TypeOK, Goto
  <2>3. WorkerOK(w)'
    BY <1>1, <1>2, <2>1, <2>2, TablesUnchanged
       DEF WorkerOK, SymbolOK, Resume, InTx, TypeOK
  <2> QED BY <1>6, <2>1, <2>3
<1>10. ASSUME NEW w \in Workers, LoadFails(w)  PROVE Goal
  <2>1. Tables /\ UNCHANGED limbo /\ Others(w)
    BY <1>1, <1>10 DEF LoadFails, TypeOK, database, worker, Goto, Abandon
  <2>2. cursor'[w] = cursor[w] /\ pc'[w] \notin InTx \cup {"acked"}
    BY <1>1, <1>10 DEF LoadFails, TypeOK, worker, Goto, Abandon, InTx
  <2> QED BY <1>6, <1>7, <2>1, <2>2
<1>11. ASSUME NEW w \in Workers, FetchPage(w)  PROVE Goal
  <2>1. Tables /\ UNCHANGED limbo /\ Others(w)
    BY <1>1, <1>11 DEF FetchPage, TypeOK, database, worker, Goto, Abandon
  <2>2. /\ cursor'[w] = cursor[w] /\ pc'[w] = "insert"
        /\ batch'[w] = GoodPage(SymbolOf[w], cursor[w])
    BY <1>1, <1>11 DEF FetchPage, TypeOK, Goto
  <2>3. /\ SymbolOf[w] \in Symbols /\ cursor[w] \in Nat \cup {Nil}
        /\ cursor[w] # Nil => /\ mark[SymbolOf[w]] # Nil
                             /\ Settled(SymbolOf[w], cursor[w])
        /\ GoodPage(SymbolOf[w], cursor[w]) # {}
    BY <1>1, <1>2, <1>11 DEF WorkerOK, FetchPage, TypeOK
  <2>4. Joins(SymbolOf[w], cursor[w], GoodPage(SymbolOf[w], cursor[w]))
    BY <1>1, <2>3, PageJoins
  <2>5. WorkerOK(w)'
    BY <1>2, <2>1, <2>2, <2>4, TablesUnchanged DEF WorkerOK, InTx
  <2> QED BY <1>6, <2>1, <2>5
<1>12. ASSUME NEW w \in Workers, FetchEmpty(w)  PROVE Goal
  <2>1. Tables /\ UNCHANGED limbo /\ Others(w)
    BY <1>1, <1>12 DEF FetchEmpty, TypeOK, database, worker, Goto, Abandon
  <2>2. cursor'[w] = cursor[w] /\ pc'[w] \notin InTx \cup {"acked"}
    BY <1>1, <1>12 DEF FetchEmpty, TypeOK, worker, Goto, Abandon, InTx
  <2> QED BY <1>6, <1>7, <2>1, <2>2
<1>13. ASSUME NEW w \in Workers, FetchFails(w)  PROVE Goal
  <2>1. Tables /\ UNCHANGED limbo /\ Others(w)
    BY <1>1, <1>13 DEF FetchFails, TypeOK, database, worker, Goto, Abandon
  <2>2. cursor'[w] = cursor[w] /\ pc'[w] \notin InTx \cup {"acked"}
    BY <1>1, <1>13 DEF FetchFails, TypeOK, worker, Goto, Abandon, InTx
  <2> QED BY <1>6, <1>7, <2>1, <2>2
<1>14. ASSUME NEW w \in Workers, InsertRows(w)  PROVE Goal
  <2>1. Tables /\ UNCHANGED limbo /\ Others(w)
    BY <1>1, <1>14 DEF InsertRows, TypeOK, database, worker, Goto, Abandon
  <2>2. /\ UNCHANGED <<cursor[w], batch[w]>>
        /\ pc[w] \in InTx /\ pc'[w] \in InTx
    BY <1>1, <1>14 DEF InsertRows, TypeOK, worker, Goto, Abandon, InTx
  <2> QED BY <1>6, <1>8, <2>1, <2>2
<1>15. ASSUME NEW w \in Workers, UpsertMark(w)  PROVE Goal
  <2>1. Tables /\ UNCHANGED limbo /\ Others(w)
    BY <1>1, <1>15 DEF UpsertMark, TypeOK, database, worker, Goto, Abandon
  <2>2. /\ UNCHANGED <<cursor[w], batch[w]>>
        /\ pc[w] \in InTx /\ pc'[w] \in InTx
    BY <1>1, <1>15 DEF UpsertMark, TypeOK, worker, Goto, Abandon, InTx
  <2> QED BY <1>6, <1>8, <2>1, <2>2
<1>16. ASSUME NEW w \in Workers, SendCommit(w)  PROVE Goal
  <2>1. Tables /\ UNCHANGED limbo /\ Others(w)
    BY <1>1, <1>16 DEF SendCommit, TypeOK, database, worker, Goto, Abandon
  <2>2. /\ UNCHANGED <<cursor[w], batch[w]>>
        /\ pc[w] \in InTx /\ pc'[w] \in InTx
    BY <1>1, <1>16 DEF SendCommit, TypeOK, worker, Goto, Abandon, InTx
  <2> QED BY <1>6, <1>8, <2>1, <2>2
<1>17. ASSUME NEW w \in Workers, TxFails(w)  PROVE Goal
  <2>1. Tables /\ UNCHANGED limbo /\ Others(w)
    BY <1>1, <1>17 DEF TxFails, TypeOK, database, worker, Goto, Abandon
  <2>2. cursor'[w] = cursor[w] /\ pc'[w] \notin InTx \cup {"acked"}
    BY <1>1, <1>17 DEF TxFails, TypeOK, worker, Goto, Abandon, InTx
  <2> QED BY <1>6, <1>7, <2>1, <2>2
<1>18. ASSUME NEW w \in Workers, LockTimeout(w)  PROVE Goal
  <2>1. Tables /\ UNCHANGED limbo /\ Others(w)
    BY <1>1, <1>18 DEF LockTimeout, TypeOK, database, worker, Goto, Abandon
  <2>2. cursor'[w] = cursor[w] /\ pc'[w] \notin InTx \cup {"acked"}
    BY <1>1, <1>18 DEF LockTimeout, TypeOK, worker, Goto, Abandon, InTx
  <2> QED BY <1>6, <1>7, <2>1, <2>2
<1>19. ASSUME NEW w \in Workers, CommitRejected(w)  PROVE Goal
  <2>1. Tables /\ UNCHANGED limbo /\ Others(w)
    BY <1>1, <1>19 DEF CommitRejected, TypeOK, database, worker, Goto, Abandon
  <2>2. cursor'[w] = cursor[w] /\ pc'[w] \notin InTx \cup {"acked"}
    BY <1>1, <1>19 DEF CommitRejected, TypeOK, worker, Goto, Abandon, InTx
  <2> QED BY <1>6, <1>7, <2>1, <2>2
<1>20. ASSUME NEW w \in Workers, Ack(w)  PROVE Goal
  <2>1. Tables /\ UNCHANGED limbo /\ Others(w)
    BY <1>1, <1>20 DEF Ack, TypeOK, database, worker, Goto, Abandon
  <2>2. /\ cursor'[w] = Max(batch[w]) + 1 /\ pc'[w] = "idle"
        /\ pc[w] = "acked"
    BY <1>1, <1>20 DEF Ack, TypeOK, worker, Goto, Abandon
  <2>3. WorkerOK(w)'
    BY <1>2, <2>1, <2>2, TablesUnchanged DEF WorkerOK, InTx
  <2> QED BY <1>6, <2>1, <2>3
<1>21. ASSUME NEW w \in Workers, AckLost(w)  PROVE Goal
  <2>1. Tables /\ UNCHANGED limbo /\ Others(w)
    BY <1>1, <1>21 DEF AckLost, TypeOK, database, worker, Goto, Abandon
  <2>2. cursor'[w] = cursor[w] /\ pc'[w] \notin InTx \cup {"acked"}
    BY <1>1, <1>21 DEF AckLost, TypeOK, worker, Goto, Abandon, InTx
  <2> QED BY <1>6, <1>7, <2>1, <2>2
<1>22. ASSUME NEW w \in Workers, Tick(w)  PROVE Goal
  <2>1. Tables /\ UNCHANGED limbo /\ Others(w)
    BY <1>1, <1>22 DEF Tick, TypeOK, database, worker, Goto, Abandon
  <2>2. cursor'[w] = cursor[w] /\ pc'[w] \notin InTx \cup {"acked"}
    BY <1>1, <1>22 DEF Tick, TypeOK, worker, Goto, Abandon, InTx
  <2> QED BY <1>6, <1>7, <2>1, <2>2
<1>23. ASSUME NEW w \in Workers, WorkerStops(w)  PROVE Goal
  <2>1. Tables /\ UNCHANGED limbo /\ Others(w)
    BY <1>1, <1>23 DEF WorkerStops, TypeOK, database, worker, Goto, Abandon
  <2>2. cursor'[w] = cursor[w] /\ pc'[w] \notin InTx \cup {"acked"}
    BY <1>1, <1>23 DEF WorkerStops, TypeOK, worker, Goto, Abandon, InTx
  <2> QED BY <1>6, <1>7, <2>1, <2>2
<1>24. ASSUME NEW s \in Symbols, NEW from \in Nat \cup {Nil}, NEW ids,
              ids \subseteq Published(s), ids # {},
              Joins(s, from, ids), Apply(s, from, ids)
       PROVE  /\ mark'[s] # Nil /\ Settled(s, Max(ids) + 1)'
              /\ \A t \in Symbols :
                   limbo'[t] \in {limbo[t], NoTx} => SymbolOK(t)'
              /\ \A v \in Workers :
                   UNCHANGED <<cursor[v], batch[v], pc[v]>> => WorkerOK(v)'
  <2>1. /\ mark'[s] = Max(ids) /\ mark'[s] # Nil
        /\ floor'[s] # Nil /\ Settled(s, Max(ids) + 1)'
        /\ \A t \in Symbols \ {s} : mark'[t] = mark[t] /\ floor'[t] = floor[t]
        /\ \A t \in Symbols, n \in Nat :
             mark[t] # Nil /\ Settled(t, n) => mark'[t] # Nil /\ Settled(t, n)'
        /\ \A t \in Symbols, f \in Nat \cup {Nil} : \A b :
             Joins(t, f, b) => Joins(t, f, b)'
    BY <1>1, <1>2, <1>24, ApplySettles
  <2>2. ASSUME NEW t \in Symbols, limbo'[t] \in {limbo[t], NoTx}
        PROVE  SymbolOK(t)'
    <3>1. (mark'[t] # Nil <=> floor'[t] # Nil)
      BY <1>2, <2>1 DEF SymbolOK
    <3>2. CASE t = s
      <4>1. (mark[t] # Nil => Settled(t, mark[t] + 1))'
        BY <2>1, <3>2 DEF Settled
      <4>2. (limbo[t] # NoTx => Joins(t, limbo[t].from, limbo[t].ids))'
        BY <1>1, <1>2, <2>1, <2>2 DEF SymbolOK, TypeOK, Joins, Settled
      <4> QED BY <3>1, <4>1, <4>2 DEF SymbolOK
    <3>3. CASE t # s
      <4>1. (mark[t] # Nil => Settled(t, mark[t] + 1))'
        <5>1. mark'[t] = mark[t] /\ mark[t] \in Nat \cup {Nil}
          BY <1>1, <2>1, <3>3 DEF TypeOK
        <5>2. mark[t] # Nil => Settled(t, mark[t] + 1)
          BY <1>2 DEF SymbolOK
        <5> QED BY <2>1, <5>1, <5>2 DEF Settled
      <4>2. (limbo[t] # NoTx => Joins(t, limbo[t].from, limbo[t].ids))'
        BY <1>1, <1>2, <2>1, <2>2 DEF SymbolOK, TypeOK, Joins, Settled
      <4> QED BY <3>1, <4>1, <4>2 DEF SymbolOK
    <3> QED BY <3>2, <3>3
  <2>3. ASSUME NEW v \in Workers, UNCHANGED <<cursor[v], batch[v], pc[v]>>
        PROVE  WorkerOK(v)'
    <3>1. SymbolOf[v] \in Symbols /\ cursor[v] \in Nat \cup {Nil}
      BY <1>1 DEF TypeOK
    <3>2. pc[v] = "acked" => Max(batch[v]) + 1 \in Nat
      <4>1. /\ head[SymbolOf[v]] \in Int /\ batch[v] \subseteq 0 .. head[SymbolOf[v]]
            /\ pc[v] = "acked" => batch[v] # {}
        BY <1>1, <3>1 DEF TypeOK, Published
      <4> QED BY <4>1, MaxMinAreNat
    <3>3. (cursor[v] # Nil => /\ mark[SymbolOf[v]] # Nil
                            /\ Settled(SymbolOf[v], cursor[v]))'
      BY <1>2, <2>1, <2>3, <3>1 DEF WorkerOK, Settled
    <3>4. (pc[v] \in InTx => Joins(SymbolOf[v], cursor[v], batch[v]))'
      BY <1>2, <2>1, <2>3, <3>1 DEF WorkerOK, Settled, Joins
    <3>5. (pc[v] = "acked" => /\ mark[SymbolOf[v]] # Nil
                             /\ Settled(SymbolOf[v], Max(batch[v]) + 1))'
      BY <1>2, <2>1, <2>3, <3>1, <3>2 DEF WorkerOK, Settled
    <3> QED BY <3>3, <3>4, <3>5 DEF WorkerOK
  <2> QED BY <2>1, <2>2, <2>3
<1>25. ASSUME NEW w \in Workers, CommitApplied(w)  PROVE Goal
  <2>1. /\ SymbolOf[w] \in Symbols /\ cursor[w] \in Nat \cup {Nil}
        /\ batch[w] \subseteq Published(SymbolOf[w]) /\ batch[w] # {}
        /\ Joins(SymbolOf[w], cursor[w], batch[w])
        /\ Apply(SymbolOf[w], cursor[w], batch[w])
    BY <1>1, <1>2, <1>25 DEF CommitApplied, TypeOK, WorkerOK, InTx
  <2>2. /\ UNCHANGED <<cursor, batch, limbo>> /\ pc'[w] = "acked"
        /\ \A v \in Workers \ {w} : pc'[v] = pc[v]
    BY <1>1, <1>25 DEF CommitApplied, TypeOK, Goto
  <2>3. /\ mark'[SymbolOf[w]] # Nil /\ Settled(SymbolOf[w], Max(batch[w]) + 1)'
        /\ \A t \in Symbols : SymbolOK(t)'
        /\ \A v \in Workers \ {w} : WorkerOK(v)'
    BY <1>24, <2>1, <2>2
  <2>4. cursor[w] # Nil => Settled(SymbolOf[w], cursor[w])'
    <3>1. \A n \in Nat : /\ mark[SymbolOf[w]] # Nil
                         /\ Settled(SymbolOf[w], n)
                         => Settled(SymbolOf[w], n)'
      BY <1>1, <1>2, <2>1, ApplySettles
    <3>2. cursor[w] # Nil => /\ mark[SymbolOf[w]] # Nil
                           /\ Settled(SymbolOf[w], cursor[w])
      BY <1>2 DEF WorkerOK
    <3> QED BY <2>1, <2>2, <3>1, <3>2 DEF Settled
  <2>5. WorkerOK(w)'
    BY <2>2, <2>3, <2>4 DEF WorkerOK, Settled, InTx
  <2> QED BY <2>3, <2>5
<1>26. ASSUME NEW w \in Workers, CommitLost(w)  PROVE Goal
  <2>1. /\ Tables /\ Others(w)
        /\ cursor'[w] = cursor[w] /\ pc'[w] \notin InTx \cup {"acked"}
    BY <1>1, <1>26 DEF CommitLost, TypeOK, Goto, Abandon, InTx
  <2>2. Joins(SymbolOf[w], cursor[w], batch[w])
    BY <1>2, <1>26 DEF CommitLost, WorkerOK, InTx
  <2>3. \A t \in Symbols :
          limbo'[t] # NoTx => Joins(t, limbo'[t].from, limbo'[t].ids)
    BY <1>1, <1>2, <1>26, <2>2 DEF CommitLost, TypeOK, SymbolOK
  <2>4. \A t \in Symbols : SymbolOK(t)'
    BY <1>2, <2>1, <2>3, SymbolsUnchanged
  <2>5. WorkerOK(w)'
    BY <1>7, <2>1
  <2>6. \A v \in Workers \ {w} : WorkerOK(v)'
    BY <1>5, <2>1
  <2> QED BY <2>4, <2>5, <2>6
<1>27. ASSUME NEW s \in Symbols, Publish(s)  PROVE Goal
  BY <1>4, <1>5, <1>27 DEF Publish, worker, database
<1>28. ASSUME NEW s \in Symbols, LimboCommits(s)  PROVE Goal
  <2>1. /\ limbo[s].from \in Nat \cup {Nil}
        /\ limbo[s].ids \subseteq Published(s) /\ limbo[s].ids # {}
        /\ Joins(s, limbo[s].from, limbo[s].ids)
        /\ Apply(s, limbo[s].from, limbo[s].ids)
    BY <1>1, <1>2, <1>28 DEF LimboCommits, TypeOK, SymbolOK
  <2>2. /\ UNCHANGED <<cursor, batch, pc>>
        /\ \A t \in Symbols : limbo'[t] \in {limbo[t], NoTx}
    BY <1>1, <1>28 DEF LimboCommits, TypeOK, worker
  <2> QED BY <1>24, <2>1, <2>2
<1>29. ASSUME NEW s \in Symbols, LimboAborts(s)  PROVE Goal
  <2>1. /\ Tables /\ UNCHANGED <<cursor, batch, pc>>
        /\ \A t \in Symbols : limbo'[t] \in {limbo[t], NoTx}
    BY <1>1, <1>29 DEF LimboAborts, TypeOK, worker
  <2>2. \A t \in Symbols : SymbolOK(t)'
    BY <1>2, <2>1, SymbolsUnchanged DEF SymbolOK
  <2> QED BY <1>5, <2>1, <2>2
<1>30. CASE Signal \/ Exit
  BY <1>4, <1>5, <1>30 DEF Signal, Exit, worker, database
<1>31. CASE Crash
  <2>1. /\ Tables /\ UNCHANGED cursor
        /\ \A w \in Workers : pc'[w] = "stopped"
    BY <1>31 DEF Crash
  <2>2. ASSUME NEW t \in Symbols, limbo'[t] # NoTx
        PROVE  Joins(t, limbo'[t].from, limbo'[t].ids)
    <3>1. CASE Committing(t) = {}
      BY <1>2, <1>31, <2>2, <3>1 DEF Crash, SymbolOK
    <3>2. CASE Committing(t) # {}
      <4>1. PICK w \in Committing(t) :
              limbo'[t] = [from |-> cursor[w], ids |-> batch[w]]
        BY <1>31, <3>2 DEF Crash
      <4> QED BY <1>2, <4>1 DEF Committing, WorkerOK, InTx
    <3> QED BY <3>1, <3>2
  <2>3. \A t \in Symbols : SymbolOK(t)'
    BY <1>2, <2>1, <2>2, SymbolsUnchanged
  <2>4. \A w \in Workers : WorkerOK(w)'
    BY <1>7, <2>1 DEF InTx
  <2> QED BY <2>3, <2>4
<1>32. CASE Restart
  <2>1. /\ Tables /\ UNCHANGED limbo
        /\ \A w \in Workers : pc'[w] = "load" /\ cursor'[w] = Nil
    BY <1>32 DEF Restart, database
  <2>2. \A w \in Workers : WorkerOK(w)'
    BY <2>1 DEF WorkerOK, InTx
  <2> QED BY <1>4, <2>1, <2>2
<1>33. CASE UNCHANGED vars
  BY <1>4, <1>5, <1>33 DEF vars, worker, database
<1> QED
  BY <1>9, <1>10, <1>11, <1>12, <1>13, <1>14, <1>15, <1>16, <1>17, <1>18,
     <1>19, <1>20, <1>21, <1>22, <1>23, <1>25, <1>26, <1>27, <1>28, <1>29,
     <1>30, <1>31, <1>32, <1>33 DEF Next, WorkerStep

(* The inductive invariant holds throughout: whatever a worker holds, or   *)
(* the server has yet to decide, joins on to what is settled.              *)
THEOREM PagesJoin == Spec => []Inv
BY InvInit, InvStep, PTL DEF Spec

(* Whatever crashes, lost commits and restarts happen, and however often   *)
(* SYMBOLS repeats a symbol, no trade is lost silently.                    *)
THEOREM GapFree == Spec => []NoSilentGap
<1>1. Inv => NoSilentGap
  BY DEF Inv, NoSilentGap, SymbolOK, WorkerOK
<1> QED BY <1>1, PagesJoin, PTL
=============================================================================
