-------------------------- MODULE DdlReplayProofs --------------------------
(* Theorems about DdlDump and DdlReplay, for any catalogs, clusters, paths *)
(* and bounds.                                                             *)
EXTENDS DdlReplay, TLAPS, FiniteSetTheorems, WellFoundedInduction

Access == {"profile", "policy", "quota"}
Early  == {"connect", "resolve", "macros", "databases"}
Late   == {"write", "writing", "written"}

(* The statements main may write.                                          *)
Paths == {PathOf[n] : n \in Names} \cup {Reparameterize(PathOf[n]) : n \in Names}
Stmts == [name : Names \cup {Garbled}, kind : Kinds, safe : BOOLEAN, broken : BOOLEAN,
          cluster : ToSet(Clusters) \cup {Nil}, path : Paths]

(* What is no database left out, nor in one.                               *)
Clean(n) == {n, DbOf[n]} \cap (SystemDbs \cup Exclude) = {}

Injective(seq) == \A i, j \in DOMAIN seq : seq[i] = seq[j] => i = j

Types ==
  /\ catalog \in [Names -> Kinds \cup {Nil}]
  /\ \A n \in Names : catalog[n] # Nil => catalog[n] \in KindsOf[n]
  /\ pc \in Early \cup {"list", "show", "failed"} \cup Late
  /\ cluster \in ToSet(Clusters) \cup {Nil} /\ macros \in BOOLEAN
  /\ dbs \in Seq(Names) /\ todo \in Seq(Names) /\ dump \in Seq(Stmts)
  /\ sec \in 1 .. 10
  /\ pc \in Early => sec = 1 /\ dump = <<>> /\ dbs = <<>>
  /\ pc \in {"list", "show"} => sec # 10
  /\ pc = "show" => sec # 1
  /\ pc \in Late => sec = 10
  /\ steady \subseteq Names /\ missed \subseteq Names \cup {Nil}
  /\ file \in {"old", "partial", "new"} /\ (file = "new" <=> pc = "written")
  /\ events \in 0 .. MaxEvents

(* The databases main goes through.                                        *)
Databases ==
  /\ Injective(dbs)
  /\ \A d \in ToSet(dbs) : /\ KindsOf[d] = {"database"} /\ d \notin SystemDbs \cup Exclude
                           /\ d \in steady => catalog[d] = "database"

(* The rows that are still to be shown.                                    *)
Pending ==
  pc = "show" =>
    /\ Injective(todo)
    /\ \A n \in ToSet(todo) : /\ Clean(n)
                              /\ n \in steady => catalog[n] \in Lists[Sections[sec]]

(* The statements are those of the objects that were there all along.      *)
Kept(st) ==
  /\ st.safe \/ st.kind \in Access
  /\ st.name \in Names => Clean(st.name)
  /\ st.name \in steady =>
       /\ st.kind = catalog[st.name]
       /\ st.kind = "table" /\ macros => st.path = Reparameterize(PathOf[st.name])

Dumped == \A j \in DOMAIN dump : Kept(dump[j])

(* The sections that have dealt with an object.                            *)
Done(n) ==
  {i \in 1 .. 9 : /\ catalog[n] \in Lists[Sections[i]]
                  /\ i < sec \/ (i = sec /\ pc = "show" /\ n \notin ToSet(todo))}

Places(d, n) == {i \in DOMAIN d : d[i].name = n}

(* SteadyDumpedOnce holds of the sections so far.                          *)
Covered ==
  \A n \in Names : Owed(n) =>
    /\ \A i \in Done(n) : Statement(Sections[i], n, catalog[n]) \in ToSet(dump)
    /\ n \notin Odd => Cardinality(Places(dump, n)) = Cardinality(Done(n))

DumpInv == Types /\ Databases /\ Pending /\ Dumped /\ Covered

(* The servers have nothing but what the statements before pos made, and   *)
(* those have been made wherever they go.                                  *)
Replayed ==
  /\ have \in [Nodes -> SUBSET ToSet(dump)] /\ replays \in 0 .. MaxReplays
  /\ outcome \in {"none", "running", "stopped", "finished"}
  /\ pos \in 0 .. Len(dump) + 1
  /\ pc # "written" => outcome = "none" /\ pos = 0 /\ have = [n \in Nodes |-> {}]
  /\ outcome \in {"running", "stopped"} => pos # 0
  /\ outcome = "stopped" => pos <= Len(dump)
  /\ outcome = "finished" => pos > Len(dump)
  /\ \A j \in 1 .. pos - 1 : \A n \in Targets(dump[j]) : Has(n, dump[j].name)

IInv == DumpInv /\ Replayed /\ StopsForCause
-----------------------------------------------------------------------------
(* What main's nine sections list, show and rewrite.                       *)
LEMMA SectionFacts ==
  ASSUME NEW i \in 1 .. 9
  PROVE  /\ DOMAIN Sections = 1 .. 9 /\ Len(Sections) = 9
         /\ Sections[1] = "databases" /\ (Sections[i] = "databases" => i = 1)
         /\ Lists[Sections[i]] \subseteq Shows(Sections[i])
         /\ Shows(Sections[i]) \subseteq Kinds
         /\ Sections[i] \in InDatabase => Lists[Sections[i]] \subseteq Contained
         /\ Sections[i] \notin InDatabase /\ i # 1
              => Lists[Sections[i]] \cap (Contained \cup {"database"}) = {}
         /\ "table" \in Lists[Sections[i]] => Sections[i] = "tables"
         /\ Sections[i] \in {"profiles", "policies", "quotas"}
              => Shows(Sections[i]) \subseteq Access
BY DEF Sections, Lists, Shows, InDatabase, Contained, Kinds, Access

LEMMA KindHasSection ==
  ASSUME NEW k \in Kinds
  PROVE  \E i \in 1 .. 9 : k \in Lists[Sections[i]] /\ k \in Injects[Sections[i]]
<1> DEFINE Home(i) == k \in Lists[Sections[i]] /\ k \in Injects[Sections[i]]
<1>1. k = "database" => Home(1)
  BY DEF Sections, Lists, Injects
<1>2. k = "table" => Home(2)
  BY DEF Sections, Lists, Injects
<1>3. k \in {"matview", "view"} => Home(3)
  BY DEF Sections, Lists, Injects
<1>4. k = "distributed" => Home(4)
  BY DEF Sections, Lists, Injects
<1>5. k = "dictionary" => Home(5)
  BY DEF Sections, Lists, Injects
<1>6. k = "function" => Home(6)
  BY DEF Sections, Lists, Injects
<1>7. k = "profile" => Home(7)
  BY DEF Sections, Lists, Injects
<1>8. k = "policy" => Home(8)
  BY DEF Sections, Lists, Injects
<1>9. k = "quota" => Home(9)
  BY DEF Sections, Lists, Injects
<1> HIDE DEF Home
<1>10. \E i \in 1 .. 9 : Home(i)
  BY <1>1, <1>2, <1>3, <1>4, <1>5, <1>6, <1>7, <1>8, <1>9 DEF Kinds
<1> QED BY <1>10 DEF Home

LEMMA NamesFinite == IsFiniteSet(Names)
<1>1. Order \in Seq(Names) /\ Len(Order) \in Nat
  BY CatalogAssumption DEF CatalogAssumption
<1>2. Order \in Surjection(1 .. Len(Order), Names)
  BY <1>1 DEF Surjection, Names, ToSet
<1> QED BY <1>1, <1>2, FS_Interval, FS_Surjection

(* The rows of a query are its objects, each once.                         *)
LEMMA RowsFacts ==
  ASSUME NEW S \in SUBSET Names, NEW rows \in Rows(S)
  PROVE  rows \in Seq(Names) /\ Injective(rows) /\ ToSet(rows) = S
<1>1. IsFiniteSet(Names)
  BY NamesFinite
<1>2. IsFiniteSet(S) /\ Cardinality(S) \in Nat
  BY <1>1, FS_Subset, FS_CardinalityType
<1>3. rows \in [1 .. Cardinality(S) -> S] /\ Injective(rows)
  BY DEF Rows, SetToSeqs, Injective
<1>4. rows \in Seq(Names)
  BY <1>2, <1>3
<1>5. rows \in Injection(1 .. Cardinality(S), S)
  BY <1>3 DEF Injection, IsInjective, Injective
<1>6. Cardinality(1 .. Cardinality(S)) = Cardinality(S)
  BY <1>2, FS_Interval
<1>7. rows \in Surjection(1 .. Cardinality(S), S)
  BY <1>2, <1>5, <1>6, FS_Injection
<1>8. ToSet(rows) = S
  BY <1>3, <1>7 DEF Surjection, ToSet
<1> QED BY <1>3, <1>4, <1>8

(* The statement of an object.                                             *)
LEMMA StatementFacts ==
  ASSUME NEW i \in 1 .. 9, NEW n \in Names, NEW k \in Kinds, Types
  PROVE  LET st == Statement(Sections[i], n, k) IN
         /\ st \in Stmts /\ st.kind = k /\ st.name \in {n, Garbled}
         /\ n \notin Odd => st.name = n
         /\ k \in Shows(Sections[i]) => st.safe \/ st.kind \in Access
         /\ Sections[i] = "tables" /\ macros => st.path = Reparameterize(PathOf[n])
<1> DEFINE st == Statement(Sections[i], n, k)
<1>1. /\ st.kind = k /\ st.name \in {n, Garbled} /\ (n \notin Odd => st.name = n)
      /\ Sections[i] \notin {"profiles", "policies", "quotas"} => st.safe
      /\ Sections[i] = "tables" /\ macros => st.path = Reparameterize(PathOf[n])
  BY DEF Statement, Garbles
<1>2. st \in Stmts
  <2>1. OnCluster(Sections[i], n, k) \in ToSet(Clusters) \cup {Nil}
    BY DEF OnCluster, Types
  <2> QED BY <2>1 DEF Statement, Stmts, Paths
<1>3. k \in Shows(Sections[i]) => st.safe \/ st.kind \in Access
  BY <1>1, SectionFacts
<1> QED BY <1>1, <1>2, <1>3

-----------------------------------------------------------------------------
(* Counting the statements of a name in a dump that grows.                 *)
LEMMA PlacesFinite ==
  ASSUME NEW d \in Seq(Stmts), NEW n
  PROVE  IsFiniteSet(Places(d, n)) /\ Cardinality(Places(d, n)) \in Nat
<1>1. Places(d, n) \subseteq 1 .. Len(d) /\ Len(d) \in Nat
  BY DEF Places
<1>2. IsFiniteSet(1 .. Len(d))
  BY <1>1, FS_Interval
<1>3. IsFiniteSet(Places(d, n))
  BY <1>1, <1>2, FS_Subset
<1> QED BY <1>3, FS_CardinalityType

LEMMA PlacesGrow ==
  ASSUME NEW d \in Seq(Stmts), NEW more \in Seq(Stmts), NEW n, NEW k \in DOMAIN more,
         \A i \in DOMAIN more : more[i].name = n <=> i = k
  PROVE  Cardinality(Places(d \o more, n)) = Cardinality(Places(d, n)) + 1
<1>1. Places(d \o more, n) = Places(d, n) \cup {Len(d) + k}
  BY DEF Places
<1>2. Len(d) + k \notin Places(d, n)
  BY DEF Places
<1> QED BY <1>1, <1>2, PlacesFinite, FS_AddElement

LEMMA PlacesStay ==
  ASSUME NEW d \in Seq(Stmts), NEW more \in Seq(Stmts), NEW n,
         \A i \in DOMAIN more : more[i].name # n
  PROVE  Places(d \o more, n) = Places(d, n)
BY DEF Places

LEMMA DoneFinite ==
  ASSUME NEW n
  PROVE  IsFiniteSet(Done(n)) /\ Cardinality(Done(n)) \in Nat
<1>1. Done(n) \subseteq 1 .. 9
  BY DEF Done
<1>2. IsFiniteSet(1 .. 9)
  <2>1. 1 \in Int /\ 9 \in Int
    OBVIOUS
  <2> QED BY <2>1, FS_Interval
<1>3. IsFiniteSet(Done(n))
  BY <1>1, <1>2, FS_Subset
<1> QED BY <1>3, FS_CardinalityType

-----------------------------------------------------------------------------
(* What is left to show of a step that adds statements to the dump.        *)
LEMMA DumpedStep ==
  ASSUME Dumped, dump \in Seq(Stmts), NEW more \in Seq(Stmts), dump' = dump \o more,
         \A i \in DOMAIN more : Kept(more[i]),
         UNCHANGED macros, steady' \subseteq steady,
         \A n \in steady' : catalog'[n] = catalog[n]
  PROVE  Dumped'
<1>1. ASSUME NEW st, Kept(st)  PROVE Kept(st)'
  BY <1>1 DEF Kept
<1>2. ASSUME NEW j \in DOMAIN dump'  PROVE Kept(dump'[j])
  <2>1. \/ j \in DOMAIN dump /\ dump'[j] = dump[j]
        \/ \E i \in DOMAIN more : dump'[j] = more[i]
    BY <1>2
  <2> QED BY <2>1 DEF Dumped
<1> QED BY <1>1, <1>2 DEF Dumped

(* A section deals with an object by one statement, or not at all.         *)
Deals(n, more) ==
  \E k \in DOMAIN more :
    /\ sec \in 1 .. 9 \ Done(n) /\ Done(n)' = Done(n) \cup {sec}
    /\ more[k] = Statement(Sections[sec], n, catalog[n])
    /\ n \notin Odd => \A i \in DOMAIN more : more[i].name = n <=> i = k

LeavesOut(n, more) ==
  Done(n)' = Done(n) /\ (n \notin Odd => \A i \in DOMAIN more : more[i].name # n)

LEMMA CoveredStep ==
  ASSUME Covered, dump \in Seq(Stmts), NEW more \in Seq(Stmts), dump' = dump \o more,
         UNCHANGED <<cluster, macros>>,
         \A n \in Names : Owed(n)' =>
           /\ Owed(n) /\ catalog'[n] = catalog[n]
           /\ LeavesOut(n, more) \/ Deals(n, more)
  PROVE  Covered'
<1> SUFFICES ASSUME NEW n \in Names, Owed(n)'
             PROVE  /\ \A i \in Done(n)' :
                         Statement(Sections[i], n, catalog[n])' \in ToSet(dump)'
                    /\ n \notin Odd =>
                         Cardinality(Places(dump, n))' = Cardinality(Done(n))'
  BY DEF Covered
<1>1. /\ Owed(n) /\ catalog'[n] = catalog[n]
      /\ \A i \in Done(n) : Statement(Sections[i], n, catalog[n]) \in ToSet(dump)
      /\ n \notin Odd => Cardinality(Places(dump, n)) = Cardinality(Done(n))
  BY DEF Covered
<1>2. \A i : Statement(Sections[i], n, catalog[n])' = Statement(Sections[i], n, catalog[n])
  BY <1>1 DEF Statement, Garbles, OnCluster
<1>3. ToSet(dump) \cup ToSet(more) \subseteq ToSet(dump)'
  <2>1. \A i \in DOMAIN dump : i \in DOMAIN dump' /\ dump'[i] = dump[i]
    OBVIOUS
  <2>2. \A i \in DOMAIN more :
          Len(dump) + i \in DOMAIN dump' /\ dump'[Len(dump) + i] = more[i]
    OBVIOUS
  <2>3. ASSUME NEW st \in ToSet(dump) \cup ToSet(more)
        PROVE  \E i \in DOMAIN dump' : dump'[i] = st
    <3>1. \/ \E i \in DOMAIN dump : dump[i] = st
          \/ \E i \in DOMAIN more : more[i] = st
      BY DEF ToSet
    <3> QED BY <2>1, <2>2, <3>1
  <2>4. ToSet(dump)' = {dump'[i] : i \in DOMAIN dump'}
    BY DEF ToSet
  <2> QED BY <2>3, <2>4
<1>4. Places(dump, n)' = Places(dump \o more, n)
  BY DEF Places
<1>5. CASE LeavesOut(n, more)
  <2>1. Done(n)' = Done(n) /\ (n \notin Odd => \A i \in DOMAIN more : more[i].name # n)
    BY <1>5 DEF LeavesOut
  <2>2. n \notin Odd => Places(dump, n)' = Places(dump, n)
    BY <1>4, <2>1, PlacesStay
  <2>3. n \notin Odd => Cardinality(Places(dump, n))' = Cardinality(Done(n))'
    BY <1>1, <2>1, <2>2
  <2> QED BY <1>1, <1>2, <1>3, <2>1, <2>3
<1>6. CASE Deals(n, more)
  <2>1. PICK k \in DOMAIN more :
          /\ sec \in 1 .. 9 \ Done(n) /\ Done(n)' = Done(n) \cup {sec}
          /\ more[k] = Statement(Sections[sec], n, catalog[n])
          /\ n \notin Odd => \A i \in DOMAIN more : more[i].name = n <=> i = k
    BY <1>6 DEF Deals
  <2>2. Statement(Sections[sec], n, catalog[n]) \in ToSet(more)
    BY <2>1 DEF ToSet
  <2>3. Cardinality(Done(n))' = Cardinality(Done(n)) + 1
    BY <2>1, DoneFinite, FS_AddElement
  <2>4. n \notin Odd => Cardinality(Places(dump, n))' = Cardinality(Places(dump, n)) + 1
    <3>1. n \notin Odd => Cardinality(Places(dump \o more, n)) = Cardinality(Places(dump, n)) + 1
      BY <2>1, PlacesGrow
    <3>2. Cardinality(Places(dump, n))' = Cardinality(Places(dump \o more, n))
      BY <1>4
    <3> QED BY <3>1, <3>2
  <2> QED BY <1>1, <1>2, <1>3, <2>1, <2>2, <2>3, <2>4
<1> QED BY <1>5, <1>6

-----------------------------------------------------------------------------
(* Names and sections.                                                     *)
LEMMA NameFacts ==
  /\ Nil \notin Names \cup Kinds /\ Garbled \notin Names
  /\ DbOf \in [Names -> Names \cup {Nil}] /\ KindsOf \in [Names -> SUBSET Kinds]
BY CatalogAssumption

(* An object that is owed and that a section lists is in its rows.         *)
LEMMA OwedListed ==
  ASSUME Types, Databases, sec \in 1 .. 9, NEW n \in Names, Owed(n),
         catalog[n] \in Lists[Sections[sec]]
  PROVE  /\ Sections[sec] \in InDatabase => DbOf[n] \in ToSet(dbs)
         /\ Sections[sec] = "databases" => n \in ToSet(dbs)
<1>1. catalog[n] \in KindsOf[n] /\ catalog[n] # Nil
  BY DEF Types, Owed
<1>2. ASSUME Sections[sec] \in InDatabase  PROVE DbOf[n] \in ToSet(dbs)
  <2>1. catalog[n] \in Contained /\ "database" \notin Contained
    BY <1>2, SectionFacts DEF Contained
  <2>2. DbOf[n] # Nil
    BY <1>1, <2>1, KindAssumption
  <2>3. n \notin ToSet(dbs)
    BY <1>1, <2>1 DEF Databases
  <2> QED BY <2>2, <2>3 DEF Owed, Selected
<1>3. ASSUME Sections[sec] = "databases"  PROVE n \in ToSet(dbs)
  <2>1. catalog[n] = "database"
    BY <1>3 DEF Lists
  <2>2. DbOf[n] = Nil
    BY <1>1, <2>1, KindAssumption DEF Contained
  <2>3. Nil \notin ToSet(dbs)
    BY NameFacts DEF Types, ToSet
  <2> QED BY <2>1, <2>2, <2>3 DEF Owed, Selected
<1> QED BY <1>2, <1>3

(* What a listing returns is in no database left out.                      *)
LEMMA ListedClean ==
  ASSUME Types, Databases, sec \in 2 .. 9, NEW n \in Names,
         catalog[n] \in Lists[Sections[sec]],
         Sections[sec] \in InDatabase => DbOf[n] \in ToSet(dbs)
  PROVE  Clean(n)
<1>1. catalog[n] \in Kinds /\ catalog[n] # Nil /\ catalog[n] \in KindsOf[n]
  BY SectionFacts, NameFacts DEF Types
<1>2. catalog[n] # "database"
  BY SectionFacts DEF Contained
<1>3. n \notin SystemDbs \cup Exclude
  BY <1>1, <1>2, KindAssumption
<1>4. DbOf[n] \notin SystemDbs \cup Exclude
  <2>1. CASE Sections[sec] \in InDatabase
    BY <2>1 DEF Databases
  <2>2. CASE Sections[sec] \notin InDatabase
    <3>1. catalog[n] \notin Contained
      BY <2>2, SectionFacts
    <3>2. DbOf[n] = Nil
      BY <1>1, <3>1, KindAssumption
    <3> QED BY <3>2, KindAssumption
  <2> QED BY <2>1, <2>2
<1> QED BY <1>3, <1>4 DEF Clean

(* The statement of a row.                                                 *)
LEMMA RowStatement ==
  ASSUME Types, sec \in 1 .. 9, NEW m \in Names, Clean(m),
         NEW k \in Shows(Sections[sec]),
         m \in steady => k = catalog[m] /\ k \in Lists[Sections[sec]]
  PROVE  LET st == Statement(Sections[sec], m, k) IN
         /\ st \in Stmts /\ Kept(st)
         /\ \A n \in Names \ Odd : st.name = n <=> m = n
<1> DEFINE st == Statement(Sections[sec], m, k)
<1>1. k \in Kinds
  BY SectionFacts
<1>2. /\ st \in Stmts /\ st.kind = k /\ st.name \in {m, Garbled}
      /\ m \notin Odd => st.name = m
      /\ st.safe \/ st.kind \in Access
      /\ Sections[sec] = "tables" /\ macros => st.path = Reparameterize(PathOf[m])
  BY <1>1, StatementFacts
<1> HIDE DEF st
<1>3. Kept(st)
  <2>1. st.name \in Names => st.name = m
    BY <1>2, NameFacts
  <2>2. "table" \in Lists[Sections[sec]] => Sections[sec] = "tables"
    BY SectionFacts
  <2>3. steady \subseteq Names
    BY DEF Types
  <2> QED BY <1>2, <2>1, <2>2, <2>3 DEF Kept
<1>4. \A n \in Names \ Odd : st.name = n <=> m = n
  BY <1>2, NameFacts
<1> QED BY <1>2, <1>3, <1>4 DEF st

LEMMA TailFacts ==
  ASSUME NEW seq \in Seq(Names), seq # <<>>, Injective(seq)
  PROVE  /\ Tail(seq) \in Seq(Names) /\ Injective(Tail(seq))
         /\ Head(seq) \in Names /\ Head(seq) \in ToSet(seq)
         /\ Head(seq) \notin ToSet(Tail(seq))
         /\ ToSet(seq) = {Head(seq)} \cup ToSet(Tail(seq))
<1>1. /\ Len(seq) \in Nat \ {0} /\ Head(seq) = seq[1]
      /\ Tail(seq) \in Seq(Names) /\ Len(Tail(seq)) = Len(seq) - 1
      /\ \A i \in 1 .. Len(seq) - 1 : Tail(seq)[i] = seq[i + 1]
  OBVIOUS
<1>2. DOMAIN seq = 1 .. Len(seq) /\ DOMAIN Tail(seq) = 1 .. Len(seq) - 1
  BY <1>1
<1>3. Injective(Tail(seq))
  <2> SUFFICES ASSUME NEW i \in DOMAIN Tail(seq), NEW j \in DOMAIN Tail(seq),
                      Tail(seq)[i] = Tail(seq)[j]
               PROVE  i = j
    BY DEF Injective
  <2>1. i + 1 \in DOMAIN seq /\ j + 1 \in DOMAIN seq /\ seq[i + 1] = seq[j + 1]
    BY <1>1, <1>2
  <2> QED BY <1>2, <2>1 DEF Injective
<1>4. Head(seq) \in Names /\ Head(seq) \in ToSet(seq)
  BY <1>1, <1>2 DEF ToSet
<1>5. Head(seq) \notin ToSet(Tail(seq))
  <2> SUFFICES ASSUME NEW i \in DOMAIN Tail(seq), Tail(seq)[i] = seq[1]  PROVE FALSE
    BY <1>1 DEF ToSet
  <2> QED BY <1>1, <1>2 DEF Injective
<1>6. ToSet(seq) = {Head(seq)} \cup ToSet(Tail(seq))
  <2>1. ASSUME NEW x \in ToSet(seq)  PROVE x \in {Head(seq)} \cup ToSet(Tail(seq))
    <3>1. PICK i \in DOMAIN seq : seq[i] = x
      BY DEF ToSet
    <3>2. i = 1 \/ (i - 1 \in DOMAIN Tail(seq) /\ Tail(seq)[i - 1] = x)
      BY <1>1, <1>2, <3>1
    <3> QED BY <1>1, <3>1, <3>2 DEF ToSet
  <2>2. ASSUME NEW x \in ToSet(Tail(seq))  PROVE x \in ToSet(seq)
    <3>1. PICK i \in DOMAIN Tail(seq) : Tail(seq)[i] = x
      BY DEF ToSet
    <3>2. i + 1 \in DOMAIN seq /\ seq[i + 1] = x
      BY <1>1, <1>2, <3>1
    <3> QED BY <3>2 DEF ToSet
  <2> QED BY <1>4, <2>1, <2>2
<1> QED BY <1>1, <1>3, <1>4, <1>5, <1>6

-----------------------------------------------------------------------------
(* The invariant of the extraction, step by step.                          *)
LEMMA CoveredStay ==
  ASSUME Covered, dump \in Seq(Stmts), dump' = dump, UNCHANGED <<cluster, macros>>,
         \A n \in Names : Owed(n)' =>
           Owed(n) /\ catalog'[n] = catalog[n] /\ Done(n)' = Done(n)
  PROVE  Covered'
<1>1. <<>> \in Seq(Stmts) /\ dump' = dump \o <<>>
  OBVIOUS
<1>2. \A n \in Names : Done(n)' = Done(n) => LeavesOut(n, <<>>)
  BY DEF LeavesOut
<1> QED BY <1>1, <1>2, CoveredStep

LEMMA DumpedStay ==
  ASSUME Dumped, dump \in Seq(Stmts), dump' = dump,
         UNCHANGED macros, steady' \subseteq steady,
         \A n \in steady' : catalog'[n] = catalog[n]
  PROVE  Dumped'
<1>1. <<>> \in Seq(Stmts) /\ dump' = dump \o <<>>
  OBVIOUS
<1>2. \A i \in DOMAIN <<>> : Kept(<<>>[i])
  OBVIOUS
<1> QED BY <1>1, <1>2, DumpedStep

LEMMA DatabasesStay ==
  ASSUME Databases, UNCHANGED dbs, steady' \subseteq steady,
         \A n \in steady' : catalog'[n] = catalog[n]
  PROVE  Databases'
BY DEF Databases

(* Nothing is owed of an empty dump before the first section.              *)
LEMMA CoveredAtStart ==
  ASSUME dump = <<>>, sec = 1, pc # "show"
  PROVE  Covered
<1>1. \A n : Done(n) = {} /\ Places(dump, n) = {}
  BY DEF Done, Places
<1> QED BY <1>1 DEF Covered

LEMMA DumpInvInit ==
  ASSUME DumpInit
  PROVE  DumpInv
<1>1. Types
  <2>1. /\ catalog \in [Names -> Kinds \cup {Nil}]
        /\ \A n \in Names : catalog[n] # Nil => catalog[n] \in KindsOf[n]
    BY CatalogsValid DEF DumpInit
  <2>2. events \in 0 .. MaxEvents
    BY ClusterAssumption DEF DumpInit
  <2>3. dbs \in Seq(Names) /\ todo \in Seq(Names) /\ dump \in Seq(Stmts)
    BY DEF DumpInit
  <2>4. /\ pc = "connect" /\ "connect" \in Early /\ "connect" \notin Late
        /\ sec = 1 /\ 1 \in 1 .. 10 /\ dump = <<>> /\ dbs = <<>> /\ file = "old"
        /\ cluster = Nil /\ macros = FALSE /\ steady = Names /\ missed = {}
    BY DEF DumpInit, Early, Late
  <2> QED BY <2>1, <2>2, <2>3, <2>4 DEF Types
<1>2. Databases /\ Pending /\ Dumped
  BY DEF DumpInit, Databases, Pending, Dumped, Injective, ToSet
<1>3. Covered
  BY CoveredAtStart DEF DumpInit
<1> QED BY <1>1, <1>2, <1>3 DEF DumpInv

(* Another client changes the catalog.                                     *)
LEMMA ChangeStep ==
  ASSUME DumpInv, NEW n \in Names, Create(n) \/ Drop(n)
  PROVE  DumpInv'
<1>1. /\ catalog' \in [Names -> Kinds \cup {Nil}]
      /\ \A m \in Names : catalog'[m] # Nil => catalog'[m] \in KindsOf[m]
      /\ steady' \subseteq steady /\ \A m \in steady' : catalog'[m] = catalog[m]
      /\ UNCHANGED <<script, missed>> /\ Event
  <2> catalog \in [Names -> Kinds \cup {Nil}] /\ steady \subseteq Names
    BY DEF DumpInv, Types
  <2>1. CASE Create(n)
    <3>1. PICK k \in KindsOf[n] : catalog' = [catalog EXCEPT ![n] = k]
      BY <2>1 DEF Create
    <3>2. k \in Kinds
      BY NameFacts
    <3> QED BY <2>1, <3>1, <3>2 DEF Create, DumpInv, Types
  <2>2. CASE Drop(n)
    BY <2>2 DEF Drop, DumpInv, Types
  <2> QED BY <2>1, <2>2
<1>2. UNCHANGED <<pc, cluster, macros, dbs, sec, todo, dump, file, missed>>
  BY <1>1 DEF script
<1>3. events' \in 0 .. MaxEvents
  BY <1>1, ClusterAssumption DEF Event, DumpInv, Types
<1>4. Types'
  BY <1>1, <1>2, <1>3 DEF Types, DumpInv
<1>5. Databases'
  BY <1>1, <1>2, DatabasesStay DEF DumpInv
<1>6. Pending'
  BY <1>1, <1>2 DEF Pending, DumpInv
<1>7. Dumped'
  BY <1>1, <1>2, DumpedStay DEF DumpInv, Types
<1>8. Covered'
  <2>1. ASSUME NEW m \in Names, Owed(m)'
        PROVE  Owed(m) /\ catalog'[m] = catalog[m] /\ Done(m)' = Done(m)
    BY <1>1, <1>2, <2>1 DEF Owed, Selected, Done
  <2> QED BY <1>2, <2>1, CoveredStay DEF DumpInv, Types
<1> QED BY <1>4, <1>5, <1>6, <1>7, <1>8 DEF DumpInv

(* The script goes on with the same databases, rows and statements.        *)
LEMMA QuietStep ==
  ASSUME DumpInv, UNCHANGED <<catalog, steady, cluster, macros, dbs, todo, dump>>,
         Types', pc' # "show", missed \subseteq missed',
         \A n \in Names : Owed(n)' => Done(n)' = Done(n)
  PROVE  DumpInv'
<1>1. dump \in Seq(Stmts)
  BY DEF DumpInv, Types
<1>2. Databases'
  BY DatabasesStay DEF DumpInv
<1>3. Pending'
  BY DEF Pending
<1>4. Dumped'
  BY <1>1, DumpedStay DEF DumpInv
<1>5. \A n \in Names : Owed(n)' => Owed(n)
  BY DEF Owed, Selected
<1>6. Covered'
  BY <1>1, <1>5, CoveredStay DEF DumpInv
<1> QED BY <1>2, <1>3, <1>4, <1>6 DEF DumpInv

LEMMA LeastNatural ==
  ASSUME NEW T \in SUBSET Nat, T # {}
  PROVE  \E x \in T : \A y \in T : x <= y
<1> DEFINE R == OpToRel(<, Nat)
<1>1. \A x, y \in Nat : y < x => <<y, x>> \in R
  BY DEF OpToRel
<1>2. IsWellFoundedOn(R, Nat)
  BY NatLessThanWellFounded
<1> HIDE DEF R
<1>3. PICK x \in T : \A y \in T : <<y, x>> \notin R
  BY <1>2, WFMin
<1>4. ASSUME NEW y \in T  PROVE x <= y
  <2>1. ~(y < x)
    BY <1>1, <1>3, Zenon
  <2> QED BY <2>1
<1> QED BY <1>4

LEMMA SilentFinite == IsFiniteSet(Silent)
<1>1. IsFiniteSet(Names)
  BY NamesFinite
<1>2. Silent \subseteq Names
  BY DEF Silent
<1> QED BY <1>1, <1>2, FS_Subset

(* The clusters that tables mention.                                       *)
LEMMA CandidatesListed ==
  ASSUME NEW tables \in SUBSET Names
  PROVE  /\ \A c \in Candidates(tables) : \E n \in tables : c \in Mentions[n]
         /\ Candidates(tables) = {} => \A n \in tables : Mentions[n] = {}
<1> DEFINE First(n, c) ==
      \A d \in Mentions[n] : \E i, j \in DOMAIN Clusters :
        Clusters[i] = c /\ Clusters[j] = d /\ i <= j
<1>1. ASSUME NEW n \in Names, Mentions[n] # {}
      PROVE  \E c \in Mentions[n] : First(n, c)
  <2> DEFINE At == {i \in DOMAIN Clusters : Clusters[i] \in Mentions[n]}
  <2>1. Mentions[n] \subseteq ToSet(Clusters) /\ DOMAIN Clusters \subseteq Nat
    BY ClusterAssumption
  <2>2. \A d \in Mentions[n] : \E j \in At : Clusters[j] = d
    BY <2>1 DEF ToSet
  <2>3. PICK i \in At : \A j \in At : i <= j
    <3>1. At \in SUBSET Nat /\ At # {}
      BY <1>1, <2>1, <2>2
    <3> HIDE DEF At
    <3> QED BY <3>1, LeastNatural
  <2>4. First(n, Clusters[i])
    BY <2>2, <2>3
  <2> QED BY <2>3, <2>4
<1> HIDE DEF First
<1>2. ASSUME NEW n \in Names, Mentions[n] # {}
      PROVE  (CHOOSE c \in Mentions[n] : First(n, c)) \in Mentions[n]
  BY <1>1, <1>2
<1>3. Candidates(tables) = {CHOOSE c \in Mentions[n] : First(n, c) :
                              n \in {m \in tables : Mentions[m] # {}}}
  BY DEF Candidates, First
<1>4. ASSUME NEW c \in Candidates(tables)
      PROVE  \E n \in tables : c \in Mentions[n]
  <2>1. PICK n \in tables : /\ Mentions[n] # {}
                            /\ c = CHOOSE d \in Mentions[n] : First(n, d)
    BY <1>3
  <2> QED BY <1>2, <2>1
<1>5. ASSUME Candidates(tables) = {}, NEW n \in tables
      PROVE  Mentions[n] = {}
  BY <1>3, <1>5
<1> QED BY <1>4, <1>5

(* What is read has a table that names a cluster, if there is one and the  *)
(* others are too few to fill the rows.                                    *)
LEMMA NamingTableRead ==
  ASSUME Types, NEW tables \in ResultRows, NEW n \in Names, Mentions[n] # {},
         catalog[n] = "distributed", DbOf[n] \notin SystemDbs,
         Cardinality(Silent) < RowLimit
  PROVE  tables \subseteq Names /\ \E m \in tables : Mentions[m] # {}
<1> DEFINE T == {m \in Names : catalog[m] = "distributed" /\ DbOf[m] \notin SystemDbs}
<1>1. CASE Cardinality(T) <= RowLimit
  <2>1. tables = T
    BY <1>1 DEF ResultRows
  <2> QED BY <2>1
<1>2. CASE ~(Cardinality(T) <= RowLimit)
  <2>1. tables \subseteq T /\ Cardinality(tables) = RowLimit
    BY <1>2 DEF ResultRows, kSubset
  <2>2. ASSUME \A m \in tables : Mentions[m] = {}  PROVE FALSE
    <3>1. ASSUME NEW m \in tables  PROVE m \in Silent
      <4>1. m \in Names /\ catalog[m] = "distributed" /\ DbOf[m] \notin SystemDbs
        BY <2>1
      <4>2. "distributed" \in KindsOf[m]
        <5>1. "distributed" # Nil
          BY CatalogAssumption DEF Kinds
        <5> QED BY <4>1, <5>1 DEF Types
      <4> QED BY <2>2, <4>1, <4>2 DEF Silent
    <3>2. IsFiniteSet(Silent) /\ tables \subseteq Silent
      BY <3>1, SilentFinite
    <3>3. Cardinality(tables) <= Cardinality(Silent)
      BY <3>2, FS_Subset
    <3>4. Cardinality(Silent) \in Nat /\ RowLimit \in Nat
      BY <3>2, FS_CardinalityType, ClusterAssumption
    <3> QED BY <2>1, <3>3, <3>4
  <2> QED BY <2>1, <2>2
<1> QED BY <1>1, <1>2

(* Up to the listing of the databases the dump is empty.                   *)
LEMMA StartupStep ==
  ASSUME DumpInv, Connect \/ Resolve \/ GetMacros \/ GetDatabases
  PROVE  DumpInv'
<1>1. /\ pc \in Early /\ sec = 1 /\ dump = <<>> /\ dbs = <<>>
      /\ UNCHANGED <<catalog, steady, sec, todo, dump, file>>
  BY DEF Connect, Resolve, GetMacros, GetDatabases, Exit, Early, DumpInv, Types
<1>2. /\ pc' \in Early \cup {"list", "failed"} /\ events' \in 0 .. MaxEvents
      /\ missed' \subseteq Names \cup {Nil}
      /\ pc' \in Early => dbs' = <<>>
  <2> events \in 0 .. MaxEvents /\ missed \subseteq Names \cup {Nil} /\ dbs = <<>>
    BY <1>1 DEF DumpInv, Types
  <2>0. Event => events' \in 0 .. MaxEvents
    BY ClusterAssumption DEF Event
  <2>1. CASE Connect
    BY <2>0, <2>1 DEF Connect, Exit, Early
  <2>2. CASE Resolve
    BY <2>0, <2>2 DEF Resolve, Early
  <2>3. CASE GetMacros
    BY <2>0, <2>3 DEF GetMacros, Early
  <2>4. CASE GetDatabases
    BY <2>0, <2>4 DEF GetDatabases, Exit, Early
  <2> QED BY <2>1, <2>2, <2>3, <2>4
<1>3. cluster' \in ToSet(Clusters) \cup {Nil}
  <2>1. cluster \in ToSet(Clusters) \cup {Nil}
    BY DEF DumpInv, Types
  <2>2. CASE Resolve
    <3>1. Len(Clusters) \in Nat /\ (Len(Clusters) # 0 => Clusters[1] \in ToSet(Clusters))
      BY ClusterAssumption DEF ToSet
    <3>2. ASSUME NEW tables \in ResultRows
          PROVE  Candidates(tables) \subseteq ToSet(Clusters)
      <4>1. tables \subseteq Names
        BY DEF ResultRows, kSubset
      <4> QED BY <4>1, CandidatesListed, ClusterAssumption
    <3> QED BY <2>2, <3>1, <3>2 DEF Resolve
  <2>3. CASE UNCHANGED cluster
    BY <2>1, <2>3
  <2> QED BY <2>2, <2>3 DEF Connect, GetMacros, GetDatabases, Exit
<1>4. macros' \in BOOLEAN
  BY DEF Connect, Resolve, GetMacros, GetDatabases, Exit, DumpInv, Types
<1>5. dbs' \in Seq(Names) /\ Databases'
  <2>1. CASE UNCHANGED dbs
    BY <1>1, <2>1, DatabasesStay DEF DumpInv, Types
  <2>2. CASE dbs' # dbs
    <3> DEFINE D == {n \in Names : /\ catalog[n] = "database"
                                   /\ n \notin SystemDbs \cup Exclude
                                   /\ Include # {} => n \in Include}
    <3>1. dbs' \in Rows(D)
      BY <2>2 DEF Connect, Resolve, GetMacros, GetDatabases, Exit
    <3>2. dbs' \in Seq(Names) /\ Injective(dbs') /\ ToSet(dbs') = D
      BY <3>1, RowsFacts
    <3>3. \A d \in D : KindsOf[d] = {"database"}
      BY KindAssumption, NameFacts DEF DumpInv, Types, Kinds
    <3> QED BY <1>1, <3>2, <3>3 DEF Databases
  <2> QED BY <2>1, <2>2
<1>6. Types'
  BY <1>1, <1>2, <1>3, <1>4, <1>5 DEF DumpInv, Types, Early, Late
<1>7. Pending' /\ Dumped'
  BY <1>1, <1>2 DEF Pending, Dumped, Early
<1>8. Covered'
  <2>1. \A n : Done(n)' = {} /\ Places(dump, n)' = {}
    BY <1>1, <1>2 DEF Done, Places, Early
  <2> QED BY <2>1 DEF Covered
<1> QED BY <1>5, <1>6, <1>7, <1>8 DEF DumpInv

(* The file is written, or main fails.                                     *)
LEMMA WriteStep ==
  ASSUME DumpInv, Open \/ Write
  PROVE  DumpInv'
<1>1. /\ UNCHANGED <<catalog, steady, cluster, macros, dbs, todo, dump, sec, missed>>
      /\ pc \in {"write", "writing"} /\ sec = 10
      /\ pc' \in {"writing", "written", "failed"}
  BY DEF Open, Write, Exit, DumpInv, Types, Late
<1>2. file' \in {"old", "partial", "new"} /\ (file' = "new" <=> pc' = "written")
  BY DEF Open, Write, Exit, DumpInv, Types
<1>3. events' \in 0 .. MaxEvents
  BY ClusterAssumption DEF Open, Write, Event, DumpInv, Types
<1>4. Types'
  BY <1>1, <1>2, <1>3 DEF DumpInv, Types, Early, Late
<1>5. \A n \in Names : Done(n)' = Done(n)
  BY <1>1 DEF Done
<1> QED BY <1>1, <1>4, <1>5, QuietStep

(* A section that makes no query, or ends.                                 *)
LEMMA TurnTypes ==
  ASSUME Types, pc \in {"list", "show"}, NextSection,
         UNCHANGED <<catalog, steady, cluster, macros, dbs, todo, file>>,
         dump' \in Seq(Stmts), missed' \subseteq Names \cup {Nil},
         events' \in 0 .. MaxEvents
  PROVE  Types' /\ sec \in 1 .. 9 /\ sec' = sec + 1 /\ pc' # "show"
<1>1. sec \in 1 .. 9 /\ Len(Sections) = 9
  BY SectionFacts DEF Types
<1>2. sec' \in 2 .. 10 /\ sec' = sec + 1 /\ pc' \in {"list", "write"}
      /\ (sec' = 10 <=> pc' = "write")
  BY <1>1 DEF NextSection
<1>3. file # "new"
  BY DEF Types
<1> QED BY <1>1, <1>2, <1>3 DEF Types, Early, Late

(* A whole section is written at once.                                     *)
LEMMA BulkStep ==
  ASSUME DumpInv, pc = "list", NextSection,
         UNCHANGED <<catalog, steady, cluster, macros, dbs, todo, file, missed, events>>,
         NEW rows \in Seq(Names), Injective(rows), \A m \in ToSet(rows) : Clean(m),
         \A n \in Names : Owed(n) =>
           (n \in ToSet(rows) <=> catalog[n] \in Lists[Sections[sec]]),
         NEW more, dump' = dump \o more, Len(more) = Len(rows),
         NEW K \in [1 .. Len(rows) -> Lists[Sections[sec]]],
         more = [j \in 1 .. Len(rows) |-> Statement(Sections[sec], rows[j], K[j])],
         \A j \in 1 .. Len(rows) : rows[j] \in steady => K[j] = catalog[rows[j]]
  PROVE  DumpInv'
<1>1. sec \in 1 .. 9 /\ Types /\ dump \in Seq(Stmts)
  BY DEF DumpInv, Types
<1>2. Len(rows) \in Nat /\ DOMAIN rows = 1 .. Len(rows) /\ DOMAIN more = 1 .. Len(rows)
  OBVIOUS
<1>3. ASSUME NEW j \in 1 .. Len(rows)
      PROVE  /\ more[j] = Statement(Sections[sec], rows[j], K[j])
             /\ more[j] \in Stmts /\ Kept(more[j])
             /\ \A n \in Names \ Odd : more[j].name = n <=> rows[j] = n
  <2>1. K[j] \in Lists[Sections[sec]] /\ K[j] \in Shows(Sections[sec])
    BY <1>1, SectionFacts
  <2>2. rows[j] \in Names /\ Clean(rows[j])
    <3>1. rows[j] \in Names
      BY <1>2
    <3>2. rows[j] \in ToSet(rows)
      BY <1>2, Zenon DEF ToSet
    <3> QED BY <3>1, <3>2
  <2>3. more[j] = Statement(Sections[sec], rows[j], K[j])
    OBVIOUS
  <2> QED BY <1>1, <2>1, <2>2, <2>3, RowStatement
<1>4. more \in Seq(Stmts)
  <2>1. \A j \in 1 .. Len(rows) : more[j] \in Stmts
    BY <1>3
  <2>2. more \in [1 .. Len(rows) -> Stmts]
    BY <2>1, Zenon
  <2>3. \A f \in [1 .. Len(rows) -> Stmts] : f \in Seq(Stmts)
    BY <1>2
  <2> QED BY <2>2, <2>3
<1>5. Types' /\ sec' = sec + 1 /\ pc' # "show"
  <2>1. dump' \in Seq(Stmts)
    BY <1>1, <1>4
  <2>2. missed' \subseteq Names \cup {Nil} /\ events' \in 0 .. MaxEvents
    BY DEF DumpInv, Types
  <2> QED BY <1>1, <2>1, <2>2, TurnTypes
<1>6. Databases' /\ Pending'
  BY <1>5, DatabasesStay DEF Pending, DumpInv
<1>7. Dumped'
  BY <1>1, <1>2, <1>3, <1>4, DumpedStep DEF DumpInv
<1>a. ASSUME NEW n \in Names
      PROVE  /\ sec \notin Done(n)
             /\ catalog[n] \in Lists[Sections[sec]] => Done(n)' = Done(n) \cup {sec}
             /\ catalog[n] \notin Lists[Sections[sec]] => Done(n)' = Done(n)
  <2>1. Done(n) = {i \in 1 .. 9 : catalog[n] \in Lists[Sections[i]] /\ i < sec}
    BY DEF Done
  <2>2. Done(n)' = {i \in 1 .. 9 : catalog[n] \in Lists[Sections[i]] /\ i < sec + 1}
    BY <1>5 DEF Done
  <2> HIDE DEF Done
  <2>3. \A i \in 1 .. 9 : i < sec + 1 <=> i < sec \/ i = sec
    BY <1>1
  <2>4. Done(n)' = Done(n) \cup {i \in {sec} : catalog[n] \in Lists[Sections[i]]}
    BY <1>1, <2>1, <2>2, <2>3
  <2>5. sec \notin Done(n)
    BY <1>1, <2>1
  <2> QED BY <2>4, <2>5
<1>8. Covered'
  <2>1. ASSUME NEW n \in Names, Owed(n)
        PROVE  LeavesOut(n, more) \/ Deals(n, more)
    <3>1. CASE n \in ToSet(rows)
      <4>1. PICK j \in DOMAIN rows : rows[j] = n
        BY <3>1 DEF ToSet
      <4>2. catalog[n] \in Lists[Sections[sec]] /\ K[j] = catalog[n]
        BY <1>2, <2>1, <3>1, <4>1 DEF Owed
      <4>3. sec \notin Done(n) /\ Done(n)' = Done(n) \cup {sec}
        BY <1>a, <4>2
      <4>4. more[j] = Statement(Sections[sec], n, catalog[n])
        BY <1>2, <1>3, <4>1, <4>2
      <4>5. n \notin Odd => \A i \in DOMAIN more : more[i].name = n <=> i = j
        BY <1>2, <1>3, <4>1 DEF Injective
      <4> QED BY <1>1, <1>2, <4>1, <4>3, <4>4, <4>5 DEF Deals
    <3>2. CASE n \notin ToSet(rows)
      <4>1. Done(n)' = Done(n)
        BY <1>a, <2>1, <3>2
      <4>2. n \notin Odd => \A i \in DOMAIN more : more[i].name # n
        BY <1>2, <1>3, <3>2 DEF ToSet
      <4> QED BY <4>1, <4>2 DEF LeavesOut
    <3> QED BY <3>1, <3>2
  <2>2. \A n \in Names : Owed(n)' => Owed(n)
    BY DEF Owed, Selected
  <2> QED BY <1>1, <1>4, <2>1, <2>2, CoveredStep DEF DumpInv
<1> QED BY <1>5, <1>6, <1>7, <1>8 DEF DumpInv

(* A section that is left without a statement more.                        *)
LEMMA SkipStep ==
  ASSUME DumpInv, pc \in {"list", "show"}, NextSection,
         UNCHANGED <<catalog, steady, cluster, macros, dbs, todo, file, dump>>,
         events' \in 0 .. MaxEvents,
         missed \subseteq missed', missed' \subseteq Names \cup {Nil},
         \A n \in Names : Owed(n)' /\ catalog[n] \in Lists[Sections[sec]] =>
           pc = "show" /\ n \notin ToSet(todo)
  PROVE  DumpInv'
<1>1. Types' /\ sec \in 1 .. 9 /\ sec' = sec + 1 /\ pc' # "show"
  BY TurnTypes DEF DumpInv, Types
<1>2. ASSUME NEW n \in Names, Owed(n)'  PROVE Done(n)' = Done(n)
  BY <1>1, <1>2 DEF Done
<1> QED BY <1>1, <1>2, QuietStep

LEMMA ListNothingStep ==
  ASSUME DumpInv, ListNothing
  PROVE  DumpInv'
<1>1. /\ pc = "list" /\ NextSection /\ sec \in 1 .. 9 /\ dump \in Seq(Stmts) /\ dbs \in Seq(Names)
      /\ UNCHANGED <<catalog, steady, cluster, macros, dbs, todo, file, missed, events>>
  BY DEF ListNothing, DumpInv, Types
<1>2. CASE Sections[sec] = "databases"
  <2> DEFINE K == [j \in 1 .. Len(dbs) |-> "database"]
             more == [j \in 1 .. Len(dbs) |-> Statement(Sections[sec], dbs[j], K[j])]
  <2>1. DOMAIN dbs = 1 .. Len(dbs) /\ Len(dbs) \in Nat /\ Len(more) = Len(dbs)
    BY <1>1
  <2>2. dump' = dump \o more
    BY <1>2, <2>1 DEF ListNothing
  <2>3. Lists[Sections[sec]] = {"database"}
    BY <1>2 DEF Lists
  <2>4. K \in [1 .. Len(dbs) -> Lists[Sections[sec]]]
    BY <2>3
  <2>5. Injective(dbs)
    BY DEF DumpInv, Databases
  <2>6. ASSUME NEW d \in ToSet(dbs)
        PROVE  d \in Names /\ Clean(d) /\ (d \in steady => catalog[d] = "database")
    <3>1. d \in Names
      BY <1>1 DEF ToSet
    <3>2. KindsOf[d] = {"database"} /\ d \notin SystemDbs \cup Exclude
          /\ (d \in steady => catalog[d] = "database")
      BY DEF DumpInv, Databases
    <3>3. DbOf[d] = Nil
      BY <3>1, <3>2, KindAssumption DEF Contained
    <3> QED BY <3>1, <3>2, <3>3, KindAssumption DEF Clean
  <2>7. ASSUME NEW n \in Names, Owed(n)
        PROVE  n \in ToSet(dbs) <=> catalog[n] \in Lists[Sections[sec]]
    BY <1>1, <1>2, <2>3, <2>6, <2>7, OwedListed DEF Owed, DumpInv
  <2>8. \A j \in 1 .. Len(dbs) : dbs[j] \in steady => K[j] = catalog[dbs[j]]
    BY <2>1, <2>6 DEF ToSet
  <2> HIDE DEF K
  <2>9. \A d \in ToSet(dbs) : Clean(d)
    BY <2>6
  <2> QED BY <1>1, <2>1, <2>2, <2>4, <2>5, <2>7, <2>8, <2>9, BulkStep
<1>3. CASE Sections[sec] # "databases"
  <2>1. Sections[sec] \in InDatabase /\ dbs = <<>> /\ dump' = dump
    BY <1>1, <1>3 DEF ListNothing
  <2>2. ToSet(dbs) = {}
    BY <2>1 DEF ToSet
  <2>3. \A n \in Names : Owed(n)' => Owed(n)
    BY <1>1 DEF Owed, Selected
  <2>4. \A n \in Names : Owed(n)' => catalog[n] \notin Lists[Sections[sec]]
    BY <1>1, <2>1, <2>2, <2>3, OwedListed DEF DumpInv
  <2>5. missed \subseteq missed' /\ missed' \subseteq Names \cup {Nil} /\ events' \in 0 .. MaxEvents
    BY <1>1 DEF DumpInv, Types
  <2> QED BY <1>1, <2>1, <2>4, <2>5, SkipStep
<1> QED BY <1>2, <1>3

LEMMA ListStep ==
  ASSUME DumpInv, List
  PROVE  DumpInv'
<1> DEFINE S == {n \in Names : /\ catalog[n] \in Lists[Sections[sec]]
                               /\ Sections[sec] \in InDatabase => DbOf[n] \in ToSet(dbs)}
<1>1. PICK rows \in Rows(S) :
        \/ pc' = "show" /\ todo' = rows /\ UNCHANGED <<sec, dump>>
        \/ /\ Sections[sec] = "functions"
           /\ dump' = dump \o Statements("functions", rows)
           /\ NextSection /\ UNCHANGED todo
  BY DEF List, Listing
<1>2. rows \in Seq(Names) /\ Injective(rows) /\ ToSet(rows) = S
  BY RowsFacts
<1>3. /\ pc = "list" /\ sec \in 2 .. 9 /\ Types /\ Databases /\ dump \in Seq(Stmts)
      /\ UNCHANGED <<catalog, cluster, macros, dbs, file, steady, missed, events>>
  BY SectionFacts DEF List, Queries, DumpInv, Types, Sections
<1>4. \A m \in ToSet(rows) : Clean(m) /\ catalog[m] \in Lists[Sections[sec]]
  BY <1>2, <1>3, ListedClean
<1>5. \A n \in Names : Owed(n) => (n \in ToSet(rows) <=> catalog[n] \in Lists[Sections[sec]])
  <2>1. sec \in 1 .. 9
    BY <1>3
  <2> QED BY <1>2, <1>3, <2>1, OwedListed
<1> HIDE DEF S
<1>6. CASE pc' = "show" /\ todo' = rows /\ UNCHANGED <<sec, dump>>
  <2>1. Types'
    BY <1>2, <1>3, <1>6 DEF Types, Early, Late
  <2>2. Databases'
    BY <1>3, DatabasesStay
  <2>3. Pending'
    BY <1>2, <1>3, <1>4, <1>6 DEF Pending
  <2>4. Dumped'
    BY <1>3, <1>6, DumpedStay DEF DumpInv
  <2>5. ASSUME NEW n \in Names, Owed(n)'  PROVE Owed(n) /\ Done(n)' = Done(n)
    <3>1. Owed(n)
      BY <1>3, <2>5 DEF Owed, Selected
    <3>2. catalog[n] \in Lists[Sections[sec]] => n \in ToSet(todo')
      BY <1>5, <1>6, <3>1
    <3> QED BY <1>3, <1>6, <3>1, <3>2 DEF Done
  <2>6. Covered'
    BY <1>3, <1>6, <2>5, CoveredStay DEF DumpInv
  <2> QED BY <2>1, <2>2, <2>3, <2>4, <2>6 DEF DumpInv
<1>7. CASE /\ Sections[sec] = "functions"
           /\ dump' = dump \o Statements("functions", rows)
           /\ NextSection /\ UNCHANGED todo
  <2> DEFINE K == [j \in 1 .. Len(rows) |-> catalog[rows[j]]]
             more == [j \in 1 .. Len(rows) |-> Statement(Sections[sec], rows[j], K[j])]
  <2>1. DOMAIN rows = 1 .. Len(rows) /\ Len(rows) \in Nat /\ Len(more) = Len(rows)
    BY <1>2
  <2>2. dump' = dump \o more
    BY <1>7, <2>1 DEF Statements
  <2>3. K \in [1 .. Len(rows) -> Lists[Sections[sec]]]
    BY <1>4, <2>1 DEF ToSet
  <2>4. \A j \in 1 .. Len(rows) : rows[j] \in steady => K[j] = catalog[rows[j]]
    OBVIOUS
  <2> HIDE DEF K
  <2> QED BY <1>2, <1>3, <1>4, <1>5, <1>7, <2>1, <2>2, <2>3, <2>4, BulkStep
<1> QED BY <1>1, <1>6, <1>7

LEMMA ListFailsStep ==
  ASSUME DumpInv, ListFails
  PROVE  DumpInv'
<1>1. /\ pc = "list" /\ sec \in 1 .. 9 /\ Types
      /\ UNCHANGED <<catalog, file, steady, cluster, macros, dbs, todo, dump>>
      /\ events' \in 0 .. MaxEvents
  BY ClusterAssumption DEF ListFails, Exit, Event, DumpInv, Types
<1>2. CASE pc' = "failed" /\ UNCHANGED <<sec, missed>>
  <2>1. Types'
    BY <1>1, <1>2 DEF Types, Early, Late
  <2>2. \A n \in Names : Done(n)' = Done(n)
    BY <1>1, <1>2 DEF Done
  <2> QED BY <1>1, <1>2, <2>1, <2>2, QuietStep
<1>3. CASE /\ missed' = missed \cup {n \in Names : catalog[n] \in Lists[Sections[sec]]}
           /\ NextSection
  <2>1. missed \subseteq missed' /\ missed' \subseteq Names \cup {Nil}
    BY <1>1, <1>3 DEF Types
  <2>2. \A n \in Names : Owed(n)' => catalog[n] \notin Lists[Sections[sec]]
    BY <1>1, <1>3 DEF Owed
  <2> QED BY <1>1, <1>3, <2>1, <2>2, SkipStep
<1> QED BY <1>2, <1>3 DEF ListFails, Exit

LEMMA SectionDoneStep ==
  ASSUME DumpInv, SectionDone
  PROVE  DumpInv'
<1>1. /\ pc = "show" /\ todo = <<>> /\ NextSection
      /\ UNCHANGED <<catalog, cluster, macros, dbs, todo, dump, file, steady, missed, events>>
  BY DEF SectionDone
<1>2. ToSet(todo) = {}
  BY <1>1 DEF ToSet
<1>3. events' \in 0 .. MaxEvents /\ missed \subseteq missed' /\ missed' \subseteq Names \cup {Nil}
  BY <1>1 DEF DumpInv, Types
<1> QED BY <1>1, <1>2, <1>3, SkipStep

(* The next row is shown, or is skipped.                                   *)
LEMMA ShowStep ==
  ASSUME DumpInv, Show \/ ShowFails
  PROVE  DumpInv'
<1> DEFINE s == Sections[sec]
<1>1. /\ pc = "show" /\ todo # <<>> /\ todo' = Tail(todo) /\ sec \in 2 .. 9 /\ sec \in 1 .. 9
      /\ Types /\ Databases /\ dump \in Seq(Stmts) /\ todo \in Seq(Names)
      /\ UNCHANGED <<catalog, pc, cluster, macros, dbs, sec, file, steady>>
  BY DEF Show, ShowFails, DumpInv, Types
<1>2. PICK m \in Names :
        /\ m = Head(todo) /\ m \notin ToSet(Tail(todo))
        /\ Tail(todo) \in Seq(Names) /\ Injective(Tail(todo))
        /\ ToSet(todo) = {m} \cup ToSet(Tail(todo))
  BY <1>1, TailFacts DEF DumpInv, Pending
<1>3. Clean(m) /\ (m \in steady => catalog[m] \in Lists[s])
  BY <1>1, <1>2 DEF DumpInv, Pending
<1>4. Pending'
  BY <1>1, <1>2 DEF DumpInv, Pending
<1>5. Databases'
  BY <1>1, DatabasesStay
<1>6. ASSUME NEW n \in Names, n # m  PROVE Done(n)' = Done(n)
  <2>1. n \in ToSet(todo) <=> n \in ToSet(todo')
    BY <1>1, <1>2, <1>6
  <2> QED BY <1>1, <2>1 DEF Done
<1>7. CASE Show /\ catalog[m] \in Shows(s)
  <2> DEFINE st == Statement(s, m, catalog[m])
             more == <<st>>
  <2>1. /\ st \in Stmts /\ Kept(st)
        /\ \A n \in Names \ Odd : st.name = n <=> m = n
    BY <1>1, <1>2, <1>3, <1>7, RowStatement
  <2>2. dump' = Append(dump, st) /\ UNCHANGED <<missed, events>>
    BY <1>2, <1>7 DEF Show
  <2>3. more[1] = st /\ DOMAIN more = {1}
    OBVIOUS
  <2> HIDE DEF st
  <2>4. more \in Seq(Stmts) /\ dump' = dump \o more /\ dump' \in Seq(Stmts)
    BY <1>1, <2>1, <2>2
  <2> HIDE DEF more
  <2>5. Types'
    BY <1>1, <1>2, <2>2, <2>4 DEF Types
  <2>6. Dumped'
    BY <1>1, <2>1, <2>3, <2>4, DumpedStep DEF DumpInv
  <2>7. ASSUME NEW n \in Names, Owed(n)
        PROVE  LeavesOut(n, more) \/ Deals(n, more)
    <3>1. CASE n = m
      <4>1. catalog[m] \in Lists[s] /\ m \in ToSet(todo) /\ m \notin ToSet(todo')
        BY <1>1, <1>2, <1>3, <2>7, <3>1 DEF Owed
      <4>2. sec \notin Done(m)
        BY <1>1, <4>1 DEF Done
      <4>3. Done(m)' = Done(m) \cup {sec}
        BY <1>1, <4>1 DEF Done
      <4> QED BY <1>1, <2>1, <2>3, <3>1, <4>2, <4>3 DEF Deals, st
    <3>2. CASE n # m
      BY <1>6, <2>1, <2>3, <3>2 DEF LeavesOut
    <3> QED BY <3>1, <3>2
  <2>8. \A n \in Names : Owed(n)' => Owed(n)
    BY <1>1, <2>2 DEF Owed, Selected
  <2>9. Covered'
    BY <1>1, <2>4, <2>7, <2>8, CoveredStep DEF DumpInv
  <2> QED BY <1>4, <1>5, <2>5, <2>6, <2>9 DEF DumpInv
<1>8. CASE UNCHANGED dump
  <2>1. events' \in 0 .. MaxEvents /\ missed \subseteq missed' /\ missed' \subseteq Names \cup {Nil}
    BY <1>1, <1>2, ClusterAssumption DEF Show, ShowFails, Event, Types
  <2>2. Types'
    BY <1>1, <1>2, <1>8, <2>1 DEF Types
  <2>3. Dumped'
    BY <1>1, <1>8, DumpedStay DEF DumpInv
  <2>4. ASSUME Owed(m)'  PROVE FALSE
    <3>1. m \in steady /\ m \notin missed'
      BY <1>1, <2>4 DEF Owed
    <3>2. catalog[m] \in Shows(s)
      BY <1>1, <1>3, <3>1, SectionFacts
    <3>3. CASE Show
      <4>1. dump' = Append(dump, Statement(s, m, catalog[m]))
        BY <1>2, <3>2, <3>3 DEF Show
      <4>2. Len(Append(dump, Statement(s, m, catalog[m]))) = Len(dump) + 1 /\ Len(dump) \in Nat
        BY <1>1
      <4> QED BY <1>8, <4>1, <4>2
    <3>4. CASE ShowFails
      BY <1>2, <3>1, <3>4 DEF ShowFails
    <3> QED BY <3>3, <3>4
  <2>5. \A n \in Names : Owed(n)' => Owed(n) /\ Done(n)' = Done(n)
    BY <1>1, <1>6, <2>1, <2>4 DEF Owed, Selected
  <2>6. Covered'
    BY <1>1, <1>8, <2>5, CoveredStay DEF DumpInv
  <2> QED BY <1>4, <1>5, <2>2, <2>3, <2>6 DEF DumpInv
<1> QED BY <1>2, <1>7, <1>8 DEF Show, ShowFails

LEMMA DumpInvStep ==
  ASSUME DumpInv, DumpNext
  PROVE  DumpInv'
<1>1. ASSUME DumpStep  PROVE DumpInv'
  BY <1>1, StartupStep, WriteStep, ListNothingStep, ListStep, ListFailsStep, ShowStep,
     SectionDoneStep DEF DumpStep
<1> QED BY <1>1, ChangeStep DEF DumpNext

-----------------------------------------------------------------------------
(* The replay.                                                             *)
LEMMA TargetsAreNodes ==
  ASSUME NEW st \in Stmts
  PROVE  Targets(st) \subseteq Nodes
<1>1. st.cluster \in ToSet(Clusters) \cup {Nil}
  BY DEF Stmts
<1> QED BY <1>1, ClusterAssumption, ReplayAssumption DEF Targets

(* Rewritten paths that name the shard at one place are apart on servers   *)
(* of different shards.                                                    *)
LEMMA MarkedRewritten ==
  ASSUME NEW p, NEW i \in DOMAIN p.dir, Marked(p, i)
  PROVE  i \in DOMAIN Reparameterize(p).dir /\ Reparameterize(p).dir[i] = "{shard}"
<1>1. Reparameterize(p).dir =
        [j \in DOMAIN p.dir |-> IF Replaced(p.dir)[j] THEN "{shard}" ELSE p.dir[j]]
  BY DEF Reparameterize
<1>2. p.dir[i] = "{shard}" \/ Replaced(p.dir)[i]
  BY DEF Marked
<1> QED BY <1>1, <1>2, Zenon

LEMMA OwnRewritten ==
  ASSUME NEW p, Own(p)
  PROVE  Reparameterize(p).replica = "{replica}"
BY DEF Own, Reparameterize

LEMMA PathsApart ==
  ASSUME NEW st, NEW n, NEW other, NEW m, ShardOf[n] # ShardOf[m], ByShard(st, other),
         st.path = Reparameterize(PathOf[st.name]),
         other.path = Reparameterize(PathOf[other.name])
  PROVE  Replica(st, n).dir # Replica(other, m).dir
<1> DEFINE p == PathOf[st.name]
           q == PathOf[other.name]
<1>1. PICK i \in DOMAIN p.dir \cap DOMAIN q.dir : Marked(p, i) /\ Marked(q, i)
  BY DEF ByShard
<1>2. i \in DOMAIN st.path.dir /\ st.path.dir[i] = "{shard}"
  BY <1>1, MarkedRewritten
<1>3. i \in DOMAIN other.path.dir /\ other.path.dir[i] = "{shard}"
  BY <1>1, MarkedRewritten
<1>4. Replica(st, n).dir[i] = ShardOf[n] /\ Replica(other, m).dir[i] = ShardOf[m]
  BY <1>2, <1>3 DEF Replica
<1> QED BY <1>4

LEMMA ReplicasApart ==
  ASSUME Types, NEW st \in ToSet(dump), Kept(st), NEW other \in ToSet(dump), Kept(other),
         NEW n, NEW m, Clash(st, n, other, m)
  PROVE  ~TellApart(st, n, other, m)
<1> SUFFICES ASSUME TellApart(st, n, other, m)  PROVE FALSE
  OBVIOUS
<1>1. /\ macros /\ {st.name, other.name} \subseteq steady
      /\ st.kind = "table" /\ other.kind = "table" /\ Replica(st, n) = Replica(other, m)
  BY DEF TellApart, Rewritten, Clash
<1>2. /\ st.path = Reparameterize(PathOf[st.name])
      /\ other.path = Reparameterize(PathOf[other.name])
  BY <1>1 DEF Kept
<1>3. CASE ShardOf[n] # ShardOf[m] /\ ByShard(st, other)
  BY <1>1, <1>2, <1>3, PathsApart
<1>4. CASE /\ ReplicaOf[n] # ReplicaOf[m]
           /\ Own(PathOf[st.name]) /\ Own(PathOf[other.name])
  <2>1. st.path.replica = "{replica}" /\ other.path.replica = "{replica}"
    BY <1>2, <1>4, OwnRewritten
  <2>2. Replica(st, n).replica = ReplicaOf[n] /\ Replica(other, m).replica = ReplicaOf[m]
    BY <2>1 DEF Replica
  <2> QED BY <1>1, <1>4, <2>2
<1> QED BY <1>3, <1>4 DEF TellApart

LEMMA ReplayedStep ==
  ASSUME Types, Types', Replayed, Next
  PROVE  Replayed'
<1>1. dump \in Seq(Stmts) /\ Len(dump) \in Nat
  BY DEF Types
<1>2. CASE Dump
  <2>1. pc # "written" /\ UNCHANGED target
    BY <1>2 DEF Dump, DumpNext, Running
  <2>2. /\ have' = [n \in Nodes |-> {}] /\ pos' = 0 /\ outcome' = "none"
        /\ replays' \in 0 .. MaxReplays
    BY <2>1 DEF Replayed, target
  <2>3. Len(dump') \in Nat
    BY DEF Types
  <2> QED BY <2>2, <2>3 DEF Replayed
<1>3. CASE Start
  BY <1>1, <1>3, ReplayAssumption DEF Start, dumpVars, script, Replayed, Has, Targets, ToSet
<1>4. CASE Execute
  <2>1. UNCHANGED <<dumpVars, replays>> /\ pc' = pc /\ dump' = dump
    BY <1>4 DEF Execute, dumpVars, script
  <2>2. pos \in 1 .. Len(dump) /\ outcome = "running" /\ pc = "written"
    BY <1>1, <1>4 DEF Execute, Replayed
  <2>3. PICK st \in Stmts : st = dump[pos] /\ st \in ToSet(dump)
    BY <1>1, <2>2 DEF ToSet
  <2>4. PICK made \in SUBSET Able(st) :
          /\ have' = [n \in Nodes |-> IF n \in made THEN have[n] \cup {st} ELSE have[n]]
          /\ IF \A n \in Targets(st) : n \in made \/ Acceptable(st, n)
             THEN pos' = pos + 1 /\ UNCHANGED outcome
             ELSE outcome' = "stopped" /\ UNCHANGED pos
    BY <1>4, <2>3 DEF Execute
  <2>5. have' \in [Nodes -> SUBSET ToSet(dump')]
    BY <2>1, <2>4, <2>3 DEF Replayed
  <2>6. \A n \in Nodes : have[n] \subseteq have'[n]
    BY <2>4 DEF Replayed
  <2>7. \A n \in Nodes : \A name : Has(n, name) => Has(n, name)'
    BY <2>6 DEF Has
  <2>8. \A j \in 1 .. pos - 1 : \A n \in Targets(dump[j]) : Has(n, dump[j].name)'
    <3>1. \A j \in 1 .. pos - 1 : dump[j] \in Stmts
      BY <1>1, <2>2
    <3> QED BY <2>1, <2>7, <3>1, TargetsAreNodes DEF Replayed
  <2>9. CASE \A n \in Targets(st) : n \in made \/ Acceptable(st, n)
    <3>1. ASSUME NEW n \in Targets(st)  PROVE Has(n, st.name)'
      <4>1. n \in Nodes
        BY <2>3, TargetsAreNodes
      <4>2. CASE n \in made
        BY <2>4, <4>1, <4>2 DEF Has
      <4>3. CASE Acceptable(st, n)
        BY <2>7, <4>1, <4>3 DEF Acceptable
      <4> QED BY <2>9, <4>2, <4>3
    <3>2. pos' = pos + 1 /\ outcome' = "running"
      BY <2>2, <2>4, <2>9
    <3>3. \A j \in 1 .. pos' - 1 : \A n \in Targets(dump[j]) : Has(n, dump[j].name)'
      <4> SUFFICES ASSUME NEW j \in 1 .. pos' - 1, NEW n \in Targets(dump[j])
                   PROVE  Has(n, dump[j].name)'
        OBVIOUS
      <4>1. j \in 1 .. pos - 1 \/ j = pos
        BY <1>1, <2>2, <3>2
      <4>2. CASE j \in 1 .. pos - 1
        BY <2>8, <4>2
      <4>3. CASE j = pos
        BY <2>1, <2>3, <3>1, <4>3
      <4> QED BY <4>1, <4>2, <4>3
    <3>4. \A j : Targets(dump[j])' = Targets(dump[j])
      BY <2>1 DEF Targets
    <3> QED BY <2>1, <2>2, <2>5, <3>2, <3>3, <3>4 DEF Replayed
  <2>10. CASE outcome' = "stopped" /\ UNCHANGED pos
    <3>1. \A j : Targets(dump[j])' = Targets(dump[j])
      BY <2>1 DEF Targets
    <3> QED BY <2>1, <2>2, <2>5, <2>8, <2>10, <3>1 DEF Replayed
  <2> QED BY <2>4, <2>9, <2>10
<1>5. CASE Finish
  BY <1>1, <1>5 DEF Finish, dumpVars, script, Replayed, Has, Targets
<1>6. CASE Interrupt
  BY <1>1, <1>6 DEF Interrupt, script, Replayed, Has, Targets
<1> QED BY <1>2, <1>3, <1>4, <1>5, <1>6 DEF Next

(* Why a statement fails.                                                  *)
LEMMA StopStep ==
  ASSUME Types, Dumped, Replayed, Next
  PROVE  StopsForCause'
<1> SUFFICES ASSUME outcome' = "stopped"  PROVE StopsForCause'
  BY DEF StopsForCause
<1>1. Execute
  BY DEF Next, Dump, DumpNext, Running, Replayed, target, Start, Finish, Interrupt
<1> DEFINE st == dump[pos]
<1>2. PICK made \in SUBSET Able(st) :
        /\ \A n \in Able(st) \ made : \E m \in made : Clash(st, n, st, m)
        /\ have' = [n \in Nodes |-> IF n \in made THEN have[n] \cup {st} ELSE have[n]]
        /\ \E n \in Targets(st) : ~(n \in made \/ Acceptable(st, n))
        /\ UNCHANGED pos
  BY <1>1 DEF Execute, Replayed
<1>3. /\ pos \in 1 .. Len(dump) /\ st \in ToSet(dump) /\ st \in Stmts
      /\ UNCHANGED <<dump, steady, macros>>
  BY <1>1 DEF Execute, Replayed, Types, ToSet, dumpVars, script
<1>4. PICK n \in Targets(st) : n \notin made /\ ~Acceptable(st, n)
  BY <1>2
<1>5. n \in Nodes /\ Kept(st)
  BY <1>3, <1>4, TargetsAreNodes DEF Dumped, ToSet
<1>6. \A m \in Nodes : have[m] \subseteq have'[m] /\ have[m] \subseteq ToSet(dump)
  BY <1>2 DEF Replayed
<1>7. CASE st.broken
  BY <1>2, <1>3, <1>7 DEF StopsForCause
<1>8. CASE ~st.broken /\ Has(n, st.name)
  <2>1. st.kind \in {"profile", "policy", "quota"}
    BY <1>4, <1>5, <1>8 DEF Acceptable, Kept, Access
  <2>2. Has(n, st.name)'
    BY <1>3, <1>5, <1>6, <1>8, <1>2 DEF Has
  <2>3. Targets(st)' = Targets(st) /\ st' = st
    BY <1>2, <1>3 DEF Targets
  <2> QED BY <1>4, <2>1, <2>2, <2>3 DEF StopsForCause
<1>9. CASE \E m \in Refers(st) : ~Has(n, m)
  <2>1. PICK m \in Refers(st) : ~Has(n, m)
    BY <1>9
  <2>2. ~Precedes(m, st, pos)
    BY <1>4, <2>1 DEF Precedes, Replayed
  <2>3. Precedes(m, st, pos)' <=> Precedes(m, st, pos)
    BY <1>2, <1>3 DEF Precedes, Targets
  <2>4. Refers(st)' = Refers(st) /\ st' = st
    BY <1>2, <1>3 DEF Refers
  <2> QED BY <2>1, <2>2, <2>3, <2>4 DEF StopsForCause
<1>10. ASSUME NEW m \in Nodes, NEW other \in have[m] \cup {st}, Clash(st, n, other, m)
       PROVE  StopsForCause'
  <2>1. other \in ToSet(dump) /\ Kept(other)
    BY <1>3, <1>6 DEF Dumped, ToSet
  <2>2. ~TellApart(st, n, other, m)
    BY <1>3, <1>5, <1>10, <2>1, ReplicasApart
  <2>3. (TellApart(st, n, other, m) <=> TellApart(st, n, other, m)') /\ st' = st
    BY <1>2, <1>3 DEF TellApart, Rewritten, ByShard, Marked, Own
  <2>4. other \in have'[m] \cup {st} /\ Targets(st)' = Targets(st)
        /\ (Clash(st, n, other, m) <=> Clash(st, n, other, m)')
    BY <1>2, <1>3, <1>6 DEF Targets, Clash, Replica
  <2> QED BY <1>4, <1>10, <2>2, <2>3, <2>4 DEF StopsForCause
<1>11. CASE /\ ~st.broken /\ ~Has(n, st.name) /\ \A m \in Refers(st) : Has(n, m)
  <2>1. CASE Free(st, n)
    <3>1. n \in Able(st) \ made
      BY <1>4, <1>11, <2>1 DEF Able
    <3>2. PICK m \in made : Clash(st, n, st, m)
      BY <1>2, <3>1
    <3>3. m \in Nodes
      BY <1>3, TargetsAreNodes DEF Able
    <3> QED BY <1>10, <3>2, <3>3
  <2>2. CASE ~Free(st, n)
    BY <1>10, <2>2 DEF Free
  <2> QED BY <2>1, <2>2
<1> QED BY <1>7, <1>8, <1>9, <1>11

-----------------------------------------------------------------------------
LEMMA Stutter ==
  ASSUME IInv, UNCHANGED vars
  PROVE  IInv'
<1>1. UNCHANGED <<catalog, pc, cluster, macros, dbs, sec, todo, dump, file, steady,
                  missed, events, have, pos, outcome, replays>>
  BY DEF vars, dumpVars, script, target
<1>2. Types' /\ Databases' /\ Pending' /\ Dumped'
  BY <1>1 DEF IInv, DumpInv, Types, Databases, Pending, Dumped, Kept
<1>3. Covered'
  BY <1>1, CoveredStay DEF IInv, DumpInv, Types, Owed, Selected, Done
<1>4. Replayed'
  BY <1>1 DEF IInv, Replayed, Has, Targets, ToSet
<1>5. StopsForCause'
  <2>1. \A st : Targets(st)' = Targets(st)
    BY <1>1 DEF Targets
  <2>2. \A n, name : Has(n, name)' <=> Has(n, name)
    BY <1>1 DEF Has
  <2>3. \A name, st, i : Precedes(name, st, i)' <=> Precedes(name, st, i)
    BY <1>1 DEF Precedes, Targets
  <2>4. \A st, n, other, m : TellApart(st, n, other, m)' <=> TellApart(st, n, other, m)
    BY <1>1 DEF TellApart, Rewritten, ByShard, Marked, Own
  <2> QED BY <1>1, <2>1, <2>2, <2>3, <2>4 DEF IInv, StopsForCause
<1> QED BY <1>2, <1>3, <1>4, <1>5 DEF IInv, DumpInv

LEMMA IInvInit ==
  ASSUME Init
  PROVE  IInv
<1>1. DumpInv
  BY DumpInvInit DEF Init
<1>2. dump = <<>> /\ pc = "connect" /\ Len(dump) = 0
  BY DEF Init, DumpInit
<1>3. Replayed
  BY <1>2, ReplayAssumption DEF Init, ReplayInit, Replayed
<1>4. StopsForCause
  BY DEF Init, ReplayInit, StopsForCause
<1> QED BY <1>1, <1>3, <1>4 DEF IInv

LEMMA IInvNext ==
  ASSUME IInv, Next
  PROVE  IInv'
<1>1. DumpInv'
  <2>1. CASE Dump
    BY <2>1, DumpInvStep DEF Dump, IInv
  <2>2. CASE Start \/ Execute \/ Finish
    <3>1. UNCHANGED <<catalog, pc, cluster, macros, dbs, sec, todo, dump, file, steady,
                      missed, events>>
      BY <2>2 DEF Start, Execute, Finish, dumpVars, script
    <3>2. Types' /\ Databases' /\ Pending' /\ Dumped'
      BY <3>1 DEF IInv, DumpInv, Types, Databases, Pending, Dumped, Kept
    <3>3. Covered'
      BY <3>1, CoveredStay DEF IInv, DumpInv, Types, Owed, Selected, Done
    <3> QED BY <3>2, <3>3 DEF DumpInv
  <2>3. CASE Interrupt
    <3>1. /\ UNCHANGED <<catalog, pc, cluster, macros, dbs, sec, todo, dump, file, steady,
                         missed>>
          /\ events' \in 0 .. MaxEvents /\ pc = "written"
      BY <2>3, ClusterAssumption DEF Interrupt, Event, script, IInv, DumpInv, Types, Replayed
    <3>2. Types'
      BY <3>1 DEF IInv, DumpInv, Types
    <3>3. \A n \in Names : Done(n)' = Done(n)
      BY <3>1 DEF Done
    <3> QED BY <3>1, <3>2, <3>3, QuietStep DEF IInv
  <2> QED BY <2>1, <2>2, <2>3 DEF Next
<1>2. Replayed'
  BY <1>1, ReplayedStep DEF IInv, DumpInv
<1>3. StopsForCause'
  BY StopStep DEF IInv, DumpInv
<1> QED BY <1>1, <1>2, <1>3 DEF IInv

(* In every reachable state the statements written are those of the rows   *)
(* shown so far, and the servers have what the statements before pos make. *)
THEOREM Inductive == Spec => []IInv
<1>1. Init => IInv
  BY IInvInit
<1>2. IInv /\ [Next]_vars => IInv'
  BY IInvNext, Stutter
<1> QED BY <1>1, <1>2, PTL DEF Spec

(* Every variable has its type; exit 0 means the file was written whole,   *)
(* and the servers have nothing the file does not make.                    *)
THEOREM TypeCorrect == Spec => []TypeOK
<1>1. IInv => TypeOK
  <2> SUFFICES ASSUME IInv  PROVE TypeOK
    OBVIOUS
  <2>1. Types /\ Replayed
    BY DEF IInv, DumpInv
  <2>2. ToSet(dbs) \cup ToSet(todo) \subseteq Names
    BY <2>1 DEF Types, ToSet
  <2>3. pc \in {"connect", "resolve", "macros", "databases", "list", "show",
                "write", "writing", "failed", "written"}
    BY <2>1 DEF Types, Early, Late
  <2>4. sec \in 1 .. Len(Sections) + 1
    <3>1. Len(Sections) = 9
      BY DEF Sections
    <3> QED BY <2>1, <3>1 DEF Types
  <2>5. \A n \in Nodes : have[n] \subseteq ToSet(dump)
    BY <2>1 DEF Replayed
  <2> QED BY <2>1, <2>2, <2>3, <2>4, <2>5 DEF TypeOK, Types, Replayed
<1> QED BY <1>1, Inductive, PTL

(* In a written dump every section is over.                                *)
LEMMA AllDone ==
  ASSUME Types, pc = "written", NEW n
  PROVE  Done(n) = SectionsOf(catalog[n])
<1>1. sec = 10 /\ DOMAIN Sections = 1 .. 9
  BY SectionFacts DEF Types, Late
<1>2. \A i \in 1 .. 9 : i < 10
  OBVIOUS
<1> QED BY <1>1, <1>2 DEF Done, SectionsOf

(* Whatever other clients create, drop or make anew during the extraction: *)
(* a written dump has one statement for each object that was there all     *)
(* along (two for a dictionary), none for what is in a database left out.  *)
THEOREM DumpedOnce == Spec => []SteadyDumpedOnce
<1>1. IInv => SteadyDumpedOnce
  <2> SUFFICES ASSUME IInv, pc = "written", NEW n \in Names \ Odd
               PROVE  /\ Owed(n) => Cardinality(Places(dump, n)) =
                                      Cardinality(SectionsOf(catalog[n]))
                      /\ {n, DbOf[n]} \cap (SystemDbs \cup Exclude) # {} =>
                           Cardinality(Places(dump, n)) = 0
    BY DEF SteadyDumpedOnce, Places
  <2>1. Types /\ Dumped /\ Covered
    BY DEF IInv, DumpInv
  <2>2. Owed(n) => Cardinality(Places(dump, n)) = Cardinality(SectionsOf(catalog[n]))
    BY <2>1, AllDone DEF Covered
  <2>3. ASSUME {n, DbOf[n]} \cap (SystemDbs \cup Exclude) # {}
        PROVE  Cardinality(Places(dump, n)) = 0
    <3>1. \A j \in DOMAIN dump : dump[j].name # n
      BY <2>1, <2>3 DEF Dumped, Kept, Clean
    <3>2. Places(dump, n) = {}
      BY <3>1 DEF Places
    <3> QED BY <3>2, FS_EmptySet
  <2> QED BY <2>2, <2>3
<1> QED BY <1>1, Inductive, PTL

(* A replay that ran to its end, however often it was interrupted before,  *)
(* has made every object that was there all along on every server of the   *)
(* cluster, and as what it was.                                            *)
THEOREM ReplayedAll == Spec => []ReplayedEverywhere
<1>1. IInv => ReplayedEverywhere
  <2> SUFFICES ASSUME IInv, outcome = "finished", NEW n \in Names, Sound(n),
                      NEW m \in (IF cluster = Nil THEN {Here} ELSE NodesOf[cluster])
               PROVE  \E st \in have[m] : st.name = n /\ st.kind = catalog[n]
    BY DEF ReplayedEverywhere
  <2>1. Types /\ Dumped /\ Covered /\ Replayed /\ pc = "written"
    BY DEF IInv, DumpInv, Replayed
  <2>2. catalog[n] \in Kinds /\ Owed(n) /\ n \in steady /\ n \notin Odd /\ DbOf[n] \notin Odd
    BY <2>1, NameFacts, CatalogAssumption DEF Sound, Owed, Types
  <2>3. PICK i \in 1 .. 9 :
          catalog[n] \in Lists[Sections[i]] /\ catalog[n] \in Injects[Sections[i]]
    BY <2>2, KindHasSection
  <2>4. i \in Done(n)
    BY <2>1, <2>3, AllDone, SectionFacts DEF SectionsOf
  <2>5. PICK j \in DOMAIN dump : dump[j] = Statement(Sections[i], n, catalog[n])
    BY <2>1, <2>2, <2>4 DEF Covered, ToSet
  <2>6. dump[j].name = n /\ dump[j].cluster = cluster
    BY <2>2, <2>3, <2>5, StatementFacts DEF Statement, OnCluster, Garbles
  <2>7. m \in Targets(dump[j])
    BY <2>6 DEF Targets
  <2>8. j \in 1 .. pos - 1
    BY <2>1, <2>5 DEF Replayed, Types
  <2>9. PICK st \in have[m] : st.name = n
    BY <2>1, <2>6, <2>7, <2>8 DEF Replayed, Has
  <2>10. m \in Nodes
    BY <2>1, <2>7, TargetsAreNodes DEF Types
  <2>11. Kept(st)
    BY <2>1, <2>10 DEF Dumped, Replayed, ToSet
  <2> QED BY <2>2, <2>9, <2>11 DEF Kept
<1> QED BY <1>1, Inductive, PTL

(* A replay stops for a database name that needs quotes, an access entity  *)
(* that exists, something that comes later or reaches fewer servers, or a  *)
(* path that does not tell two servers apart: for nothing else.            *)
THEOREM StopHasCause == Spec => []StopsForCause
<1>1. IInv => StopsForCause
  BY DEF IInv
<1> QED BY <1>1, Inductive, PTL

(* Servers of different shards never replicate a table of each other, if   *)
(* the macros were read, both tables were there all along, and the shard   *)
(* has a place in both paths.                                              *)
THEOREM Shards == Spec => []ShardsApart
<1>1. IInv => ShardsApart
  <2> SUFFICES ASSUME IInv, NEW n \in Nodes, NEW m \in Nodes, ShardOf[n] # ShardOf[m],
                      NEW st \in have[n], NEW other \in have[m],
                      st.kind = "table", other.kind = "table",
                      Rewritten(st, other), ByShard(st, other)
               PROVE  Replica(st, n).dir # Replica(other, m).dir
    BY DEF ShardsApart
  <2>1. Kept(st) /\ Kept(other)
    BY DEF IInv, DumpInv, Dumped, Replayed, ToSet
  <2>2. /\ st.path = Reparameterize(PathOf[st.name])
        /\ other.path = Reparameterize(PathOf[other.name])
    BY <2>1 DEF Kept, Rewritten
  <2> QED BY <2>2, PathsApart
<1> QED BY <1>1, Inductive, PTL

(* With several clusters, statements are sent to the one that the          *)
(* Distributed tables agree on, if one of them was there all along and     *)
(* those that name no cluster were too few to fill the rows that were read.*)
THEOREM ClusterFollows == Spec => []ClusterFollowsTables
<1>1. Init => ClusterFollowsTables
  BY DEF Init, DumpInit, ClusterFollowsTables
<1>2. IInv /\ ClusterFollowsTables /\ [Next]_vars => ClusterFollowsTables'
  <2> SUFFICES ASSUME IInv, ClusterFollowsTables, [Next]_vars,
                      NEW n \in steady', NEW c \in Mentions[n],
                      pc' \notin {"connect", "resolve", "failed"}, Nil \notin missed',
                      Len(Clusters) > 1,
                      catalog'[n] = "distributed", DbOf[n] \notin SystemDbs,
                      \A m \in Names : Mentions[m] \subseteq {c},
                      Cardinality(Silent') < RowLimit
               PROVE  cluster' = c
    BY DEF ClusterFollowsTables
  <2> steady \subseteq Names /\ catalog \in [Names -> Kinds \cup {Nil}] /\ Types
    BY DEF IInv, DumpInv, Types
  <2>0. ASSUME Silent \subseteq Silent'  PROVE Cardinality(Silent) < RowLimit
    <3>1. IsFiniteSet(Silent) /\ IsFiniteSet(Silent')
      <4>1. Silent' \subseteq Names
        BY DEF Silent
      <4> QED BY <4>1, NamesFinite, SilentFinite, FS_Subset
    <3>2. /\ Cardinality(Silent) <= Cardinality(Silent')
          /\ Cardinality(Silent) \in Nat /\ Cardinality(Silent') \in Nat /\ RowLimit \in Nat
      BY <2>0, <3>1, FS_Subset, FS_CardinalityType, ClusterAssumption
    <3> QED BY <3>2
  <2>1. CASE Resolve
    <3>1. /\ n \in Names /\ catalog[n] = "distributed" /\ UNCHANGED <<catalog, steady>>
          /\ Mentions[n] # {}
      BY <2>1 DEF Resolve
    <3>2. Cardinality(Silent) < RowLimit
      BY <2>0, <3>1 DEF Silent
    <3>3. PICK tables \in ResultRows :
            cluster' \in IF Candidates(tables) = {} THEN {Clusters[1]} ELSE Candidates(tables)
      <4>1. ~(Len(Clusters) = 0) /\ ~(Len(Clusters) = 1) /\ Nil \notin missed'
        <5>1. Len(Clusters) \in Nat
          BY ClusterAssumption
        <5> QED BY <5>1
      <4> QED BY <2>1, <4>1 DEF Resolve
    <3>4. tables \subseteq Names /\ \E m \in tables : Mentions[m] # {}
      BY <3>1, <3>2, NamingTableRead
    <3>5. Candidates(tables) # {}
      BY <3>4, CandidatesListed
    <3>6. PICK m \in tables : cluster' \in Mentions[m]
      BY <3>3, <3>4, <3>5, CandidatesListed
    <3> QED BY <3>4, <3>6
  <2>2. CASE \E m \in Names : Create(m) \/ Drop(m)
    <3>1. /\ steady' \subseteq steady /\ \A m \in steady' : catalog'[m] = catalog[m]
          /\ UNCHANGED <<pc, cluster, missed>>
      BY <2>2 DEF Create, Drop, script
    <3>2. Silent \subseteq Silent'
      BY <3>1 DEF Silent
    <3> QED BY <2>0, <3>1, <3>2 DEF ClusterFollowsTables
  <2>3. CASE Dump /\ ~Resolve /\ ~\E m \in Names : Create(m) \/ Drop(m)
    <3>1. /\ n \in steady /\ catalog'[n] = catalog[n] /\ UNCHANGED cluster
          /\ missed \subseteq missed' /\ pc \notin {"connect", "resolve", "failed"}
          /\ UNCHANGED <<catalog, steady>>
      BY <2>3 DEF Dump, DumpNext, DumpStep, Running, Connect, GetMacros, GetDatabases,
         ListNothing, List, ListFails, Show, ShowFails, SectionDone, Open, Write, Exit,
         NextSection
    <3>2. Silent' = Silent
      BY <3>1 DEF Silent
    <3> QED BY <2>0, <3>1, <3>2 DEF ClusterFollowsTables
  <2>4. CASE Start \/ Execute \/ Finish \/ Interrupt \/ UNCHANGED vars
    <3>1. UNCHANGED <<pc, cluster, missed, steady, catalog>>
      BY <2>4 DEF Start, Execute, Finish, Interrupt, vars, dumpVars, script
    <3>2. Silent' = Silent
      BY <3>1 DEF Silent
    <3> QED BY <2>0, <3>1, <3>2 DEF ClusterFollowsTables
  <2> QED BY <2>1, <2>2, <2>3, <2>4 DEF Next
<1> QED BY <1>1, <1>2, Inductive, PTL DEF Spec
=============================================================================
