----------------------- MODULE GreenplumRefreshProofs -----------------------
(* Theorems about GreenplumRefresh, for any objects, catalogs and bounds.  *)
EXTENDS GreenplumRefresh, TLAPS, FiniteSetTheorems

Converting == {"read_prod", "read_stage", "open", "write"}

Statements == [object : Objects, part : Nat]

(* An extraction past the schemas has a statement, and so has the          *)
(* reference while the check converts it.                                  *)
NonBlank ==
  /\ part \in Nat \ {0} /\ new \in Seq(Statements)
  /\ pc["check"] \in {"connect", "extract"} /\ part > 1 => new # <<>>
  /\ pc["check"] \in {"save", "saving"} => new # <<>>
  /\ pc["check"] \in Converting => saved # <<>>

(* While the check converts and no hand interferes, what it holds and what *)
(* it wrote are the reference.                                             *)
Current ==
  pc["check"] \in {"open", "write"} =>
    /\ stageText["check"] = saved
    /\ ~byHand => pg.stage = saved

(* InitFollowsReference is not inductive: that init.sql becomes the        *)
(* reference again rests on the text the check read, which must not be     *)
(* empty, lest it fall back to prod.                                       *)
IInv ==
  /\ pc \in [Processes -> PCs] /\ DOMAIN stageText = Processes
  /\ DOMAIN pg = {"prod", "stage"}
  /\ harmed \in BOOLEAN /\ byHand \in BOOLEAN
  /\ pc["manual"] # "rest" => byHand
  /\ pc["manual"] \in Converting \cup {"rest"}
  /\ \E o \in stage : KindOf[o] = "schema"
  /\ stage \subseteq Objects
  /\ NonBlank /\ Current
  /\ InitFollowsReference

-----------------------------------------------------------------------------
(* extract_all_ddl runs its five parts in order, the schemas first.        *)
LEMMA Parts == Len(PartKinds) = 5 /\ PartKinds[1] = {"schema"}
BY DEF PartKinds

(* A query returns a row per object.                                       *)
LEMMA RowPerObject ==
  ASSUME NEW S \in SUBSET Objects, NEW rows \in Rows(S), NEW i \in Nat
  PROVE  Text(rows, i) \in Seq(Statements) /\ (S # {} => Text(rows, i) # <<>>)
<1>1. IsFiniteSet(S)
  BY FS_Subset, ObjectAssumption DEF ObjectAssumption
<1>2. Cardinality(S) \in Nat /\ (S # {} => Cardinality(S) # 0)
  BY <1>1, FS_EmptySet, FS_CardinalityType
<1>3. rows \in [1 .. Cardinality(S) -> S]
  BY DEF Rows, SetToSeqs
<1>4. Text(rows, i) \in [1 .. Cardinality(S) -> Statements]
  BY <1>3 DEF Text, Statements
<1>5. Text(rows, i) \in Seq(Statements) /\ Len(Text(rows, i)) = Cardinality(S)
  BY <1>2, <1>4
<1> QED BY <1>2, <1>5

(* A join of sequences, one of them not empty, is not empty.               *)
LEMMA Joined ==
  ASSUME NEW S, NEW s \in Seq(S), NEW t \in Seq(S), s # <<>> \/ t # <<>>
  PROVE  s \o t \in Seq(S) /\ s \o t # <<>>
<1>1. Len(s \o t) = Len(s) + Len(t) /\ s \o t \in Seq(S)
  OBVIOUS
<1>2. Len(s) > 0 \/ Len(t) > 0
  OBVIOUS
<1> QED BY <1>1, <1>2

(* Before the first run all files are those of the committed reference.    *)
LEMMA InitIInv == Init => IInv
<1> SUFFICES ASSUME Init PROVE IInv
  OBVIOUS
<1>1. harmed \in BOOLEAN /\ byHand \in BOOLEAN /\ init = saved /\ pg.stage = saved
  BY DEF Init
<1>2. stage \subseteq Objects /\ \E o \in stage : KindOf[o] = "schema"
  BY ObjectAssumption, SchemaAssumption DEF Init, ObjectAssumption, SchemaAssumption
<1>3. pc = [p \in Processes |-> "rest"] /\ part = 1
  BY DEF Init
<1> QED
  BY <1>1, <1>2, <1>3
     DEF Init, IInv, NonBlank, Current, InitFollowsReference, Processes, PCs, Converting

(* Statements accumulate while a run extracts, the reference is read as it *)
(* was saved, and only a failure or a hand leaves the files apart.         *)
LEMMA StepIInv == IInv /\ [Next]_vars => IInv'
<1> SUFFICES ASSUME IInv, [Next]_vars PROVE IInv'
  OBVIOUS
<1>0. /\ NonBlank /\ part \in Nat \ {0} /\ new \in Seq(Statements)
      /\ part > 1 /\ pc["check"] \in {"connect", "extract"} => new # <<>>
      /\ pc \in [Processes -> PCs] /\ stage \subseteq Objects
      /\ \E o \in stage : KindOf[o] = "schema"
  BY DEF IInv, NonBlank
<1>1. CASE Begin
  <2>1. new' = <<>> /\ part' = 1
    BY <1>1 DEF Begin
  <2>2. /\ pc["check"] = "rest" /\ Goto("check", "connect")
        /\ UNCHANGED <<stage, files, texts, harmed, byHand>>
    BY <1>1 DEF Begin
  <2>3. NonBlank'
    BY <1>0, <2>1, <2>2 DEF NonBlank, Goto, Processes, Converting
  <2> QED BY <2>2, <2>3
    DEF IInv, NonBlank, Current, InitFollowsReference, Processes, PCs, Converting,
        Goto, files, texts
<1>2. CASE Skip
  BY <1>2
     DEF IInv, NonBlank, Current, InitFollowsReference, Processes, PCs, Converting,
         Skip, Goto, files, texts, extract
<1>3. CASE Connect
  <2>1. UNCHANGED <<stage, files, extract, texts, harmed, byHand>>
    BY <1>3 DEF Connect, history
  <2>2. pc["check"] = "connect" /\ Goto("check", "extract")
    BY <1>3 DEF Connect
  <2> QED BY <2>1, <2>2
    DEF IInv, NonBlank, Current, InitFollowsReference, Processes, PCs, Converting,
        Goto, files, texts, extract
<1>4. CASE ExtractPart
  <2>1. PICK rows \in Rows(Wanted(part)) : new' = new \o Text(rows, part)
    BY <1>4 DEF ExtractPart
  <2>2. pc["check"] = "extract" /\ part' = part + 1 /\ pc' = pc
    BY <1>4 DEF ExtractPart
  <2>3. Wanted(part) \subseteq Objects
    BY <1>0 DEF Wanted
  <2>4. Text(rows, part) \in Seq(Statements)
    BY <1>0, <2>1, <2>3, RowPerObject
  <2>5. part = 1 => Wanted(part) # {}
    BY <1>0, Parts DEF Wanted, Constraints
  <2>6. part = 1 => Text(rows, part) # <<>>
    BY <2>1, <2>3, <2>5, RowPerObject
  <2>7. new' \in Seq(Statements) /\ new' # <<>>
    <3>1. new # <<>> \/ Text(rows, part) # <<>>
      BY <1>0, <2>2, <2>6
    <3> QED BY <1>0, <2>1, <2>4, <3>1, Joined
  <2>8. UNCHANGED <<stage, files, texts, harmed, byHand>>
    BY <1>4 DEF ExtractPart, history
  <2>9. NonBlank'
    <3>1. new' \in Seq(Statements)'
      BY <2>7, Zenon DEF Statements
    <3>2. part' \in Nat \ {0}
      BY <1>0, <2>2
    <3> QED BY <2>2, <2>7, <3>1, <3>2 DEF NonBlank, Converting
  <2> QED BY <2>2, <2>8, <2>9
    DEF IInv, NonBlank, Current, InitFollowsReference, Processes, PCs, Converting,
        files, texts
<1>5. CASE Compare
  <2>1. /\ pc["check"] = "extract" /\ part > 5
        /\ UNCHANGED <<stage, files, extract, texts, harmed, byHand>>
        /\ Goto("check", "rest") \/ Goto("check", "save")
    BY <1>5, Parts DEF Compare
  <2>2. NonBlank'
    <3>1. UNCHANGED <<part, new, saved>> /\ part > 1 /\ new # <<>>
      BY <1>0, <2>1 DEF extract, files
    <3>2. pc'["check"] \in {"rest", "save"}
      BY <1>0, <2>1 DEF Goto, Processes
    <3>3. new' \in Seq(Statements)'
      BY <1>0, <3>1, Zenon DEF Statements
    <3> QED BY <1>0, <3>1, <3>2, <3>3 DEF NonBlank, Converting
  <2> QED BY <2>1, <2>2
    DEF IInv, NonBlank, Current, InitFollowsReference, Processes, PCs, Converting,
        Goto, files, texts, extract
<1>6. CASE OpenReference
  BY <1>6
     DEF IInv, NonBlank, Current, InitFollowsReference, Processes, PCs, Converting,
         OpenReference, Goto, texts, extract, history
<1>7. CASE WriteReference
  BY <1>7
     DEF IInv, NonBlank, Current, InitFollowsReference, Processes, PCs, Converting,
         WriteReference, Goto, texts, extract, history
<1>8. CASE StartManual
  BY <1>8
     DEF IInv, NonBlank, Current, InitFollowsReference, Processes, PCs, Converting,
         StartManual, Goto, files, texts, extract
<1>9. ASSUME NEW p \in Processes, ReadProd(p) PROVE IInv'
  BY <1>9
     DEF IInv, NonBlank, Current, InitFollowsReference, Processes, PCs, Converting,
         ReadProd, Goto, extract, history
<1>10. ASSUME NEW p \in Processes, ReadStage(p) PROVE IInv'
  BY <1>10
     DEF IInv, NonBlank, Current, InitFollowsReference, Processes, PCs, Converting,
         ReadStage, Goto, extract
<1>11. ASSUME NEW p \in Processes, NoSource(p) PROVE IInv'
  BY <1>11
     DEF IInv, NonBlank, Current, InitFollowsReference, Processes, PCs, Converting,
         NoSource, Goto, Sources, files, texts, extract, history
<1>12. ASSUME NEW p \in Processes, OpenInit(p) PROVE IInv'
  BY <1>12
     DEF IInv, NonBlank, Current, InitFollowsReference, Processes, PCs, Converting,
         OpenInit, Goto, texts, extract, history
<1>13. ASSUME NEW p \in Processes, WriteInit(p) PROVE IInv'
  BY <1>13
     DEF IInv, NonBlank, Current, InitFollowsReference, Processes, PCs, Converting,
         WriteInit, Generated, Sources, Goto, texts, extract
<1>14. ASSUME NEW p \in Processes, Die(p) PROVE IInv'
  BY <1>14
     DEF IInv, NonBlank, Current, InitFollowsReference, Processes, PCs, Converting,
         Die, Goto, texts, extract
<1>15. ASSUME NEW o \in Objects, Change(o) PROVE IInv'
  BY <1>15
     DEF IInv, NonBlank, Current, InitFollowsReference, Processes, PCs, Converting,
         Change, files, texts, extract
<1>16. CASE UNCHANGED vars
  BY <1>16
     DEF IInv, NonBlank, Current, InitFollowsReference, Processes, PCs, Converting,
         vars, files, texts, extract, history
<1> QED
  BY <1>1, <1>2, <1>3, <1>4, <1>5, <1>6, <1>7, <1>8, <1>9, <1>10, <1>11, <1>12,
     <1>13, <1>14, <1>15, <1>16 DEF Next, CheckStep, ConvertStep

-----------------------------------------------------------------------------
(* Between runs init.sql and the converted file are those of the reference *)
(* unless a run failed after it began to rewrite the reference, or a       *)
(* conversion by hand came in: for any catalog, any DDL between the        *)
(* queries, any number of runs and failures (main, convert_and_generate).  *)
THEOREM InitFollows == Spec => []InitFollowsReference
<1>1. Spec => []IInv
  BY InitIInv, StepIInv, PTL DEF Spec
<1>2. IInv => InitFollowsReference
  BY DEF IInv
<1> QED BY <1>1, <1>2, PTL

-----------------------------------------------------------------------------
(* The variables' types.                                                   *)
Shapes ==
  /\ pc \in [Processes -> PCs] /\ pc["manual"] \in Converting \cup {"rest"}
  /\ stage \subseteq Objects /\ steady \subseteq Objects
  /\ saved \in Seq(Statements) /\ old \in Seq(Statements) /\ new \in Seq(Statements)
  /\ part \in 1 .. 6
  /\ pc["check"] \notin {"rest", "connect", "extract"} => part = 6
  /\ verdict \in {"none", "skipped", "unchanged", "regenerated", "failed"}
  /\ harmed \in BOOLEAN /\ byHand \in BOOLEAN
  /\ changes \in 0 .. MaxChanges /\ faults \in 0 .. MaxFaults /\ runs \in 0 .. MaxRuns

(* The part that writes an object; a unique constraint is there as its     *)
(* index.                                                                  *)
HomeOf(o) == CASE KindOf[o] = "schema" -> 1
               [] KindOf[o] = "table" -> 2
               [] KindOf[o] = "function" -> 3
               [] KindOf[o] \in {"index", "unique"} -> 4
               [] OTHER -> 5

Places(text, o) == {k \in DOMAIN text : text[k].object = o}

(* SteadyExtractedOnce holds of the parts so far, because the constraints  *)
(* find the labels of the unique indexes that were there all along.        *)
Extracted ==
  \A o \in steady \cap Listed :
    /\ Cardinality(Places(new, o)) = IF o \in stage /\ HomeOf(o) < part THEN 1 ELSE 0
    /\ KindOf[o] = "unique" /\ o \in stage /\ part > Indexes => LabelOf[o] \in labels

(* The reference is what it was when the check began, and what was         *)
(* extracted if the check says so.                                         *)
Reported ==
  /\ pc["check"] \in {"connect", "extract"} => old = saved
  /\ verdict = "unchanged" => pc["check"] = "rest" /\ new = saved /\ part = 6

EInv == Shapes /\ Extracted /\ Reported

LEMMA InitEInv == Init => EInv
<1> SUFFICES ASSUME Init  PROVE EInv
  OBVIOUS
<1>1. Shapes
  <2>1. stage \subseteq Objects
    BY ObjectAssumption DEF Init
  <2>2. pc = [p \in Processes |-> "rest"]
    BY DEF Init
  <2>3. /\ changes \in 0 .. MaxChanges /\ faults \in 0 .. MaxFaults
        /\ runs \in 0 .. MaxRuns /\ part \in 1 .. 6
    BY RefreshBounds DEF Init
  <2>4. pc \in [Processes -> PCs] /\ pc["check"] = "rest" /\ pc["manual"] = "rest"
    BY <2>2 DEF Processes, PCs
  <2>5. saved \in Seq(Statements) /\ old \in Seq(Statements) /\ new \in Seq(Statements)
    BY DEF Init
  <2> QED BY <2>1, <2>3, <2>4, <2>5 DEF Init, Shapes
<1>2. Extracted
  <2>1. part = 1 /\ \A o : Places(new, o) = {}
    BY DEF Init, Places
  <2>2. \A o : ~(HomeOf(o) < 1)
    BY DEF HomeOf
  <2>3. ~(part > Indexes)
    BY <2>1 DEF Indexes
  <2> QED BY <2>1, <2>2, <2>3, FS_EmptySet DEF Extracted
<1>3. Reported
  BY DEF Init, Reported, Processes
<1> QED BY <1>1, <1>2, <1>3 DEF EInv

(* What is left of a text is some of its statements.                       *)
LEMMA TornTyped ==
  ASSUME NEW text \in Seq(Statements), NEW rest \in Torn(text)
  PROVE  rest \in Seq(Statements)
<1>1. PICK k \in 0 .. Len(text) : rest = SubSeq(text, 1, k)
  BY DEF Torn
<1> QED BY <1>1

LEMMA StepShapes ==
  ASSUME Shapes, [Next]_vars
  PROVE  Shapes'
<1> USE DEF Processes, PCs, Converting, Statements
<1>1. ASSUME Begin  PROVE Shapes'
  <2>1. /\ pc' = [pc EXCEPT !["check"] = "connect"] /\ runs' \in 0 .. MaxRuns
        /\ old' = saved /\ part' = 1 /\ new' = <<>> /\ verdict' = "none" /\ steady' = Objects
        /\ UNCHANGED <<stage, saved, harmed, byHand, changes, faults>>
    BY <1>1, RefreshBounds DEF Begin, Goto, files, Shapes
  <2>2. new' \in Seq(Statements)
    BY <2>1
  <2> QED BY <2>1, <2>2 DEF Shapes
<1>2. ASSUME Skip \/ Connect  PROVE Shapes'
  BY <1>2 DEF Skip, Connect, Goto, files, extract, history, Shapes
<1>3. ASSUME ExtractPart  PROVE Shapes'
  <2>1. PICK rows \in Rows(Wanted(part)) : new' = new \o Text(rows, part)
    BY <1>3 DEF ExtractPart
  <2>2. /\ pc["check"] = "extract" /\ part \in 1 .. 5 /\ part' = part + 1
        /\ UNCHANGED <<stage, saved, pc, old, steady, verdict, harmed, byHand,
                       changes, faults, runs>>
    BY <1>3, Parts DEF ExtractPart, Shapes, files, history
  <2>3. Text(rows, part) \in Seq(Statements)
    <3>1. Wanted(part) \subseteq Objects /\ part \in Nat
      BY <2>2 DEF Shapes, Wanted
    <3> HIDE DEF Statements
    <3> QED BY <2>1, <3>1, RowPerObject
  <2>4. new' \in Seq(Statements)
    BY <2>1, <2>3 DEF Shapes
  <2> QED BY <2>2, <2>4 DEF Shapes
<1>4. ASSUME Compare  PROVE Shapes'
  BY <1>4, Parts DEF Compare, Goto, files, extract, Shapes
<1>5. ASSUME OpenReference \/ WriteReference  PROVE Shapes'
  <2>1. saved' = <<>> \/ saved' = new
    BY <1>5 DEF OpenReference, WriteReference
  <2>2. saved' \in Seq(Statements)
    <3>1. <<>> \in Seq(Statements) /\ new \in Seq(Statements)
      BY DEF Shapes
    <3> QED BY <2>1, <3>1
  <2> QED BY <1>5, <2>2 DEF OpenReference, WriteReference, Goto, extract, history, Shapes
<1>6. ASSUME StartManual  PROVE Shapes'
  BY <1>6, RefreshBounds DEF StartManual, Goto, files, extract, Shapes
<1>7. ASSUME NEW p \in Processes, ConvertStep(p)  PROVE Shapes'
  <2>1. /\ pc[p] \in {"read_prod", "read_stage", "open", "write"}
        /\ \E l \in {"rest", "read_stage", "open", "write"} : pc' = [pc EXCEPT ![p] = l]
        /\ verdict' \in {verdict, "regenerated"}
        /\ UNCHANGED <<stage, saved, part, old, new, steady, changes, faults, runs>>
    BY <1>7 DEF ConvertStep, ReadProd, ReadStage, NoSource, OpenInit, WriteInit, Generated,
       Goto, files, extract, history
  <2>2. harmed' \in BOOLEAN
    BY <1>7 DEF ConvertStep, ReadProd, ReadStage, NoSource, OpenInit, WriteInit, Generated,
       history, Shapes
  <2>3. byHand' \in BOOLEAN
    BY <1>7 DEF ConvertStep, ReadProd, ReadStage, NoSource, OpenInit, WriteInit, Generated,
       history, Shapes
  <2> QED BY <2>1, <2>2, <2>3 DEF Shapes
<1>8. ASSUME NEW p \in Processes, Die(p)  PROVE Shapes'
  <2>1. /\ pc' = [pc EXCEPT ![p] = "rest"] /\ Fault
        /\ verdict' \in {verdict, "failed"}
        /\ harmed' = harmed \/ harmed' \in BOOLEAN
        /\ UNCHANGED <<stage, part, old, new, steady, byHand, changes, runs>>
    BY <1>8 DEF Die, Goto, extract
  <2>2. faults' \in 0 .. MaxFaults
    BY <2>1, RefreshBounds DEF Fault, Shapes
  <2>3. saved' \in Torn(new) \/ saved' = saved
    BY <1>8 DEF Die
  <2>4. saved' \in Seq(Statements)
    BY <2>3, TornTyped DEF Shapes
  <2> QED BY <2>1, <2>2, <2>4 DEF Shapes
<1>9. ASSUME NEW o \in Objects, Change(o)  PROVE Shapes'
  BY <1>9, RefreshBounds DEF Change, files, extract, Shapes
<1>10. ASSUME UNCHANGED vars  PROVE Shapes'
  BY <1>10 DEF vars, files, extract, history, Shapes
<1> QED BY <1>1, <1>2, <1>3, <1>4, <1>5, <1>6, <1>7, <1>8, <1>9, <1>10
       DEF Next, CheckStep

LEMMA Homes ==
  ASSUME NEW o \in Listed
  PROVE  /\ HomeOf(o) \in 1 .. 5
         /\ \A i \in 1 .. 5 : KindOf[o] \in PartKinds[i] <=>
              i = HomeOf(o) \/ (i = Constraints /\ KindOf[o] = "unique")
         /\ KindOf[o] = "unique" => HomeOf(o) = Indexes
<1>1. KindOf[o] \in {"schema", "table", "function", "index", "unique", "foreign"}
  BY ObjectAssumption DEF Listed, Kinds
<1>2. /\ PartKinds[1] = {"schema"} /\ PartKinds[2] = {"table"} /\ PartKinds[3] = {"function"}
      /\ PartKinds[4] = {"index", "unique"} /\ PartKinds[5] = {"unique", "foreign"}
  BY DEF PartKinds
<1>3. HomeOf(o) \in 1 .. 5 /\ (KindOf[o] = "unique" => HomeOf(o) = 4)
  BY <1>1 DEF HomeOf
<1>4. ASSUME NEW i \in 1 .. 5
      PROVE  KindOf[o] \in PartKinds[i] <=> i = HomeOf(o) \/ (i = 5 /\ KindOf[o] = "unique")
  <2>1. i \in {1, 2, 3, 4, 5}
    OBVIOUS
  <2> QED BY <1>1, <1>2, <2>1 DEF HomeOf
<1> QED BY <1>3, <1>4 DEF Indexes, Constraints

(* A query adds one statement for each object it returns.                  *)
LEMMA PlacesGrow ==
  ASSUME NEW S \in SUBSET Objects, NEW rows \in Rows(S), NEW i \in Nat,
         NEW text \in Seq(Statements), NEW o \in Objects
  PROVE  /\ o \in S => Cardinality(Places(text \o Text(rows, i), o))
                         = Cardinality(Places(text, o)) + 1
         /\ o \notin S => Places(text \o Text(rows, i), o) = Places(text, o)
<1> DEFINE n == Cardinality(S)
<1>1. IsFiniteSet(S) /\ n \in Nat
  BY FS_Subset, FS_CardinalityType, ObjectAssumption
<1>2. rows \in [1 .. n -> S] /\ \A j, k \in 1 .. n : rows[j] = rows[k] => j = k
  BY DEF Rows, SetToSeqs
<1>3. rows \in Injection(1 .. n, S)
  BY <1>2 DEF Injection, IsInjective
<1>4. IsFiniteSet(1 .. n) /\ Cardinality(1 .. n) = n
  BY <1>1, FS_Interval
<1>5. rows \in Surjection(1 .. n, S)
  BY <1>1, <1>3, <1>4, FS_Injection
<1>6. \A x \in S : \E j \in 1 .. n : rows[j] = x
  BY <1>5 DEF Surjection
<1> HIDE DEF n
<1>7. PICK more \in Seq(Statements) :
        /\ more = Text(rows, i) /\ Len(more) = n
        /\ \A j \in 1 .. n : more[j].object = rows[j]
  <2>1. Text(rows, i) \in [1 .. n -> Statements]
    BY <1>2 DEF Text, Statements
  <2>2. \A j \in 1 .. n : Text(rows, i)[j].object = rows[j]
    BY <1>2 DEF Text
  <2> QED BY <1>1, <2>1, <2>2
<1>8. /\ Len(text) \in Nat
      /\ Places(text, o) \subseteq 1 .. Len(text)
      /\ \A k : k \in DOMAIN (text \o more) <=> k \in 1 .. Len(text) + n
      /\ \A k \in 1 .. Len(text) : (text \o more)[k] = text[k]
      /\ \A k \in Len(text) + 1 .. Len(text) + n : (text \o more)[k] = more[k - Len(text)]
  BY <1>1, <1>7 DEF Places
<1>9. ASSUME o \in S
      PROVE  Cardinality(Places(text \o more, o)) = Cardinality(Places(text, o)) + 1
  <2>1. PICK j \in 1 .. n : rows[j] = o /\ \A k \in 1 .. n : rows[k] = o => k = j
    BY <1>2, <1>6, <1>9
  <2>2. Places(text \o more, o) = Places(text, o) \cup {Len(text) + j}
    <3>1. ASSUME NEW k \in 1 .. Len(text) + n
          PROVE  (text \o more)[k].object = o <=> k \in Places(text, o) \/ k = Len(text) + j
      <4>1. CASE k \in 1 .. Len(text)
        BY <1>8, <2>1, <4>1 DEF Places
      <4>2. CASE k \in Len(text) + 1 .. Len(text) + n
        <5>1. k - Len(text) \in 1 .. n /\ k \notin 1 .. Len(text)
          BY <1>1, <1>8, <4>2
        <5>2. (text \o more)[k].object = rows[k - Len(text)]
          BY <1>7, <1>8, <4>2, <5>1
        <5>3. k = Len(text) + j <=> k - Len(text) = j
          BY <1>8, <4>2, <5>1
        <5>4. k \notin Places(text, o)
          BY <1>8, <5>1
        <5> QED BY <2>1, <5>1, <5>2, <5>3, <5>4
      <4> QED BY <1>1, <1>8, <4>1, <4>2
    <3>2. Len(text) + j \in 1 .. Len(text) + n
      BY <1>1, <1>8, <2>1
    <3>3. Places(text, o) \subseteq 1 .. Len(text) + n
      BY <1>1, <1>8
    <3> QED BY <1>8, <3>1, <3>2, <3>3 DEF Places
  <2>3. Len(text) + j \notin Places(text, o)
    BY <1>8, <2>1
  <2>4. IsFiniteSet(Places(text, o))
    <3>1. IsFiniteSet(1 .. Len(text))
      BY <1>8, FS_Interval
    <3> QED BY <1>8, <3>1, FS_Subset
  <2> QED BY <2>2, <2>3, <2>4, FS_AddElement
<1>10. ASSUME o \notin S  PROVE Places(text \o more, o) = Places(text, o)
  BY <1>1, <1>2, <1>7, <1>8, <1>10 DEF Places
<1> QED BY <1>7, <1>9, <1>10

LEMMA StepExtracted ==
  ASSUME Shapes, Extracted, [Next]_vars
  PROVE  Extracted'
<1>1. ASSUME Begin  PROVE Extracted'
  <2>1. part' = 1 /\ \A o : Places(new, o)' = {}
    BY <1>1 DEF Begin, Places
  <2>2. \A o \in Listed : ~(HomeOf(o) < part') /\ ~(part' > Indexes)
    BY <2>1, Homes DEF Indexes
  <2> QED BY <2>1, <2>2, FS_EmptySet DEF Extracted
<1>2. ASSUME ExtractPart  PROVE Extracted'
  <2>1. PICK rows \in Rows(Wanted(part)) : new' = new \o Text(rows, part)
    BY <1>2 DEF ExtractPart
  <2>2. /\ part \in 1 .. 5 /\ part' = part + 1 /\ UNCHANGED <<stage, steady>>
        /\ labels' = IF part = Indexes THEN {LabelOf[o] : o \in Wanted(part)} ELSE labels
    BY <1>2, Parts DEF ExtractPart, Shapes, history
  <2> SUFFICES ASSUME NEW o \in steady \cap Listed
               PROVE  /\ Cardinality(Places(new, o))' =
                           IF o \in stage /\ HomeOf(o) < part + 1 THEN 1 ELSE 0
                      /\ KindOf[o] = "unique" /\ o \in stage /\ part + 1 > Indexes =>
                           LabelOf[o] \in labels'
    BY <2>2 DEF Extracted
  <2>3. /\ o \in Objects /\ HomeOf(o) \in 1 .. 5
        /\ KindOf[o] = "unique" => HomeOf(o) = Indexes
        /\ Cardinality(Places(new, o)) = IF o \in stage /\ HomeOf(o) < part THEN 1 ELSE 0
        /\ KindOf[o] = "unique" /\ o \in stage /\ part > Indexes => LabelOf[o] \in labels
    BY Homes DEF Extracted, Listed
  <2>4. o \in Wanted(part) <=> o \in stage /\ part = HomeOf(o)
    <3>1. KindOf[o] \in PartKinds[part] <=>
            part = HomeOf(o) \/ (part = Constraints /\ KindOf[o] = "unique")
      BY <2>2, Homes
    <3> QED BY <2>2, <2>3, <3>1 DEF Wanted, Indexes, Constraints
  <2>5. /\ o \in Wanted(part) => Cardinality(Places(new, o))' = Cardinality(Places(new, o)) + 1
        /\ o \notin Wanted(part) => Cardinality(Places(new, o))' = Cardinality(Places(new, o))
    <3>1. Wanted(part) \in SUBSET Objects /\ part \in Nat /\ new \in Seq(Statements)
      BY <2>2 DEF Wanted, Shapes
    <3>2. Places(new, o)' = Places(new \o Text(rows, part), o)
      BY <2>1 DEF Places
    <3> QED BY <2>1, <2>3, <3>1, <3>2, PlacesGrow
  <2>6. ASSUME KindOf[o] = "unique", o \in stage, part + 1 > Indexes
        PROVE  LabelOf[o] \in labels'
    BY <2>2, <2>3, <2>4, <2>6 DEF Indexes
  <2> QED BY <2>2, <2>3, <2>4, <2>5, <2>6
<1>3. ASSUME NEW x \in Objects, Change(x)  PROVE Extracted'
  <2>1. /\ UNCHANGED <<part, new, labels>> /\ steady' = steady \ {x}
        /\ \A o : o # x => (o \in stage' <=> o \in stage)
    BY <1>3 DEF Change, extract
  <2> QED BY <2>1 DEF Extracted, Places
<1>4. ASSUME UNCHANGED <<stage, steady, part, new, labels>>  PROVE Extracted'
  BY <1>4 DEF Extracted, Places
<1>5. ASSUME \/ Skip \/ Connect \/ Compare \/ OpenReference \/ WriteReference \/ StartManual
             \/ \E p \in Processes : ConvertStep(p) \/ Die(p)
             \/ UNCHANGED vars
      PROVE  UNCHANGED <<stage, steady, part, new, labels>>
  BY <1>5 DEF Skip, Connect, Compare, OpenReference, WriteReference, StartManual, ConvertStep,
     ReadProd, ReadStage, NoSource, OpenInit, WriteInit, Die, vars, extract, history
<1> QED BY <1>1, <1>2, <1>3, <1>4, <1>5 DEF Next, CheckStep

LEMMA StepReported ==
  ASSUME Shapes, Reported, [Next]_vars
  PROVE  Reported'
<1> USE DEF Processes, Goto
<1>0. pc \in [Processes -> PCs] /\ part \in 1 .. 6
  BY DEF Shapes
<1>1. ASSUME Begin  PROVE Reported'
  BY <1>0, <1>1 DEF Begin, files, Reported
<1>2. ASSUME Skip \/ Connect  PROVE Reported'
  BY <1>0, <1>2 DEF Skip, Connect, files, extract, history, Reported
<1>3. ASSUME ExtractPart  PROVE Reported'
  BY <1>3 DEF ExtractPart, files, history, Reported
<1>4. ASSUME Compare  PROVE Reported'
  BY <1>0, <1>4, Parts DEF Compare, files, extract, Reported
<1>5. ASSUME OpenReference \/ WriteReference  PROVE Reported'
  BY <1>0, <1>5 DEF OpenReference, WriteReference, extract, history, Reported
<1>6. ASSUME StartManual \/ \E o \in Objects : Change(o)  PROVE Reported'
  BY <1>0, <1>6 DEF StartManual, Change, files, extract, Reported
<1>7. ASSUME NEW p \in Processes, ConvertStep(p)  PROVE Reported'
  BY <1>0, <1>7 DEF ConvertStep, ReadProd, ReadStage, NoSource, OpenInit, WriteInit, Generated,
     files, extract, history, Reported
<1>8. ASSUME NEW p \in Processes, Die(p)  PROVE Reported'
  BY <1>0, <1>8 DEF Die, extract, Reported
<1>9. ASSUME UNCHANGED vars  PROVE Reported'
  BY <1>9 DEF vars, files, extract, history, Reported
<1> QED BY <1>1, <1>2, <1>3, <1>4, <1>5, <1>6, <1>7, <1>8, <1>9 DEF Next, CheckStep

THEOREM ExtractionInductive == Spec => []EInv
<1>1. EInv /\ [Next]_vars => EInv'
  BY StepShapes, StepExtracted, StepReported DEF EInv
<1> QED BY InitEInv, <1>1, PTL DEF Spec

(* Every variable has its type; extraction is over when the reference is   *)
(* rewritten.                                                              *)
THEOREM TypeCorrect == Spec => []TypeOK
<1>1. EInv => TypeOK
  <2> SUFFICES ASSUME Shapes  PROVE TypeOK
    BY DEF EInv
  <2>1. \A text \in Seq(Statements) : Contents(text) \subseteq Objects
    <3>1. ASSUME NEW text \in Seq(Statements), NEW i \in DOMAIN text
          PROVE  text[i].object \in Objects
      <4>1. text[i] \in Statements
        OBVIOUS
      <4> QED BY <4>1 DEF Statements
    <3> QED BY <3>1 DEF Contents
  <2>2. Contents(saved) \cup Contents(new) \cup Contents(old) \subseteq Objects
    BY <2>1 DEF Shapes
  <2>3. pc["check"] \in PCs /\ pc["manual"] \in PCs \ {"connect", "extract", "save", "saving"}
    BY DEF Shapes, Processes, PCs, Converting
  <2> QED BY <2>2, <2>3, Parts DEF Shapes, TypeOK
<1> QED BY <1>1, ExtractionInductive, PTL

(* Whatever changes on stage between the queries: an object that was there *)
(* all along is in the extracted text once, and one that never was is not. *)
THEOREM ExtractedOnce == Spec => []SteadyExtractedOnce
<1>1. EInv => SteadyExtractedOnce
  <2> SUFFICES ASSUME Shapes, Extracted, part > 5, NEW o \in steady \cap Listed
               PROVE  Cardinality(Places(new, o)) = IF o \in stage THEN 1 ELSE 0
    BY Parts DEF EInv, SteadyExtractedOnce, Places
  <2>1. HomeOf(o) < part
    <3>1. HomeOf(o) \in 1 .. 5
      BY Homes
    <3> QED BY <3>1 DEF Shapes
  <2> QED BY <2>1 DEF Extracted
<1> QED BY <1>1, ExtractionInductive, PTL

(* A run that reports no changes is right: the reference has what was on   *)
(* stage all along and nothing that never was.                             *)
THEOREM ReportIsTrue == Spec => []UnchangedIsTrue
<1>1. EInv => UnchangedIsTrue
  <2> SUFFICES ASSUME EInv, verdict = "unchanged", NEW o \in steady \cap Listed
               PROVE  o \in Contents(saved) <=> o \in stage
    BY DEF UnchangedIsTrue
  <2>1. new = saved /\ part = 6
    BY DEF EInv, Reported
  <2>2. Cardinality(Places(new, o)) = IF o \in stage THEN 1 ELSE 0
    BY <2>1, Homes DEF EInv, Extracted
  <2>3. o \in Contents(new) <=> Places(new, o) # {}
    BY DEF Contents, Places
  <2>4. IsFiniteSet(Places(new, o))
    <3>1. new \in Seq(Statements)
      BY DEF EInv, Shapes
    <3>2. Places(new, o) \subseteq 1 .. Len(new) /\ Len(new) \in Nat
      BY <3>1 DEF Places
    <3>3. IsFiniteSet(1 .. Len(new))
      BY <3>2, FS_Interval
    <3> QED BY <3>2, <3>3, FS_Subset
  <2>5. Places(new, o) = {} <=> Cardinality(Places(new, o)) = 0
    BY <2>4, FS_EmptySet
  <2> QED BY <2>1, <2>2, <2>3, <2>5
<1> QED BY <1>1, ExtractionInductive, PTL
=============================================================================
