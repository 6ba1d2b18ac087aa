-------------------------- MODULE GreenplumRefresh --------------------------
(***************************************************************************)
(* Greenplum_extraction: the script that compares the DDL of the stage     *)
(* database with the saved reference ddl_stage.sql and regenerates         *)
(* init.sql on a change, and convert_and_generate, which it calls and      *)
(* which may be run by hand as well.                                       *)
(*                                                                         *)
(* The extraction makes one query per part; in READ COMMITTED each sees    *)
(* the catalog of its own moment.  write_text truncates a file, then       *)
(* writes it; a process may die in between.  A converted file stands for   *)
(* the text it was made from: StripGp has the conversion itself.  The diff *)
(* report, which nothing reads, is left out.                               *)
(***************************************************************************)
EXTENDS Integers, SequencesExt

CONSTANTS
  Objects,     \* what stage may have in the schemas of the script
  KindOf,      \* the kind of each object
  LabelOf,     \* its name without the schema
  RankOf,      \* its place in the ORDER BY of its part; ties are possible
  Catalogs,    \* the catalogs stage may have at first
  Prods,       \* the texts ddl_prod.sql may have; <<>> for no file
  MaxChanges,  \* bound: DDL run on stage
  MaxFaults,   \* bound: failures of a query or a file operation, deaths
  MaxRuns      \* bound: runs of the scripts

Kinds == {"schema", "table", "function", "index", "primary", "unique", "foreign"}

ASSUME ObjectAssumption ==
  /\ KindOf \in [Objects -> Kinds] /\ RankOf \in [Objects -> Nat]
  /\ DOMAIN LabelOf = Objects /\ IsFiniteSet(Objects)
  /\ Catalogs \subseteq SUBSET Objects
(* A text without a statement, which is not the same as no file, does not  *)
(* occur: the script's schemas are there.                                  *)
ASSUME SchemaAssumption ==
  \A c \in Catalogs : \E o \in c : KindOf[o] = "schema"
ASSUME RefreshBounds ==
  MaxChanges \in Nat /\ MaxFaults \in Nat /\ MaxRuns \in Nat

VARIABLES
  stage,     \* the objects of the stage database
  saved,     \* ddl_stage.sql: statements, <<>> when absent or truncated
  prod,      \* ddl_prod.sql
  init,      \* init.sql
  pg,        \* what ddl_prod_pg.sql and ddl_stage_pg.sql are made from
  pc,        \* where "check" and "manual" are
  part,      \* the part the extraction queries next
  old, new,  \* old_ddl and ddl_parts
  labels,    \* extracted_index_names
  prodText, stageText,  \* prod_content and stage_content, per process
  verdict,   \* how the last run of the check ended
  steady,    \* history: objects unchanged on stage since the check began
  harmed,    \* history: a run of the check left init.sql behind
  byHand,    \* history: a conversion by hand made init.sql or may yet
  changes, faults, runs

files   == <<saved, prod, init, pg>>
extract == <<part, old, new, labels>>
texts   == <<prodText, stageText>>
history == <<verdict, steady, harmed, byHand>>
vars == <<stage, files, pc, extract, texts, history, changes, faults, runs>>

Processes == {"check", "manual"}

(* The kinds of each query: schemas, tables, functions, indexes except     *)
(* those of primary keys, unique constraints and foreign keys.             *)
PartKinds == << {"schema"}, {"table"}, {"function"}, {"index", "unique"},
                {"unique", "foreign"} >>

(* The index rows; those of unique constraints are among them.             *)
Indexes == 4
Constraints == 5

Text(seq, i) == [k \in DOMAIN seq |-> [object |-> seq[k], part |-> i]]

(* The orders a query may return its rows in.                              *)
Rows(objects) ==
  {s \in SetToSeqs(objects) :
     \A i, j \in DOMAIN s : i < j => RankOf[s[i]] <= RankOf[s[j]]}

(* Mutant: constraints are written whatever the indexes were.              *)
WantedOfAll(i) == {o \in stage : KindOf[o] \in PartKinds[i]}

(* The rows of a part that are kept: a unique constraint is skipped if an  *)
(* index of its name was extracted.                                        *)
Wanted(i) ==
  {o \in stage : /\ KindOf[o] \in PartKinds[i]
                 /\ ~(i = Constraints /\ KindOf[o] = "unique" /\ LabelOf[o] \in labels)}

Init ==
  /\ stage \in Catalogs
  /\ saved = <<>> /\ init = <<>> /\ prod \in Prods
  /\ pg = [prod |-> <<>>, stage |-> <<>>]
  /\ pc = [p \in Processes |-> "rest"]
  /\ part = 1 /\ old = <<>> /\ new = <<>> /\ labels = {}
  /\ prodText = [p \in Processes |-> <<>>]
  /\ stageText = [p \in Processes |-> <<>>]
  /\ verdict = "none" /\ steady = Objects
  /\ harmed = FALSE /\ byHand = FALSE
  /\ changes = 0 /\ faults = 0 /\ runs = 0

Goto(p, l) == pc' = [pc EXCEPT ![p] = l]

Fault == faults < MaxFaults /\ faults' = faults + 1

(* DDL on stage: an object comes or goes.  The schemas stay.               *)
Change(o) ==
  /\ KindOf[o] # "schema"
  /\ changes < MaxChanges /\ changes' = changes + 1
  /\ stage' = IF o \in stage THEN stage \ {o} ELSE stage \cup {o}
  /\ steady' = steady \ {o}
  /\ UNCHANGED <<files, pc, extract, texts, verdict, harmed, byHand, faults, runs>>

-----------------------------------------------------------------------------
(* main of the check.                                                      *)

Begin ==
  /\ pc["check"] = "rest" /\ runs < MaxRuns
  /\ runs' = runs + 1
  /\ Goto("check", "connect")
  /\ old' = saved
  /\ part' = 1 /\ new' = <<>> /\ labels' = {}
  /\ verdict' = "none" /\ steady' = Objects
  /\ UNCHANGED <<stage, files, texts, harmed, byHand, changes, faults>>

(* No password or no psycopg2: the check is skipped, with exit code 0.     *)
Skip ==
  /\ pc["check"] = "connect"
  /\ Goto("check", "rest")
  /\ verdict' = "skipped"
  /\ UNCHANGED <<stage, files, extract, texts, steady, harmed, byHand, changes, faults, runs>>

Connect ==
  /\ pc["check"] = "connect"
  /\ Goto("check", "extract")
  /\ UNCHANGED <<stage, files, extract, texts, history, changes, faults, runs>>

ExtractPart ==
  /\ pc["check"] = "extract" /\ part <= Len(PartKinds)
  /\ \E rows \in Rows(Wanted(part)) : new' = new \o Text(rows, part)
  /\ labels' = IF part = Indexes THEN {LabelOf[o] : o \in Wanted(part)} ELSE labels
  /\ part' = part + 1
  /\ UNCHANGED <<stage, files, pc, old, texts, history, changes, faults, runs>>

(* Mutant: only the tables are compared.                                   *)
CompareTables ==
  /\ pc["check"] = "extract" /\ part > Len(PartKinds)
  /\ IF SelectSeq(new, LAMBDA st : st.part = 2) = SelectSeq(old, LAMBDA st : st.part = 2)
     THEN Goto("check", "rest") /\ verdict' = "unchanged"
     ELSE Goto("check", "save") /\ UNCHANGED verdict
  /\ UNCHANGED <<stage, files, extract, texts, steady, harmed, byHand, changes, faults, runs>>

(* Mutant: the text so far is compared.                                    *)
CompareEarly ==
  /\ pc["check"] = "extract"
  /\ IF new = old
     THEN Goto("check", "rest") /\ verdict' = "unchanged"
     ELSE Goto("check", "save") /\ UNCHANGED verdict
  /\ UNCHANGED <<stage, files, extract, texts, steady, harmed, byHand, changes, faults, runs>>

Compare ==
  /\ pc["check"] = "extract" /\ part > Len(PartKinds)
  /\ IF new = old
     THEN Goto("check", "rest") /\ verdict' = "unchanged"
     ELSE Goto("check", "save") /\ UNCHANGED verdict
  /\ UNCHANGED <<stage, files, extract, texts, steady, harmed, byHand, changes, faults, runs>>

(* ref_path.write_text, in two steps.                                      *)
OpenReference ==
  /\ pc["check"] = "save"
  /\ saved' = <<>>
  /\ Goto("check", "saving")
  /\ UNCHANGED <<stage, prod, init, pg, extract, texts, history, changes, faults, runs>>

WriteReference ==
  /\ pc["check"] = "saving"
  /\ saved' = new
  /\ Goto("check", "read_prod")
  /\ UNCHANGED <<stage, prod, init, pg, extract, texts, history, changes, faults, runs>>

-----------------------------------------------------------------------------
(* convert_and_generate, called by the check with source stage.            *)

StartManual ==
  /\ pc["manual"] = "rest" /\ runs < MaxRuns
  /\ runs' = runs + 1
  /\ Goto("manual", "read_prod")
  /\ byHand' = TRUE
  /\ UNCHANGED <<stage, files, extract, texts, verdict, steady, harmed, changes, faults>>

Generated(p) ==
  IF p = "check" THEN verdict' = "regenerated" /\ harmed' = FALSE
  ELSE UNCHANGED <<verdict, harmed>>

(* Each text is read, converted and the conversion written.  Whatever a    *)
(* conversion by hand did before, the check now makes everything anew.     *)
ReadProd(p) ==
  /\ pc[p] = "read_prod"
  /\ prodText' = [prodText EXCEPT ![p] = prod]
  /\ pg' = [pg EXCEPT !.prod = prod]
  /\ Goto(p, "read_stage")
  /\ UNCHANGED <<stage, saved, prod, init, extract, stageText, history, changes, faults, runs>>

ReadStage(p) ==
  /\ pc[p] = "read_stage"
  /\ stageText' = [stageText EXCEPT ![p] = saved]
  /\ pg' = [pg EXCEPT !.stage = saved]
  /\ byHand' = IF p = "check" THEN pc["manual"] # "rest" ELSE byHand
  /\ Goto(p, "open")
  /\ UNCHANGED <<stage, saved, prod, init, extract, prodText, verdict, steady, harmed,
                 changes, faults, runs>>

(* The text asked for, or the other one if that is empty; the check asks   *)
(* for stage.                                                              *)
Sources(p) ==
  LET stageFirst == IF stageText[p] # <<>> THEN stageText[p] ELSE prodText[p]
      prodFirst == IF prodText[p] # <<>> THEN prodText[p] ELSE stageText[p]
  IN IF p = "check" THEN {stageFirst} ELSE {stageFirst, prodFirst}

(* Neither text: nothing is generated.                                     *)
NoSource(p) ==
  /\ pc[p] = "open" /\ <<>> \in Sources(p)
  /\ Goto(p, "rest")
  /\ UNCHANGED <<stage, files, extract, texts, history, changes, faults, runs>>

OpenInit(p) ==
  /\ pc[p] = "open" /\ Sources(p) # {<<>>}
  /\ init' = <<>>
  /\ Goto(p, "write")
  /\ UNCHANGED <<stage, saved, prod, pg, extract, texts, history, changes, faults, runs>>

(* Mutant: prod is preferred whatever the source.                          *)
WriteInitFromProd(p) ==
  /\ pc[p] = "write"
  /\ init' = IF prodText[p] # <<>> THEN prodText[p] ELSE stageText[p]
  /\ Goto(p, "rest")
  /\ Generated(p)
  /\ UNCHANGED <<stage, saved, prod, pg, extract, texts, steady, byHand, changes, faults, runs>>

WriteInit(p) ==
  /\ pc[p] = "write"
  /\ init' \in Sources(p) \ {<<>>}
  /\ Goto(p, "rest")
  /\ Generated(p)
  /\ UNCHANGED <<stage, saved, prod, pg, extract, texts, steady, byHand, changes, faults, runs>>

-----------------------------------------------------------------------------
(* What is left of a file that was being written: its text up to a point.  *)
Torn(text) == {SubSeq(text, 1, k) : k \in 0 .. Len(text)}

(* An exception or the death of the process, anywhere.                     *)
Die(p) ==
  /\ pc[p] # "rest" /\ Fault
  /\ Goto(p, "rest")
  /\ IF p = "check" /\ pc[p] = "saving" THEN saved' \in Torn(new) ELSE UNCHANGED saved
  /\ IF pc[p] = "write" THEN \E text \in Sources(p) : init' \in Torn(text)
     ELSE UNCHANGED init
  /\ CASE pc[p] = "read_prod" -> \E text \in Torn(prod) : pg' = [pg EXCEPT !.prod = text]
       [] pc[p] = "read_stage" -> \E text \in Torn(saved) : pg' = [pg EXCEPT !.stage = text]
       [] OTHER -> UNCHANGED pg
  /\ IF p = "check"
     THEN /\ verdict' = "failed"
          /\ harmed' = (harmed \/ pc[p] \notin {"connect", "extract", "save"})
     ELSE UNCHANGED <<verdict, harmed>>
  /\ UNCHANGED <<stage, prod, extract, texts, steady, byHand, changes, runs>>

ConvertStep(p) ==
  ReadProd(p) \/ ReadStage(p) \/ NoSource(p) \/ OpenInit(p) \/ WriteInit(p)

CheckStep ==
  Skip \/ Connect \/ ExtractPart \/ Compare \/ OpenReference \/ WriteReference

Next ==
  \/ Begin \/ StartManual \/ CheckStep
  \/ \E p \in Processes : ConvertStep(p) \/ Die(p)
  \/ \E o \in Objects : Change(o)

Spec == Init /\ [][Next]_vars

-----------------------------------------------------------------------------
Contents(text) == {text[i].object : i \in DOMAIN text}

(* What the parts list at all: primary keys are in none of them.           *)
Listed == {o \in Objects : KindOf[o] # "primary"}

PCs == {"rest", "connect", "extract", "save", "saving",
        "read_prod", "read_stage", "open", "write"}

(* Every variable has its type; extraction is over when the reference is   *)
(* rewritten.                                                              *)
TypeOK ==
  /\ stage \subseteq Objects /\ steady \subseteq Objects
  /\ Contents(saved) \cup Contents(new) \cup Contents(old) \subseteq Objects
  /\ pc["check"] \in PCs
  /\ pc["manual"] \in PCs \ {"connect", "extract", "save", "saving"}
  /\ part \in 1 .. Len(PartKinds) + 1
  /\ pc["check"] \notin {"rest", "connect", "extract"} => part = Len(PartKinds) + 1
  /\ verdict \in {"none", "skipped", "unchanged", "regenerated", "failed"}
  /\ harmed \in BOOLEAN /\ byHand \in BOOLEAN
  /\ changes \in 0 .. MaxChanges /\ faults \in 0 .. MaxFaults /\ runs \in 0 .. MaxRuns

(* Whatever changes on stage between the queries: an object that was there *)
(* all along is in the extracted text once, and one that never was is not; *)
(* a unique constraint is there as its index alone.                        *)
SteadyExtractedOnce ==
  part > Len(PartKinds) =>
    \A o \in steady \cap Listed :
      Cardinality({i \in DOMAIN new : new[i].object = o})
        = IF o \in stage THEN 1 ELSE 0

(* A run that reports no changes is right: the reference has what was on   *)
(* stage all along and nothing that never was.                             *)
UnchangedIsTrue ==
  verdict = "unchanged" =>
    \A o \in steady \cap Listed : o \in Contents(saved) <=> o \in stage

(* Between runs init.sql and the converted file are those of the           *)
(* reference, unless a run of the check failed after it began to rewrite   *)
(* the reference, or a conversion by hand came in.  A failure before that  *)
(* is harmless, and a run that sees another change repairs everything.     *)
InitFollowsReference ==
  pc["check"] \in {"rest", "connect", "extract", "save"} /\ ~harmed /\ ~byHand
    => init = saved /\ pg.stage = saved

(* "compares it with the saved reference, and regenerates init.sql if      *)
(* anything changed" (docstring of the check): no changes means that       *)
(* init.sql is made from the reference, conversions by hand aside.         *)
UnchangedMeansCurrent == verdict = "unchanged" /\ ~byHand => init = saved
=============================================================================
