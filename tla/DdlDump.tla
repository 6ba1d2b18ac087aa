------------------------------ MODULE DdlDump ------------------------------
(***************************************************************************)
(* clickhouse/extract_ddl.py: the DDL of a ClickHouse server written to an *)
(* SQL file, one section after the other.  A section is a listing query,   *)
(* then one SHOW CREATE per row.  Every query sees the catalog of its own  *)
(* moment: other clients create and drop objects in between.               *)
(***************************************************************************)
EXTENDS Integers, SequencesExt

CONSTANTS
  Order,       \* all names, in the order ORDER BY gives them
  KindsOf,     \* the kinds an object of each name may have
  DbOf,        \* the database of each name that lives in one, or Nil
  Needs,       \* the names whose objects a CREATE of each name refers to
  Odd,         \* names with a character that is not a word character
  PathOf,      \* the ReplicatedMergeTree arguments of each name's table
  SystemDbs, Include, Exclude,  \* database filters; no Include: {}
  Clusters,    \* the clusters not called test_..., in sorted order
  Mentions,    \* the clusters whose name occurs in each name's engine_full
  RowLimit,    \* the LIMIT of resolve_cluster's query: 100
  Nodes, Here, \* the servers, and the one the script asks
  ShardOf, ReplicaOf,           \* macros of each server
  Catalogs,    \* the catalogs the script may find
  Nil,         \* no cluster, no database, no object
  MaxEvents    \* bound: changes of the catalog, failures, interruptions

Names == ToSet(Order)

Kinds == {"database", "table", "dictionary", "matview", "view", "distributed",
          "function", "profile", "policy", "quota"}

(* What lives in a database, as far as main lists it.                      *)
Contained == {"table", "dictionary", "matview", "view", "distributed"}

(* What a name that was cut at an odd character makes of the name.         *)
Garbled == "garbled"

ASSUME CatalogAssumption ==
  /\ Order \in Seq(Names) /\ {Nil, Garbled} \cap (Names \cup Kinds) = {}
  /\ KindsOf \in [Names -> SUBSET Kinds] /\ DbOf \in [Names -> Names \cup {Nil}]
  /\ Needs \in [Names -> SUBSET Names] /\ Odd \subseteq Names
  /\ \A n \in Names : \A m \in Needs[n] : Needs[m] \subseteq Needs[n]
(* A name is that of a database, of something in one, or of neither.       *)
ASSUME KindAssumption ==
  /\ \A n \in Names :
       /\ "database" \in KindsOf[n] => KindsOf[n] = {"database"}
       /\ IF DbOf[n] = Nil THEN KindsOf[n] \cap Contained = {}
          ELSE KindsOf[n] \subseteq Contained /\ KindsOf[DbOf[n]] = {"database"}
  /\ \A d \in Names \cap (SystemDbs \cup Exclude) : KindsOf[d] = {"database"}
  /\ Nil \notin SystemDbs \cup Exclude
(* The server accepted them: objects live in a database that exists and    *)
(* refer to what exists.                                                   *)
ASSUME CatalogsValid ==
  /\ Catalogs \subseteq [Names -> Kinds \cup {Nil}]
  /\ \A c \in Catalogs : \A n \in Names : c[n] # Nil =>
       /\ c[n] \in KindsOf[n]
       /\ DbOf[n] # Nil => c[DbOf[n]] # Nil
       /\ \A m \in Needs[n] : c[m] # Nil
ASSUME ClusterAssumption ==
  /\ Here \in Nodes /\ Clusters \in Seq(ToSet(Clusters)) /\ Nil \notin ToSet(Clusters)
  /\ Mentions \in [Names -> SUBSET ToSet(Clusters)]
  /\ RowLimit \in Nat /\ MaxEvents \in Nat

VARIABLES
  catalog,   \* the kind of the object each name has on the server, or Nil
  pc,        \* where main is
  cluster,   \* cluster_name
  macros,    \* the macros shard and replica are known
  dbs,       \* databases
  sec,       \* the section main builds
  todo,      \* the rows of its listing still to be shown
  dump,      \* the statements so far
  file,      \* the output file: "old", "partial" or "new"
  steady,    \* history: names whose object never changed since the start
  missed,    \* history: names a failed query left out
  events     \* changes and failures so far

script  == <<pc, cluster, macros, dbs, sec, todo, dump, file>>
dumpVars == <<catalog, script, steady, missed, events>>

Sections == <<"databases", "tables", "views", "distributed", "dictionaries",
              "functions", "profiles", "policies", "quotas">>

InDatabase == {"tables", "views", "distributed", "dictionaries"}

(* Sections whose listing may fail: they are left out without a word.      *)
Tolerant == {"dictionaries", "functions", "profiles", "policies", "quotas"}

(* The kinds a listing returns; system.tables has dictionaries too.        *)
Lists == [databases |-> {"database"},
          tables |-> {"table", "dictionary"}, views |-> {"matview", "view"},
          distributed |-> {"distributed"}, dictionaries |-> {"dictionary"},
          functions |-> {"function"}, profiles |-> {"profile"},
          policies |-> {"policy"}, quotas |-> {"quota"}]

(* Mutant: the pattern for views forgets MATERIALIZED.                     *)
InjectsPlainViews == [Lists EXCEPT !.tables = {"table", "distributed"},
                                   !.views = {"view"}]

(* The kinds whose CREATE the ON CLUSTER pattern of a section matches.     *)
Injects == [Lists EXCEPT !.tables = {"table", "distributed"},
                         !.distributed = {"table", "distributed"}]


(* SHOW CREATE TABLE shows whatever system.tables lists.                   *)
Shows(s) == IF s \in {"tables", "views", "distributed"}
            THEN {"table", "dictionary", "matview", "view", "distributed"}
            ELSE Lists[s]

-----------------------------------------------------------------------------
(* reparameterize_replicated_paths.                                        *)

(* str.replace of "/<shard>/": a component between two slashes, unless the *)
(* slash before it was consumed by the component before it.                *)
Replaced(dir) ==
  LET r[i \in 0 .. Len(dir)] ==
        i > 0 /\ i < Len(dir) /\ dir[i] = ShardOf[Here] /\ ~r[i - 1]
  IN r

(* Mutant: only the replica argument is rewritten.                         *)
ReparameterizeReplica(path) ==
  [path EXCEPT !.replica = IF @ = ReplicaOf[Here] THEN "{replica}" ELSE @]

Reparameterize(path) ==
  [dir |-> [i \in DOMAIN path.dir |->
              IF Replaced(path.dir)[i] THEN "{shard}" ELSE path.dir[i]],
   replica |-> IF path.replica = ReplicaOf[Here] THEN "{replica}" ELSE path.replica]

-----------------------------------------------------------------------------
(* The patterns end a name at its first odd character: ON CLUSTER lands    *)
(* inside the quotes and makes another name of it.  The row policies'      *)
(* pattern does not match, nor does any for an odd database.               *)
Garbles(s, n, k) ==
  /\ cluster # Nil /\ k \in Injects[s]
  /\ n \in Odd /\ s # "policies" /\ DbOf[n] \notin Odd

OnCluster(s, n, k) ==
  IF k \in Injects[s] /\ n \notin Odd /\ DbOf[n] \notin Odd THEN cluster ELSE Nil

(* Mutant: Distributed tables are written without IF NOT EXISTS.           *)
StatementUnguarded(s, n, k) ==
  [name |-> IF s # "databases" /\ Garbles(s, n, k) THEN Garbled ELSE n,
   kind |-> k,
   safe |-> s \notin {"distributed", "profiles", "policies", "quotas"},
   broken |-> s = "databases" /\ n \in Odd,
   cluster |-> OnCluster(s, n, k),
   path |-> IF s = "tables" /\ macros THEN Reparameterize(PathOf[n]) ELSE PathOf[n]]

(* The statement written for an object of kind k that section s shows.     *)
(* extract_databases does not quote its names.                             *)
Statement(s, n, k) ==
  [name |-> IF s # "databases" /\ Garbles(s, n, k) THEN Garbled ELSE n,
   kind |-> k,
   safe |-> s \notin {"profiles", "policies", "quotas"},
   broken |-> s = "databases" /\ n \in Odd,
   cluster |-> OnCluster(s, n, k),
   path |-> IF s = "tables" /\ macros THEN Reparameterize(PathOf[n]) ELSE PathOf[n]]

Place(n) == CHOOSE i \in DOMAIN Order : Order[i] = n

(* ORDER BY database, engine, name; the engine of views only differs.      *)
Before(m, n) ==
  LET engine(k) == IF catalog[k] = "view" THEN 1 ELSE 0 IN
  IF DbOf[m] # DbOf[n] THEN Place(DbOf[m]) < Place(DbOf[n])
  ELSE \/ engine(m) < engine(n)
       \/ engine(m) = engine(n) /\ Place(m) < Place(n)

(* The answer of a query, the one sequence that is in order.               *)
Rows(names) ==
  {rows \in SetToSeqs(names) :
     \A i, j \in DOMAIN rows : i < j => Before(rows[i], rows[j])}

(* The rows of a section's listing.                                        *)
Listing(s) ==
  Rows({n \in Names : /\ catalog[n] \in Lists[s]
                      /\ s \in InDatabase => DbOf[n] \in ToSet(dbs)})

Statements(s, names) ==
  [i \in DOMAIN names |-> Statement(s, names[i], catalog[names[i]])]

-----------------------------------------------------------------------------
DumpInit ==
  /\ catalog \in Catalogs
  /\ pc = "connect" /\ cluster = Nil /\ macros = FALSE
  /\ dbs = <<>> /\ sec = 1 /\ todo = <<>> /\ dump = <<>>
  /\ file = "old"
  /\ steady = Names /\ missed = {} /\ events = 0

Event == events < MaxEvents /\ events' = events + 1

Exit(code) == /\ pc' = code
              /\ UNCHANGED <<cluster, macros, dbs, sec, todo, dump>>

(* Other clients.  A database goes with everything in it.                  *)
Create(n) ==
  /\ Event /\ catalog[n] = Nil
  /\ \E k \in KindsOf[n] : catalog' = [catalog EXCEPT ![n] = k]
  /\ DbOf[n] # Nil => catalog[DbOf[n]] # Nil
  /\ \A m \in Needs[n] : catalog[m] # Nil
  /\ steady' = steady \ {n}
  /\ UNCHANGED <<script, missed>>

Drop(n) ==
  /\ Event /\ catalog[n] # Nil
  /\ LET gone == {m \in Names : m = n \/ DbOf[m] = n} IN
       /\ catalog' = [m \in Names |-> IF m \in gone THEN Nil ELSE catalog[m]]
       /\ steady' = steady \ gone
  /\ UNCHANGED <<script, missed>>

(* Credentials, the connection, SELECT 1 and detect_clusters.              *)
Connect ==
  /\ pc = "connect"
  /\ \/ pc' = "resolve" /\ UNCHANGED <<events, cluster, macros, dbs, sec, todo, dump>>
     \/ Event /\ Exit("failed")
  /\ UNCHANGED <<catalog, file, steady, missed>>

(* The tables resolve_cluster may be shown: with LIMIT and no ORDER BY any *)
(* RowLimit of the Distributed tables there are.                           *)
ResultRows ==
  LET tables == {n \in Names : catalog[n] = "distributed" /\ DbOf[n] \notin SystemDbs}
  IN IF Cardinality(tables) <= RowLimit THEN {tables} ELSE kSubset(RowLimit, tables)

(* The clusters that occur in the engine of one of these tables: the first *)
(* of them in sorted order, for the first row, whichever it is, that has   *)
(* one.                                                                    *)
Candidates(tables) ==
  {CHOOSE c \in Mentions[n] : \A d \in Mentions[n] :
       \E i, j \in DOMAIN Clusters : Clusters[i] = c /\ Clusters[j] = d /\ i <= j
   : n \in {m \in tables : Mentions[m] # {}}}

(* Mutant: the Distributed tables are not asked.                           *)
ResolveFirst ==
  /\ pc = "resolve"
  /\ cluster' = IF Clusters = <<>> THEN Nil ELSE Clusters[1]
  /\ pc' = "macros"
  /\ UNCHANGED <<catalog, macros, dbs, sec, todo, dump, file, steady, missed, events>>

(* resolve_cluster; a failed query falls back to the first cluster.        *)
Resolve ==
  /\ pc = "resolve"
  /\ CASE Len(Clusters) = 0 -> cluster' = Nil /\ UNCHANGED <<events, missed>>
       [] Len(Clusters) = 1 -> cluster' = Clusters[1] /\ UNCHANGED <<events, missed>>
       [] OTHER ->
            \/ /\ \E tables \in ResultRows :
                    cluster' \in IF Candidates(tables) = {} THEN {Clusters[1]}
                                ELSE Candidates(tables)
               /\ UNCHANGED <<events, missed>>
            \/ /\ Event
               /\ cluster' = Clusters[1]
               /\ missed' = missed \cup {Nil}
  /\ pc' = "macros"
  /\ UNCHANGED <<catalog, macros, dbs, sec, todo, dump, file, steady>>

GetMacros ==
  /\ pc = "macros"
  /\ \/ macros' = TRUE /\ UNCHANGED events
     \/ macros' = FALSE /\ Event
  /\ pc' = "databases"
  /\ UNCHANGED <<catalog, cluster, dbs, sec, todo, dump, file, steady, missed>>

GetDatabases ==
  /\ pc = "databases"
  /\ \/ /\ dbs' \in Rows({n \in Names : /\ catalog[n] = "database"
                                        /\ n \notin SystemDbs \cup Exclude
                                        /\ Include # {} => n \in Include})
        /\ pc' = "list"
        /\ UNCHANGED <<events, cluster, macros, sec, todo, dump>>
     \/ Event /\ Exit("failed")
  /\ UNCHANGED <<catalog, file, steady, missed>>

NextSection ==
  /\ sec' = sec + 1
  /\ pc' = IF sec = Len(Sections) THEN "write" ELSE "list"

(* extract_databases makes no query; nor do the sections of an empty list  *)
(* of databases.                                                           *)
ListNothing ==
  /\ pc = "list"
  /\ \/ Sections[sec] = "databases"
     \/ Sections[sec] \in InDatabase /\ dbs = <<>>
  /\ dump' = dump \o IF Sections[sec] = "databases"
                     THEN [i \in DOMAIN dbs |-> Statement("databases", dbs[i], "database")]
                     ELSE <<>>
  /\ NextSection
  /\ UNCHANGED <<catalog, cluster, macros, dbs, todo, file, steady, missed, events>>

Queries == /\ Sections[sec] # "databases"
           /\ Sections[sec] \in InDatabase => dbs # <<>>

(* A listing; that of functions may carry their create_query.              *)
List ==
  /\ pc = "list" /\ Queries
  /\ \E rows \in Listing(Sections[sec]) :
       \/ pc' = "show" /\ todo' = rows /\ UNCHANGED <<sec, dump>>
       \/ /\ Sections[sec] = "functions"
          /\ dump' = dump \o Statements("functions", rows)
          /\ NextSection /\ UNCHANGED todo
  /\ UNCHANGED <<catalog, cluster, macros, dbs, file, steady, missed, events>>

(* A failed listing: a tolerant section stays empty, else main dies of the *)
(* exception.                                                              *)
ListFails ==
  /\ pc = "list" /\ Queries /\ Event
  /\ \/ /\ Sections[sec] \in Tolerant
        /\ missed' = missed \cup {n \in Names : catalog[n] \in Lists[Sections[sec]]}
        /\ NextSection
        /\ UNCHANGED <<cluster, macros, dbs, todo, dump>>
     \/ /\ Sections[sec] \notin Tolerant
        /\ Exit("failed")
        /\ UNCHANGED missed
  /\ UNCHANGED <<catalog, file, steady>>

(* Mutant: an object that is gone ends its section.                        *)
ShowOrBreak ==
  /\ pc = "show" /\ todo # <<>>
  /\ LET n == Head(todo) s == Sections[sec] IN
       IF catalog[n] \in Shows(s)
       THEN /\ todo' = Tail(todo)
            /\ dump' = Append(dump, Statement(s, n, catalog[n]))
       ELSE todo' = <<>> /\ UNCHANGED dump
  /\ UNCHANGED <<catalog, pc, cluster, macros, dbs, sec, file, steady, missed, events>>

(* get_show_create of one row, and the rewriting of its answer; an object  *)
(* that is gone is skipped.                                                *)
Show ==
  /\ pc = "show" /\ todo # <<>>
  /\ todo' = Tail(todo)
  /\ LET n == Head(todo) s == Sections[sec] IN
       dump' = IF catalog[n] \in Shows(s)
               THEN Append(dump, Statement(s, n, catalog[n])) ELSE dump
  /\ UNCHANGED <<catalog, pc, cluster, macros, dbs, sec, file, steady, missed, events>>

(* A failed SHOW CREATE skips its object with a warning.                   *)
ShowFails ==
  /\ pc = "show" /\ todo # <<>> /\ Event
  /\ todo' = Tail(todo)
  /\ missed' = missed \cup {Head(todo)}
  /\ UNCHANGED <<catalog, pc, cluster, macros, dbs, sec, dump, file, steady>>

SectionDone ==
  /\ pc = "show" /\ todo = <<>>
  /\ NextSection
  /\ UNCHANGED <<catalog, cluster, macros, dbs, todo, dump, file, steady, missed, events>>

(* write_text truncates the file, then writes it.                          *)
Open ==
  /\ pc = "write"
  /\ \/ pc' = "writing" /\ file' = "partial"
        /\ UNCHANGED <<events, cluster, macros, dbs, sec, todo, dump>>
     \/ Event /\ Exit("failed") /\ UNCHANGED file
  /\ UNCHANGED <<catalog, steady, missed>>

(* Mutant: an error of the write is only printed.                          *)
WriteUnchecked ==
  /\ pc = "writing"
  /\ \/ Exit("written") /\ file' = "new" /\ UNCHANGED events
     \/ Event /\ Exit("written") /\ UNCHANGED file
  /\ UNCHANGED <<catalog, steady, missed>>

Write ==
  /\ pc = "writing"
  /\ \/ Exit("written") /\ file' = "new" /\ UNCHANGED events
     \/ Event /\ Exit("failed") /\ UNCHANGED file
  /\ UNCHANGED <<catalog, steady, missed>>

DumpStep ==
  \/ Connect \/ Resolve \/ GetMacros \/ GetDatabases
  \/ ListNothing \/ List \/ ListFails \/ Show \/ ShowFails \/ SectionDone
  \/ Open \/ Write

Running == pc \notin {"failed", "written"}

DumpNext == Running /\ (DumpStep \/ \E n \in Names : Create(n) \/ Drop(n))
=============================================================================
