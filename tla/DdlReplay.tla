----------------------------- MODULE DdlReplay -----------------------------
(***************************************************************************)
(* The file extract_ddl.py wrote, replayed statement by statement on an    *)
(* empty cluster of the same layout, as init.sh feeds init.sql to          *)
(* clickhouse-client: the first failing statement ends the replay.  It may *)
(* be interrupted, and be started again from the top.                      *)
(***************************************************************************)
EXTENDS DdlDump

CONSTANTS
  NodesOf,      \* the servers of each cluster
  MaxReplays    \* bound: starts of the replay

ASSUME ReplayAssumption ==
  NodesOf \in [ToSet(Clusters) -> SUBSET Nodes] /\ MaxReplays \in Nat

VARIABLES
  have,      \* the statements whose objects exist on each server
  pos,       \* the statement the replay is at, 0 when none runs
  outcome,   \* of the last replay: "none", "running", "stopped" or "finished"
  replays    \* starts so far

target == <<have, pos, outcome, replays>>
vars == <<dumpVars, target>>

Has(n, name) == \E st \in have[n] : st.name = name

Targets(st) == IF st.cluster = Nil THEN {Here} ELSE NodesOf[st.cluster]

(* What a replica registers in Keeper: its path and its name, with the     *)
(* macros of its server.                                                   *)
Replica(st, n) ==
  [dir |-> [i \in DOMAIN st.path.dir |->
              IF st.path.dir[i] = "{shard}" THEN ShardOf[n] ELSE st.path.dir[i]],
   replica |-> IF st.path.replica = "{replica}" THEN ReplicaOf[n] ELSE st.path.replica]

(* Two servers that would register the same replica of a table.            *)
Clash(st, n, other, m) ==
  /\ n # m
  /\ st.kind = "table" /\ other.kind = "table"
  /\ Replica(st, n) = Replica(other, m)

Free(st, n) == \A m \in Nodes : \A other \in have[m] : ~Clash(st, n, other, m)

(* What a statement refers to; another name made of it refers to nothing.  *)
Refers(st) == IF st.name = Garbled THEN {} ELSE Needs[st.name]

(* Servers on which the statement can create its object.                   *)
Able(st) ==
  {n \in Targets(st) : /\ ~st.broken /\ ~Has(n, st.name)
                       /\ \A m \in Refers(st) : Has(n, m)
                       /\ Free(st, n)}

Acceptable(st, n) == st.safe /\ ~st.broken /\ Has(n, st.name)

-----------------------------------------------------------------------------
ReplayInit ==
  /\ have = [n \in Nodes |-> {}]
  /\ pos = 0 /\ outcome = "none" /\ replays = 0

Init == DumpInit /\ ReplayInit

Dump == DumpNext /\ UNCHANGED target

Start ==
  /\ pc = "written" /\ outcome # "running"
  /\ replays < MaxReplays
  /\ replays' = replays + 1
  /\ pos' = 1 /\ outcome' = "running"
  /\ UNCHANGED <<dumpVars, have>>

(* One statement: of the servers able to create the object, one of any two *)
(* that clash is left out.                                                 *)
Execute ==
  /\ outcome = "running" /\ pos <= Len(dump)
  /\ LET st == dump[pos] IN
     \E made \in SUBSET Able(st) :
       /\ \A n, m \in made : ~Clash(st, n, st, m)
       /\ \A n \in Able(st) \ made : \E m \in made : Clash(st, n, st, m)
       /\ have' = [n \in Nodes |-> IF n \in made THEN have[n] \cup {st} ELSE have[n]]
       /\ IF \A n \in Targets(st) : n \in made \/ Acceptable(st, n)
          THEN pos' = pos + 1 /\ UNCHANGED outcome
          ELSE outcome' = "stopped" /\ UNCHANGED pos
  /\ UNCHANGED <<dumpVars, replays>>

Finish ==
  /\ outcome = "running" /\ pos > Len(dump)
  /\ outcome' = "finished"
  /\ UNCHANGED <<dumpVars, have, pos, replays>>

Interrupt ==
  /\ outcome = "running" /\ Event
  /\ outcome' = "none"
  /\ UNCHANGED <<catalog, script, steady, missed, have, pos, replays>>

Next == Dump \/ Start \/ Execute \/ Finish \/ Interrupt

Spec == Init /\ [][Next]_vars

-----------------------------------------------------------------------------
(* Every variable has its type; exit 0 means the file was written whole,   *)
(* and the servers have nothing the file does not make.                    *)
TypeOK ==
  /\ catalog \in [Names -> Kinds \cup {Nil}]
  /\ pc \in {"connect", "resolve", "macros", "databases", "list", "show",
             "write", "writing", "failed", "written"}
  /\ cluster \in ToSet(Clusters) \cup {Nil} /\ macros \in BOOLEAN
  /\ ToSet(dbs) \cup ToSet(todo) \cup steady \subseteq Names
  /\ sec \in 1 .. Len(Sections) + 1
  /\ missed \subseteq Names \cup {Nil}
  /\ file \in {"old", "partial", "new"}
  /\ file = "new" <=> pc = "written"
  /\ events \in 0 .. MaxEvents /\ replays \in 0 .. MaxReplays
  /\ outcome \in {"none", "running", "stopped", "finished"}
  /\ \A n \in Nodes : have[n] \subseteq ToSet(dump)
  /\ pos \in 0 .. Len(dump) + 1

(* The sections that list a kind.                                          *)
SectionsOf(k) == {i \in DOMAIN Sections : k \in Lists[Sections[i]]}

Selected(n) == \/ DbOf[n] = Nil /\ catalog[n] # "database"
               \/ {n, DbOf[n]} \cap ToSet(dbs) # {}

(* An object the extraction owes: it was there all along, it is selected,  *)
(* and no query about it failed.                                           *)
Owed(n) == /\ n \in steady \ missed
           /\ catalog[n] # Nil
           /\ Selected(n)
           /\ DbOf[n] # Nil => DbOf[n] \in steady

(* Whatever is created, dropped or made anew as something else in between: *)
(* a written dump has one statement for each object that was there all     *)
(* along (two for a dictionary, which system.tables lists as well), and    *)
(* none for what is in a database left out.                                *)
SteadyDumpedOnce ==
  pc = "written" =>
    \A n \in Names \ Odd :
      LET copies == Cardinality({i \in DOMAIN dump : dump[i].name = n}) IN
      /\ Owed(n) => copies = Cardinality(SectionsOf(catalog[n]))
      /\ {n, DbOf[n]} \cap (SystemDbs \cup Exclude) # {} => copies = 0

(* What may have been a Distributed table without a known cluster when the *)
(* cluster was resolved.                                                   *)
Silent ==
  {m \in Names : /\ Mentions[m] = {} /\ DbOf[m] \notin SystemDbs
                 /\ "distributed" \in KindsOf[m]
                 /\ m \in steady => catalog[m] = "distributed"}

(* With several clusters, statements are sent to the one that the          *)
(* Distributed tables agree on, if one of them was there all along and     *)
(* those that name no cluster were too few to fill the rows that were read.*)
ClusterFollowsTables ==
  \A n \in steady : \A c \in Mentions[n] :
    /\ pc \notin {"connect", "resolve", "failed"} /\ Nil \notin missed
    /\ Len(Clusters) > 1
    /\ catalog[n] = "distributed" /\ DbOf[n] \notin SystemDbs
    /\ \A m \in Names : Mentions[m] \subseteq {c}
    /\ Cardinality(Silent) < RowLimit
    => cluster = c

Sound(n) == Owed(n) /\ n \notin Odd /\ (DbOf[n] # Nil => DbOf[n] \notin Odd)

(* A replay that ran to its end, however often it was interrupted before,  *)
(* has made every object that was there all along on every server of the   *)
(* cluster, and as what it was.                                            *)
ReplayedEverywhere ==
  outcome = "finished" =>
    \A n \in Names : Sound(n) =>
      \A m \in (IF cluster = Nil THEN {Here} ELSE NodesOf[cluster]) :
        \E st \in have[m] : st.name = n /\ st.kind = catalog[n]

(* A statement for the name that reaches wherever st goes comes before i.  *)
Precedes(name, st, i) ==
  \E j \in 1 .. i - 1 : dump[j].name = name /\ Targets(st) \subseteq Targets(dump[j])

(* A component of a directory that stands for the server's shard, as it    *)
(* was written or as it is rewritten; an argument that is the replica's.   *)
Marked(path, i) == path.dir[i] = "{shard}" \/ Replaced(path.dir)[i]
Own(path) == path.replica \in {"{replica}", ReplicaOf[Here]}

(* Both were there all along and the macros were read, so both paths were  *)
(* rewritten.                                                              *)
Rewritten(st, other) == macros /\ {st.name, other.name} \subseteq steady

(* Both paths name the shard at one place.                                 *)
ByShard(st, other) ==
  LET p == PathOf[st.name] q == PathOf[other.name] IN
  \E i \in DOMAIN p.dir \cap DOMAIN q.dir : Marked(p, i) /\ Marked(q, i)

(* The two paths tell the servers n and m apart.                           *)
TellApart(st, n, other, m) ==
  /\ Rewritten(st, other)
  /\ \/ ShardOf[n] # ShardOf[m] /\ ByShard(st, other)
     \/ ReplicaOf[n] # ReplicaOf[m] /\ Own(PathOf[st.name]) /\ Own(PathOf[other.name])

(* A replay stops for one of these causes only: a database name that needs *)
(* quotes; an access entity that exists already; something the statement   *)
(* refers to that comes later in the file, reaches fewer servers or        *)
(* changed during the extraction; a path that does not tell two servers    *)
(* apart, or was not rewritten.                                            *)
StopsForCause ==
  outcome = "stopped" =>
    LET st == dump[pos] IN
    \/ st.broken
    \/ /\ st.kind \in {"profile", "policy", "quota"}
       /\ \E n \in Targets(st) : Has(n, st.name)
    \/ \E m \in Refers(st) : ~Precedes(m, st, pos)
    \/ \E n \in Targets(st), m \in Nodes : \E other \in have[m] \cup {st} :
         Clash(st, n, other, m) /\ ~TellApart(st, n, other, m)

(* Servers of different shards never replicate a table of each other, if   *)
(* the macros were read, both tables were there all along, and the shard   *)
(* has a place in both paths.                                              *)
ShardsApart ==
  \A n, m \in Nodes : ShardOf[n] # ShardOf[m] =>
    \A st \in have[n], other \in have[m] :
      /\ st.kind = "table" /\ other.kind = "table"
      /\ Rewritten(st, other) /\ ByShard(st, other)
      => Replica(st, n).dir # Replica(other, m).dir

(* "Extract ClickHouse DDL into an idempotent SQL file"                    *)
(* (extract_ddl.py:22): a file that was replayed to its end can be         *)
(* replayed again.                                                         *)
ReplayIdempotent ==
  [][(\A i \in DOMAIN dump : \A n \in Targets(dump[i]) : Has(n, dump[i].name))
        => outcome' # "stopped"]_vars
=============================================================================
