----------------------------- MODULE Lifecycle -----------------------------
(***************************************************************************)
(* The life of a crypto-ingest container: main (cmd/ingest/main.go), the   *)
(* Manager with its ban handler, health server and Stop                    *)
(* (internal/worker/manager.go), the workers as their manager sees them    *)
(* (internal/worker/*.go), and Docker's restart policy.                    *)
(*                                                                         *)
(* handleBan runs in the goroutine of whichever worker met the 418, so it  *)
(* is modelled step by step.                                               *)
(***************************************************************************)
EXTENDS Integers, FiniteSets

CONSTANTS
  Workers,     \* the worker goroutines: three per entry of SYMBOLS
  Queries,     \* the statements of RunMigrations
  MaxBans,     \* bound: times the exchange bans the address
  MaxFailures  \* bound: failures of startup steps, and kills

ASSUME LifecycleAssumption ==
  Workers # {} /\ {Queries, MaxBans, MaxFailures} \subseteq Nat

VARIABLES
  main,        \* where main is, "exited" after os.Exit, return or a panic
  code,        \* exit code of the last run
  done,        \* migrations this run has executed
  created,     \* the database: migrations whose object exists
  pc,          \* where each worker is
  healthy,     \* Manager.healthy
  reason,      \* Manager.banReason is set
  cancelled,   \* the workers' context is done
  banCh,       \* banCh is closed
  signalled,   \* SIGTERM or SIGINT arrived: the root context is done
  server,      \* the health server: "none", "serving" or "shut"
  client,      \* the client is banned
  ipBanned,    \* environment: the exchange answers 418 to this address
  stopping,    \* environment: `docker stop` ended this container
  bans, failures

manager == <<healthy, reason, cancelled, banCh>>
schema  == <<done, created>>
bounds  == <<bans, failures>>
vars == <<main, code, schema, pc, manager, signalled, server, client, ipBanned,
          stopping, bounds>>

Startup == {"connect", "migrate", "ping", "info", "symbols", "start"}
MainStates == Startup \cup {"waiting", "stop", "join", "shutdown", "close",
                            "exited"}
InBan == {"ban unhealthy", "ban reason", "ban cancel", "ban check", "ban close"}
WorkerStates == {"none", "idle", "calling", "storing", "stopped"} \cup InBan

(* A fresh process: New..., nothing started yet.                           *)
Fresh ==
  /\ main' = "connect" /\ done' = 0
  /\ pc' = [w \in Workers |-> "none"]
  /\ healthy' = TRUE /\ reason' = FALSE
  /\ cancelled' = FALSE /\ banCh' = FALSE /\ signalled' = FALSE
  /\ server' = "none" /\ client' = FALSE

Init ==
  /\ main = "connect" /\ code = 0
  /\ done = 0 /\ created = 0
  /\ pc = [w \in Workers |-> "none"]
  /\ healthy = TRUE /\ reason = FALSE
  /\ cancelled = FALSE /\ banCh = FALSE /\ signalled = FALSE
  /\ server = "none" /\ client = FALSE
  /\ ipBanned = FALSE /\ stopping = FALSE
  /\ bans = 0 /\ failures = 0

(* Mutant: the workers outlive main.                                       *)
DieKeepingWorkers(n) ==
  /\ main' = "exited" /\ code' = n
  /\ UNCHANGED <<pc, server>>

(* The process is gone with exit code n.                                   *)
Die(n) ==
  /\ main' = "exited" /\ code' = n
  /\ pc' = [w \in Workers |-> "none"]
  /\ server' = "none"

-----------------------------------------------------------------------------
(* main up to the start of the workers.                                    *)
Advance(from, to) ==
  /\ main = from /\ ~signalled
  /\ main' = to
  /\ UNCHANGED <<code, pc, manager, signalled, server, client, ipBanned,
                 stopping, bounds>>

(* config.Load and store.New.                                              *)
Connect == Advance("connect", "migrate") /\ UNCHANGED schema

(* Mutant: a schema that was begun is taken for complete.                  *)
MigrateOnce ==
  \/ /\ created = 0 /\ Queries > 0
     /\ Advance("migrate", "migrate")
     /\ done' = 1 /\ created' = 1
  \/ /\ created > 0 /\ done > 0 /\ done < Queries
     /\ Advance("migrate", "migrate")
     /\ done' = done + 1 /\ created' = done + 1
  \/ /\ done \in {0, Queries} /\ created > 0
     /\ Advance("migrate", "ping")
     /\ UNCHANGED schema

(* RunMigrations: one statement after the other, each IF NOT EXISTS, in no *)
(* transaction.                                                            *)
Migrate ==
  \/ /\ done < Queries
     /\ Advance("migrate", "migrate")
     /\ done' = done + 1
     /\ created' = IF created <= done THEN done + 1 ELSE created
  \/ /\ done = Queries
     /\ Advance("migrate", "ping")
     /\ UNCHANGED schema

Ping == ~ipBanned /\ Advance("ping", "info") /\ UNCHANGED schema

FetchExchangeInfo ==
  ~ipBanned /\ Advance("info", "symbols") /\ UNCHANGED schema

UpsertSymbols == Advance("symbols", "start") /\ UNCHANGED schema

(* A migration whose answer never comes may have been executed.            *)
LastMigration ==
  /\ created' \in {created} \cup
       {n \in 1 .. Queries : main = "migrate" /\ created = done /\ n = done + 1}
  /\ UNCHANGED done

(* A step that fails, that meets the ban (no ban handler is set yet), or   *)
(* whose context the signal cancelled: os.Exit(1).                         *)
StartupFails ==
  /\ main \in Startup \ {"start"}
  /\ \/ signalled /\ UNCHANGED failures
     \/ main \in {"ping", "info"} /\ ipBanned /\ UNCHANGED failures
     \/ failures < MaxFailures /\ failures' = failures + 1
  /\ Die(1)
  /\ LastMigration
  /\ UNCHANGED <<manager, signalled, client, ipBanned, stopping, bans>>

(* Mutant: the workers' context does not descend from the root's.          *)
StartDetached ==
  /\ main = "start"
  /\ pc' = [w \in Workers |-> "idle"]
  /\ main' = "waiting"
  /\ UNCHANGED <<code, schema, manager, signalled, server, client, ipBanned,
                 stopping, bounds>>

(* Manager.Start: the workers run, then the health server starts.          *)
StartWorkers ==
  /\ main = "start"
  /\ pc' = [w \in Workers |-> "idle"]
  /\ cancelled' = signalled
  /\ main' = "waiting"
  /\ UNCHANGED <<code, schema, healthy, reason, banCh, signalled, server, client,
                 ipBanned, stopping, bounds>>

ServeHealth ==
  /\ main \in {"waiting", "stop", "join", "shutdown"}
  /\ server = "none"
  /\ server' = "serving"
  /\ UNCHANGED <<main, code, schema, pc, manager, signalled, client, ipBanned,
                 stopping, bounds>>

-----------------------------------------------------------------------------
Move(w, from, to) == pc[w] = from /\ pc' = [pc EXCEPT ![w] = to]

NotWorkers == <<main, code, schema, signalled, server, ipBanned, stopping, bounds>>

(* The select of Run: a tick or the cancelled context.                     *)
Poll(w) ==
  /\ Move(w, "idle", IF cancelled \/ client THEN "idle" ELSE "calling")
  /\ UNCHANGED <<NotWorkers, manager, client>>

WorkerStops(w) ==
  /\ cancelled
  /\ Move(w, "idle", "stopped")
  /\ UNCHANGED <<NotWorkers, manager, client>>

(* The request fails, or returns what is then stored, or meets the ban.    *)
CallReturns(w) ==
  /\ Move(w, "calling", "idle") \/ (~ipBanned /\ Move(w, "calling", "storing"))
  /\ UNCHANGED <<NotWorkers, manager, client>>

CallMeetsBan(w) ==
  /\ ipBanned
  /\ Move(w, "calling", "ban unhealthy")
  /\ client' = TRUE
  /\ UNCHANGED <<NotWorkers, manager>>

StoreReturns(w) ==
  /\ Move(w, "storing", "idle")
  /\ UNCHANGED <<NotWorkers, manager, client>>

(* Mutant: the workers are stopped before the health flag falls.           *)
BanUnhealthyLate(w) ==
  /\ Move(w, "ban unhealthy", "ban reason")
  /\ cancelled' = TRUE
  /\ healthy' = FALSE
  /\ UNCHANGED <<NotWorkers, reason, banCh, client>>

(* Mutant: the health flag is forgotten.                                   *)
BanStillHealthy(w) ==
  /\ Move(w, "ban unhealthy", "ban reason")
  /\ UNCHANGED <<NotWorkers, manager, client>>

(* handleBan.                                                              *)
BanUnhealthy(w) ==
  /\ Move(w, "ban unhealthy", "ban reason")
  /\ healthy' = FALSE
  /\ UNCHANGED <<NotWorkers, reason, cancelled, banCh, client>>

BanReason(w) ==
  /\ Move(w, "ban reason", "ban cancel")
  /\ reason' = TRUE
  /\ UNCHANGED <<NotWorkers, healthy, cancelled, banCh, client>>

BanCancel(w) ==
  /\ Move(w, "ban cancel", "ban check")
  /\ cancelled' = TRUE
  /\ UNCHANGED <<NotWorkers, healthy, reason, banCh, client>>

BanCheck(w) ==
  /\ Move(w, "ban check", IF banCh THEN "idle" ELSE "ban close")
  /\ UNCHANGED <<NotWorkers, manager, client>>

(* Mutant: the channel main waits on stays open.                           *)
BanCloseForgotten(w) ==
  /\ Move(w, "ban close", "idle")
  /\ UNCHANGED <<NotWorkers, manager, client>>

BanClose(w) ==
  /\ ~banCh
  /\ Move(w, "ban close", "idle")
  /\ banCh' = TRUE
  /\ UNCHANGED <<NotWorkers, healthy, reason, cancelled, client>>

(* Closing a closed channel panics; the runtime exits with code 2.         *)
BanPanics(w) ==
  /\ pc[w] = "ban close" /\ banCh
  /\ Die(2)
  /\ UNCHANGED <<schema, manager, signalled, client, ipBanned, stopping, bounds>>

-----------------------------------------------------------------------------
NotMain == <<schema, pc, signalled, client, ipBanned, stopping, bounds>>

(* WaitForBanOrContext.                                                    *)
Wake ==
  /\ main = "waiting" /\ (signalled \/ banCh)
  /\ main' = "stop"
  /\ UNCHANGED <<NotMain, code, manager, server>>

(* Stop: cancel, wait for the workers or ten seconds, shut the server down.*)
StopCancels ==
  /\ main = "stop"
  /\ cancelled' = TRUE
  /\ main' = "join"
  /\ UNCHANGED <<NotMain, code, healthy, reason, banCh, server>>

WorkersDone == \A w \in Workers : pc[w] = "stopped"

Joined ==
  /\ main = "join" /\ WorkersDone
  /\ main' = "shutdown"
  /\ UNCHANGED <<NotMain, code, manager, server>>

(* Mutant: Stop waits for the workers however long they take.              *)
JoinForever ==
  /\ main = "join" /\ WorkersDone
  /\ main' = "shutdown"
  /\ UNCHANGED <<NotMain, code, manager, server>>

JoinTimeout ==
  /\ main = "join" /\ ~WorkersDone
  /\ main' = "shutdown"
  /\ UNCHANGED <<NotMain, code, manager, server>>

(* httpServer may still be nil: the server goroutine assigns it unlocked.  *)
ShutDown ==
  /\ main = "shutdown"
  /\ main' = "close"
  /\ server' = IF server = "serving" THEN "shut" ELSE server
  /\ UNCHANGED <<NotMain, code, manager>>

(* The deferred Close of the pool waits for connections in use; then main  *)
(* returns.                                                                *)
Return ==
  /\ main = "close"
  /\ \A w \in Workers : pc[w] # "storing"
  /\ Die(0)
  /\ UNCHANGED <<schema, manager, signalled, client, ipBanned, stopping, bounds>>

-----------------------------------------------------------------------------
(* docker stop, or a signal from elsewhere.                                *)
Signal ==
  /\ main # "exited" /\ ~signalled
  /\ failures < MaxFailures
  /\ failures' = failures + 1
  /\ signalled' = TRUE
  /\ stopping' \in BOOLEAN
  /\ cancelled' = (cancelled \/ main \in {"waiting", "stop", "join", "shutdown", "close"})
  /\ UNCHANGED <<main, code, schema, pc, healthy, reason, banCh, server, client,
                 ipBanned, bans>>

(* The grace period of docker stop ends in a kill, as may memory pressure. *)
Kill ==
  /\ main # "exited"
  /\ failures < MaxFailures
  /\ failures' = failures + 1
  /\ Die(137)
  /\ LastMigration
  /\ UNCHANGED <<manager, signalled, client, ipBanned, stopping, bans>>

(* restart: unless-stopped.                                                *)
DockerRestarts ==
  /\ main = "exited" /\ ~stopping
  /\ Fresh
  /\ UNCHANGED <<code, created, ipBanned, stopping, bounds>>

OperatorStarts ==
  /\ main = "exited" /\ stopping
  /\ Fresh
  /\ stopping' = FALSE
  /\ UNCHANGED <<code, created, ipBanned, bounds>>

ExchangeBans ==
  /\ ~ipBanned
  /\ bans < MaxBans
  /\ bans' = bans + 1
  /\ ipBanned' = TRUE
  /\ UNCHANGED <<main, code, schema, pc, manager, signalled, server, client, stopping,
                 failures>>

BanLifted ==
  /\ ipBanned
  /\ ipBanned' = FALSE
  /\ UNCHANGED <<main, code, schema, pc, manager, signalled, server, client, stopping,
                 bounds>>

-----------------------------------------------------------------------------
HandleBan(w) ==
  \/ BanUnhealthy(w) \/ BanReason(w) \/ BanCancel(w)
  \/ BanCheck(w) \/ BanClose(w) \/ BanPanics(w)

WorkerStep(w) ==
  \/ Poll(w) \/ WorkerStops(w) \/ CallReturns(w) \/ CallMeetsBan(w)
  \/ StoreReturns(w) \/ HandleBan(w)

MainStep ==
  \/ Connect \/ Migrate \/ Ping \/ FetchExchangeInfo \/ UpsertSymbols
  \/ StartupFails \/ StartWorkers
  \/ Wake \/ StopCancels \/ Joined \/ JoinTimeout \/ ShutDown \/ Return

Next ==
  \/ MainStep \/ ServeHealth
  \/ \E w \in Workers : WorkerStep(w)
  \/ Signal \/ Kill \/ DockerRestarts \/ OperatorStarts
  \/ ExchangeBans \/ BanLifted

Spec == Init /\ [][Next]_vars

(* main and the workers run; the ten seconds of Stop pass; store calls     *)
(* return within their five-second deadline; the database and the exchange *)
(* are owed nothing.  A cancelled Run takes its Done case in the end.      *)
LiveSpec ==
  /\ Spec
  /\ WF_vars(MainStep) /\ WF_vars(ServeHealth) /\ WF_vars(DockerRestarts)
  /\ \A w \in Workers :
       /\ WF_vars(StoreReturns(w)) /\ WF_vars(HandleBan(w))
       /\ SF_vars(WorkerStops(w))

-----------------------------------------------------------------------------
Flags ==
  /\ healthy \in BOOLEAN /\ reason \in BOOLEAN /\ cancelled \in BOOLEAN
  /\ banCh \in BOOLEAN /\ signalled \in BOOLEAN /\ client \in BOOLEAN
  /\ ipBanned \in BOOLEAN /\ stopping \in BOOLEAN

Counts ==
  /\ done \in 0 .. Queries /\ created \in done .. Queries
  /\ bans \in 0 .. MaxBans /\ failures \in 0 .. MaxFailures

Places ==
  /\ main \in MainStates /\ code \in {0, 1, 2, 137}
  /\ pc \in [Workers -> WorkerStates]
  /\ server \in {"none", "serving", "shut"}
  /\ main \in Startup \cup {"exited"} <=> \A w \in Workers : pc[w] = "none"

(* Every variable has its type; workers exist only beside a started main.  *)
TypeOK == Flags /\ Counts /\ Places

(* The health endpoint never claims health while a ban, and nothing else,  *)
(* stops the workers: the flag falls before the context is cancelled.      *)
BanShowsUnhealthy ==
  cancelled /\ ~signalled /\ main \notin {"exited"} =>
    ~healthy /\ reason

(* A worker turns to the exchange only while main waits and no ban has     *)
(* closed the channel: from the moment main can wake until the process is  *)
(* gone, however long Stop takes, no poll starts a request.                *)
NoCallWhileStopping ==
  [][\A w \in Workers : pc[w] = "idle" /\ pc'[w] = "calling" =>
       main = "waiting" /\ ~banCh /\ ~signalled]_vars

(* A worker stores only into a complete schema, although the migrations of *)
(* an earlier run may have been cut short anywhere.                        *)
StoresMeetTables ==
  \A w \in Workers : pc[w] = "storing" => created = Queries

(* main leaves its wait for a reason the outside can see: a signal, or a   *)
(* ban that the health endpoint shows and that has stopped the workers.    *)
StopsForCause ==
  main \in {"stop", "join", "shutdown", "close"} =>
    signalled \/ (~healthy /\ reason /\ cancelled)

(* A signal ends the process, however the workers are placed: Stop gives   *)
(* up on a worker after ten seconds, and the pool closes.                  *)
SignalEnds == signalled ~> main = "exited"

(* A ban met by a worker stops the run in the end.                         *)
BanEnds ==
  client ~> main = "exited"

(* "Closed in handleBan with double-close guard" (errors.md:12): handling  *)
(* a ban never panics.                                                     *)
DoubleCloseGuarded == code # 2

(* "HTTP 418: stop ALL workers, /healthz returns 503 with ban reason, do   *)
(* NOT exit process" (task_plan.md:391).                                   *)
BanKeepsProcess ==
  main = "exited" /\ banCh => signalled \/ code # 0
=============================================================================
