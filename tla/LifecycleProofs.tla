-------------------------- MODULE LifecycleProofs --------------------------
(* Theorems about Lifecycle, for any workers, migrations and bounds.       *)
EXTENDS Lifecycle, TLAPS

(* What each worker inside handleBan has done so far, and what a closed    *)
(* channel tells of whoever closed it.                                     *)
Handled ==
  /\ \A w \in Workers :
       /\ pc[w] \in InBan \ {"ban unhealthy"} => ~healthy
       /\ pc[w] \in {"ban cancel", "ban check", "ban close"} => reason
       /\ pc[w] \in {"ban check", "ban close"} => cancelled
       /\ pc[w] \in InBan => client
  /\ banCh => ~healthy /\ reason /\ cancelled

(* Why the workers' context is done, and when it must be.                  *)
Caused ==
  /\ cancelled => signalled \/ (~healthy /\ reason)
  /\ main = "stop" => signalled \/ banCh
  /\ main \in {"join", "shutdown", "close"} => cancelled
  /\ signalled /\ main \notin Startup \cup {"exited"} => cancelled

(* Only a run that executed every migration gets past RunMigrations.       *)
Migrated ==
  main \notin {"connect", "migrate", "exited"} => done = Queries

(* Before Manager.Start no context can have been cancelled.                *)
Started == main \in Startup => ~cancelled /\ ~banCh

(* None of the properties below is inductive: each rests on how far the    *)
(* workers inside handleBan have come.                                     *)
Ordered == Handled /\ Caused /\ Migrated /\ Started

IInv == TypeOK /\ Ordered

-----------------------------------------------------------------------------
(* A container that was never started has nothing cancelled or created.    *)
LEMMA InitIInv == Init => IInv
<1> SUFFICES ASSUME Init PROVE IInv
  OBVIOUS
<1>1. Flags BY Zenon DEF Init, Flags
<1>2. Counts BY LifecycleAssumption DEF LifecycleAssumption, Init, Counts
<1>3. Places
  BY LifecycleAssumption
     DEF LifecycleAssumption, Init, Places, MainStates, Startup, WorkerStates
<1>4. Ordered
  BY DEF Init, Ordered, Handled, Caused, Migrated, Started, Startup, InBan
<1> QED BY <1>1, <1>2, <1>3, <1>4 DEF IInv, TypeOK

(* The flags are set to truth values only.                                 *)
LEMMA StepFlags == Flags /\ [Next]_vars => Flags'
<1> SUFFICES ASSUME Flags, [Next]_vars PROVE Flags'
  OBVIOUS
<1> USE DEF Flags, schema, manager, bounds
<1>1. CASE Connect \/ Migrate \/ Ping \/ FetchExchangeInfo \/ UpsertSymbols
  BY <1>1, Zenon DEF Connect, Migrate, Ping, FetchExchangeInfo, UpsertSymbols, Advance
<1>2. CASE StartupFails \/ StartWorkers \/ ServeHealth
  BY <1>2, Zenon DEF StartupFails, StartWorkers, ServeHealth
<1>3. CASE Wake \/ StopCancels \/ Joined \/ JoinTimeout \/ ShutDown \/ Return
  BY <1>3, Zenon DEF Wake, StopCancels, Joined, JoinTimeout, ShutDown, Return, NotMain
<1>4. ASSUME NEW w \in Workers,
             \/ Poll(w) \/ WorkerStops(w) \/ CallReturns(w)
             \/ CallMeetsBan(w) \/ StoreReturns(w)
      PROVE  Flags'
  BY <1>4, Zenon
     DEF Poll, WorkerStops, CallReturns, CallMeetsBan, StoreReturns, NotWorkers
<1>5. ASSUME NEW w \in Workers, HandleBan(w) PROVE Flags'
  BY <1>5, Zenon
     DEF HandleBan, BanUnhealthy, BanReason, BanCancel, BanCheck, BanClose, BanPanics,
         NotWorkers
<1>6. CASE Signal BY <1>6, Zenon DEF Signal
<1>7. CASE Kill \/ ExchangeBans \/ BanLifted
  <2>1. CASE Kill BY <2>1, Zenon DEF Kill
  <2>2. CASE ExchangeBans BY <2>2, Zenon DEF ExchangeBans
  <2>3. CASE BanLifted BY <2>3, Zenon DEF BanLifted
  <2> QED BY <1>7, <2>1, <2>2, <2>3
<1>8. CASE DockerRestarts \/ OperatorStarts
  BY <1>8, Zenon DEF DockerRestarts, OperatorStarts, Fresh
<1>9. CASE UNCHANGED vars
  BY <1>9, Zenon DEF vars
<1> QED
  BY <1>1, <1>2, <1>3, <1>4, <1>5, <1>6, <1>7, <1>8, <1>9 DEF Next, MainStep,
     WorkerStep

(* No more migrations are done than there are, and none is undone.         *)
LEMMA StepCounts == Counts /\ [Next]_vars => Counts'
<1> SUFFICES ASSUME Counts, [Next]_vars PROVE Counts'
  OBVIOUS
<1>0. /\ Queries \in Nat /\ MaxBans \in Nat /\ MaxFailures \in Nat
      /\ done \in Nat /\ created \in Nat /\ bans \in Nat /\ failures \in Nat
  BY LifecycleAssumption DEF Counts, LifecycleAssumption
<1> USE <1>0 DEF Counts, schema, manager, bounds
<1>1. CASE Migrate
  BY <1>1 DEF Migrate, Advance
<1>2. CASE StartupFails \/ Kill
  BY <1>2 DEF StartupFails, Kill, LastMigration
<1>3. CASE Signal \/ ExchangeBans
  BY <1>3 DEF Signal, ExchangeBans
<1>4. CASE DockerRestarts \/ OperatorStarts
  BY <1>4 DEF DockerRestarts, OperatorStarts, Fresh
<1>5. CASE UNCHANGED <<schema, bounds>>
  BY <1>5
<1>6. CASE Connect \/ Ping \/ FetchExchangeInfo \/ UpsertSymbols \/ StartWorkers
  BY <1>5, <1>6 DEF Connect, Ping, FetchExchangeInfo, UpsertSymbols, StartWorkers, Advance
<1>7. CASE Wake \/ StopCancels \/ Joined \/ JoinTimeout \/ ShutDown \/ Return
  BY <1>5, <1>7 DEF Wake, StopCancels, Joined, JoinTimeout, ShutDown, Return, NotMain
<1>8. CASE ServeHealth \/ BanLifted
  BY <1>5, <1>8 DEF ServeHealth, BanLifted
<1>9. ASSUME NEW w \in Workers, WorkerStep(w) PROVE Counts'
  BY <1>5, <1>9
     DEF WorkerStep, Poll, WorkerStops, CallReturns, CallMeetsBan, StoreReturns,
         HandleBan, BanUnhealthy, BanReason, BanCancel, BanCheck, BanClose, BanPanics,
         NotWorkers
<1>10. CASE UNCHANGED vars
  BY <1>5, <1>10 DEF vars
<1> QED
  BY <1>1, <1>2, <1>3, <1>4, <1>6, <1>7, <1>8, <1>9, <1>10 DEF Next, MainStep

(* A worker that runs goes on to run, or the process dies with it.         *)
LEMMA MovePlaces ==
  ASSUME Places, NEW w \in Workers, NEW f \in WorkerStates \ {"none"},
         NEW t \in WorkerStates \ {"none"}, Move(w, f, t), UNCHANGED <<main, code, server>>
  PROVE  Places'
<1>1. pc[w] = f /\ pc' = [pc EXCEPT ![w] = t] /\ pc \in [Workers -> WorkerStates]
  BY DEF Move, Places
<1>2. pc' \in [Workers -> WorkerStates]
  BY <1>1
<1>3. pc[w] # "none" /\ pc'[w] # "none"
  BY <1>1
<1> QED BY <1>2, <1>3 DEF Places

LEMMA WorkerStepPlaces ==
  ASSUME Places, NEW w \in Workers, WorkerStep(w)  PROVE Places'
<1> DEFINE Running == WorkerStates \ {"none"}
<1>1. {"idle", "calling", "storing", "stopped"} \cup InBan \subseteq Running
  BY DEF WorkerStates, InBan
<1>2. CASE BanPanics(w)
  <2>1. /\ main' = "exited" /\ code' = 2 /\ server' = "none"
        /\ pc' = [v \in Workers |-> "none"]
    BY <1>2 DEF BanPanics, Die
  <2> QED BY <2>1 DEF Places, MainStates, Startup, WorkerStates
<1>3. CASE ~BanPanics(w)
  <2>1. UNCHANGED <<main, code, server>>
    BY <1>3 DEF WorkerStep, Poll, WorkerStops, CallReturns, CallMeetsBan, StoreReturns,
       HandleBan, BanUnhealthy, BanReason, BanCancel, BanCheck, BanClose, NotWorkers
  <2>2. \E f, t \in {"idle", "calling", "storing", "stopped"} \cup InBan : Move(w, f, t)
    <3>1. CASE Poll(w) \/ WorkerStops(w) \/ CallReturns(w)
      BY <3>1 DEF Poll, WorkerStops, CallReturns
    <3>2. CASE CallMeetsBan(w) \/ StoreReturns(w)
      BY <3>2 DEF CallMeetsBan, StoreReturns, InBan
    <3>3. CASE BanUnhealthy(w) \/ BanReason(w) \/ BanCancel(w)
      BY <3>3 DEF BanUnhealthy, BanReason, BanCancel, InBan
    <3>4. CASE BanCheck(w) \/ BanClose(w)
      BY <3>4 DEF BanCheck, BanClose, InBan
    <3> QED BY <1>3, <3>1, <3>2, <3>3, <3>4, Zenon DEF WorkerStep, HandleBan
  <2>3. PICK f \in Running, t \in Running : Move(w, f, t)
    BY <1>1, <2>2
  <2> QED BY <2>1, <2>3, MovePlaces
<1> QED BY <1>2, <1>3

(* Workers exist from Manager.Start until the process dies.                *)
LEMMA StepPlaces == Places /\ [Next]_vars => Places'
<1> SUFFICES ASSUME Places, [Next]_vars PROVE Places'
  OBVIOUS
<1> USE LifecycleAssumption
    DEF LifecycleAssumption, Places, MainStates, Startup, WorkerStates, InBan,
        schema, manager, bounds
<1>1. CASE Connect
  BY <1>1 DEF Connect, Advance
<1>2. CASE Migrate
  <2>1. CASE Advance("migrate", "migrate")
    BY <2>1 DEF Advance
  <2>2. CASE Advance("migrate", "ping")
    BY <2>2 DEF Advance
  <2> QED BY <1>2, <2>1, <2>2 DEF Migrate
<1>3. CASE Ping
  BY <1>3 DEF Ping, Advance
<1>4. CASE FetchExchangeInfo
  BY <1>4 DEF FetchExchangeInfo, Advance
<1>5. CASE UpsertSymbols
  BY <1>5 DEF UpsertSymbols, Advance
<1>6. CASE StartupFails
  BY <1>6 DEF StartupFails, Die, LastMigration
<1>7. CASE StartWorkers
  BY <1>7 DEF StartWorkers
<1>8. CASE Wake
  BY <1>8 DEF Wake, NotMain
<1>9. CASE StopCancels
  BY <1>9 DEF StopCancels, NotMain
<1>10. CASE Joined
  BY <1>10 DEF Joined, NotMain
<1>11. CASE JoinTimeout
  BY <1>11 DEF JoinTimeout, NotMain
<1>12. CASE ShutDown
  BY <1>12 DEF ShutDown, NotMain
<1>13. CASE Return
  BY <1>13 DEF Return, Die
<1>14. CASE ServeHealth
  BY <1>14 DEF ServeHealth
<1>15. CASE Signal
  BY <1>15 DEF Signal
<1>16. CASE Kill
  BY <1>16 DEF Kill, Die, LastMigration
<1>17. CASE DockerRestarts
  BY <1>17 DEF DockerRestarts, Fresh
<1>18. CASE OperatorStarts
  BY <1>18 DEF OperatorStarts, Fresh
<1>19. CASE ExchangeBans
  BY <1>19 DEF ExchangeBans
<1>20. CASE BanLifted
  BY <1>20 DEF BanLifted
<1>21. ASSUME NEW w \in Workers, WorkerStep(w) PROVE Places'
  BY <1>21, WorkerStepPlaces, Zenon
<1>22. CASE UNCHANGED vars
  BY <1>22 DEF vars
<1> QED
  BY <1>1, <1>2, <1>3, <1>4, <1>5, <1>6, <1>7, <1>8, <1>9, <1>10, <1>11, <1>12,
     <1>13, <1>14, <1>15, <1>16, <1>17, <1>18, <1>19, <1>20, <1>21, <1>22
     DEF Next, MainStep

(* However many workers are in handleBan at once, each of its steps finds  *)
(* what the steps before it left.                                          *)
LEMMA StepOrdered == IInv /\ [Next]_vars => Ordered'
<1> SUFFICES ASSUME IInv, [Next]_vars PROVE Ordered'
  OBVIOUS
<1>0. /\ pc \in [Workers -> WorkerStates] /\ Ordered /\ main \in MainStates
      /\ main \in Startup => \A w \in Workers : pc[w] = "none"
  BY DEF IInv, TypeOK, Places
<1> USE <1>0 DEF Ordered, Handled, Caused, Migrated, Started,
        MainStates, Startup, WorkerStates, InBan, schema, manager, bounds
<1>1. CASE Connect
  BY <1>1 DEF Connect, Advance
<1>2. CASE Migrate
  <2>1. CASE done < Queries /\ Advance("migrate", "migrate")
    BY <2>1 DEF Advance
  <2>2. CASE done = Queries /\ Advance("migrate", "ping") /\ UNCHANGED schema
    BY <2>2 DEF Advance
  <2> QED BY <1>2, <2>1, <2>2 DEF Migrate
<1>3. CASE Ping
  BY <1>3 DEF Ping, Advance
<1>4. CASE FetchExchangeInfo
  BY <1>4 DEF FetchExchangeInfo, Advance
<1>5. CASE UpsertSymbols
  BY <1>5 DEF UpsertSymbols, Advance
<1>6. CASE StartupFails
  BY <1>6 DEF StartupFails, Die, LastMigration
<1>7. CASE StartWorkers
  BY <1>7 DEF StartWorkers
<1>8. CASE Wake
  BY <1>8 DEF Wake, NotMain
<1>9. CASE StopCancels
  BY <1>9 DEF StopCancels, NotMain
<1>10. CASE Joined
  BY <1>10 DEF Joined, NotMain
<1>11. CASE JoinTimeout
  BY <1>11 DEF JoinTimeout, NotMain
<1>12. CASE ShutDown
  BY <1>12 DEF ShutDown, NotMain
<1>13. CASE Return
  BY <1>13 DEF Return, Die
<1>14. CASE ServeHealth
  BY <1>14 DEF ServeHealth
<1>15. CASE Signal
  BY <1>15 DEF Signal
<1>16. CASE Kill
  BY <1>16 DEF Kill, Die, LastMigration
<1>17. CASE DockerRestarts
  BY <1>17 DEF DockerRestarts, Fresh
<1>18. CASE OperatorStarts
  BY <1>18 DEF OperatorStarts, Fresh
<1>19. CASE ExchangeBans
  BY <1>19 DEF ExchangeBans
<1>20. CASE BanLifted
  BY <1>20 DEF BanLifted
<1>21. ASSUME NEW w \in Workers, Poll(w) PROVE Ordered'
  BY <1>21 DEF Poll, Move, NotWorkers
<1>22. ASSUME NEW w \in Workers, WorkerStops(w) PROVE Ordered'
  BY <1>22 DEF WorkerStops, Move, NotWorkers
<1>23. ASSUME NEW w \in Workers, CallReturns(w) PROVE Ordered'
  BY <1>23 DEF CallReturns, Move, NotWorkers
<1>24. ASSUME NEW w \in Workers, CallMeetsBan(w) PROVE Ordered'
  BY <1>24 DEF CallMeetsBan, Move, NotWorkers
<1>25. ASSUME NEW w \in Workers, StoreReturns(w) PROVE Ordered'
  BY <1>25 DEF StoreReturns, Move, NotWorkers
<1>26. ASSUME NEW w \in Workers, BanUnhealthy(w) PROVE Ordered'
  BY <1>26 DEF BanUnhealthy, Move, NotWorkers
<1>27. ASSUME NEW w \in Workers, BanReason(w) PROVE Ordered'
  BY <1>27 DEF BanReason, Move, NotWorkers
<1>28. ASSUME NEW w \in Workers, BanCancel(w) PROVE Ordered'
  BY <1>28 DEF BanCancel, Move, NotWorkers
<1>29. ASSUME NEW w \in Workers, BanCheck(w) PROVE Ordered'
  BY <1>29 DEF BanCheck, Move, NotWorkers
<1>30. ASSUME NEW w \in Workers, BanClose(w) PROVE Ordered'
  BY <1>30 DEF BanClose, Move, NotWorkers
<1>31. ASSUME NEW w \in Workers, BanPanics(w) PROVE Ordered'
  BY <1>31 DEF BanPanics, Move, NotWorkers, Die
<1>32. CASE UNCHANGED vars
  BY <1>32 DEF vars
<1> QED
  BY <1>1, <1>2, <1>3, <1>4, <1>5, <1>6, <1>7, <1>8, <1>9, <1>10, <1>11, <1>12,
     <1>13, <1>14, <1>15, <1>16, <1>17, <1>18, <1>19, <1>20, <1>21, <1>22, <1>23,
     <1>24, <1>25, <1>26, <1>27, <1>28, <1>29, <1>30, <1>31, <1>32
     DEF Next, MainStep, WorkerStep, HandleBan

-----------------------------------------------------------------------------
(* Throughout, what the flags say agrees with how far handleBan and main   *)
(* have come.                                                              *)
THEOREM Inductive == Spec => []IInv
BY InitIInv, StepFlags, StepCounts, StepPlaces, StepOrdered, PTL DEF Spec, IInv, TypeOK

(* Every variable keeps its type; workers exist only beside a started main.*)
THEOREM TypeCorrect == Spec => []TypeOK
BY Inductive, PTL DEF IInv

(* The health endpoint shows 503 and its reason before a ban cancels the   *)
(* workers, however many of them are in handleBan at once.                 *)
THEOREM UnhealthyFirst == Spec => []BanShowsUnhealthy
<1>1. IInv => BanShowsUnhealthy
  BY DEF IInv, Ordered, Caused, BanShowsUnhealthy
<1> QED BY <1>1, Inductive, PTL

(* main leaves WaitForBanOrContext only for a signal or a ban that is on   *)
(* show and has stopped the workers.                                       *)
THEOREM StopHasCause == Spec => []StopsForCause
<1>1. IInv => StopsForCause
  BY DEF IInv, Ordered, Caused, Handled, StopsForCause
<1> QED BY <1>1, Inductive, PTL

(* A worker stores only into a complete schema, wherever earlier runs of   *)
(* the migrations were cut short.                                          *)
THEOREM SchemaComplete == Spec => []StoresMeetTables
<1>1. IInv => StoresMeetTables
  BY LifecycleAssumption
     DEF LifecycleAssumption, IInv, TypeOK, Counts, Places, Ordered, Migrated,
         StoresMeetTables, Startup
<1> QED BY <1>1, Inductive, PTL

(* No poll starts a request once main may wake, for any number of workers. *)
THEOREM PollsEnd == Spec => NoCallWhileStopping
<1>1. ASSUME IInv, NEW w \in Workers, Poll(w), pc[w] = "idle", pc'[w] = "calling"
      PROVE  main = "waiting" /\ ~banCh /\ ~signalled
  BY <1>1
     DEF IInv, TypeOK, Places, Ordered, Handled, Caused, Poll, Move, MainStates, Startup,
         WorkerStates
<1>2. ASSUME IInv, Next, NEW w \in Workers, pc[w] = "idle", pc'[w] = "calling"
      PROVE  Poll(w)
  <2>0. pc \in [Workers -> WorkerStates]
    BY <1>2 DEF IInv, TypeOK, Places
  <2>1. PICK v \in Workers : WorkerStep(v)
    BY <1>2 DEF Next, MainStep, Connect, Migrate, Ping, FetchExchangeInfo, UpsertSymbols,
      Advance, StartupFails, StartWorkers, Wake, StopCancels, Joined, JoinTimeout,
      ShutDown, Return, NotMain, ServeHealth, Signal, Kill, DockerRestarts,
      OperatorStarts, Fresh, Die, ExchangeBans, BanLifted
  <2> QED
    BY <1>2, <2>0, <2>1
       DEF WorkerStep, Poll, WorkerStops, CallReturns, CallMeetsBan, StoreReturns,
           HandleBan, BanUnhealthy, BanReason, BanCancel, BanCheck, BanClose, BanPanics,
           Move, NotWorkers, Die
<1>3. IInv /\ [Next]_vars =>
        [\A w \in Workers : pc[w] = "idle" /\ pc'[w] = "calling" =>
           main = "waiting" /\ ~banCh /\ ~signalled]_vars
  BY <1>1, <1>2
<1> QED BY <1>3, Inductive, PTL DEF Spec, NoCallWhileStopping
=============================================================================
