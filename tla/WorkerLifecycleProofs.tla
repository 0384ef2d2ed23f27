----------------------- MODULE WorkerLifecycleProofs -----------------------
(***************************************************************************)
(* Theorems about WorkerLifecycle, for any number of applications in one   *)
(* process: any registrations, processors and configurations, failing to   *)
(* start or shut down at any time.                                         *)
(***************************************************************************)
EXTENDS WorkerLifecycle, TLAPS

(* Every configuration means one of the two drivers, and every             *)
(* registration a name and a key of the caches.                            *)
LEMMA WiringIsDefined ==
  ASSUME config \in Configurations
  PROVE  \A r \in Registrations :
           /\ DriverFor(r) \in Drivers
           /\ NameOf(r) \in Names
           /\ QueueOf(r) \in CacheKeys
           /\ Registered[r].queueId \in QueueIds \union {Undefined}
<1>1. \A k \in Keys : EffectiveDriver(config, k) \in Drivers
  BY ConstantsAssumption
  DEF ConstantsAssumption, IsConfiguration, ConfigType, Drivers, EffectiveDriver,
      DriverOption
<1>2. ASSUME NEW r \in Registrations
      PROVE  /\ DriverFor(r) \in Drivers
             /\ NameOf(r) \in Names
             /\ QueueOf(r) \in CacheKeys
             /\ Registered[r].queueId \in QueueIds \union {Undefined}
  <2>1. Registered[r] \in RegistrationType
    BY ConstantsAssumption DEF ConstantsAssumption
  <2>2. DriverFor(r) \in Drivers
    BY <1>1, <2>1 DEF DriverFor, QueueDriver, RegistrationType
  <2>3. NameOf(r) \in Names
    BY <2>1 DEF NameOf, QueueName, RegistrationType
  <2> QED
    BY <2>1, <2>2, <2>3
    DEF QueueOf, CacheKey, CacheKeys, DriverFor, NameOf, RegistrationType
<1> QED
  BY <1>2

(* An option's workers and the explorer's are different objects.           *)
LEMMA WorkersAreDistinct ==
  /\ \A r, s \in Registrations :
       r # s => OptionWorkers(r) \intersect OptionWorkers(s) = {}
  /\ \A r \in Registrations : OptionWorkers(r) \intersect AllExplorerWorkers = {}
  BY ConstantsAssumption
  DEF ConstantsAssumption, OptionWorkers, AllExplorerWorkers

LEMMA OptionWorkersAreWorkers ==
  \A r \in Registrations : OptionWorkers(r) \subseteq Workers
  BY DEF Workers, AllOptionWorkers

LEMMA ExplorerWorkersAreWorkers ==
  ASSUME registered \in 0 .. RegisterCap, registered < RegisterCap
  PROVE  /\ ExplorerWorkers(registered + 1) \subseteq AllExplorerWorkers
         /\ ExplorerWorkers(registered + 1) \subseteq Workers
         /\ registered + 1 \in 0 .. RegisterCap
  BY ConstantsAssumption
  DEF ExplorerWorkers, Workers, AllExplorerWorkers, ConstantsAssumption

LEMMA RegisterTypes ==
  ASSUME TypeOK, Register, phase' = "running"
  PROVE  TypeOK'
  BY WiringIsDefined, ExplorerWorkersAreWorkers
  DEF Register, CreateWorkers, TypeOK, application, providers, queueVars, history, closings

LEMMA CloseTypes ==
  ASSUME TypeOK, NEW ws, ws \subseteq made, CloseAll(ws), UNCHANGED <<made, timers>>
  PROVE  /\ isRunning' \in [Workers -> BOOLEAN]
         /\ closed' \subseteq made'
         /\ closedEarly' \subseteq closed'
  BY DEF TypeOK, CloseAll, timers

(* Hooks are pending during a shutdown only.                               *)
HooksInv == phase # "stopping" => hooks = {}

LEMMA TypesAndHooks == Spec => [](TypeOK /\ HooksInv)
<1>1. Init => TypeOK /\ HooksInv
  BY ConstantsAssumption DEF Init, TypeOK, HooksInv, ConstantsAssumption
<1>2. ASSUME TypeOK, HooksInv, [Next]_vars PROVE HooksInv'
  BY <1>2
  DEF Next, vars, HooksInv, TypeOK, CreateQueueAndWorkers, BootstrapFails, WorkersFail,
      Instantiates, ProviderThrows, OnModuleInit, RegisterManually, Register,
      StartImmediate, Watchdog, CloseWorker, BeginShutdown, QueueShutdown,
      ExplorerShutdown, AddJob, NextApplication, Stopped
<1>3. ASSUME TypeOK, HooksInv, [Next]_vars PROVE TypeOK'
  <2> USE <1>3
  <2> USE DEF application, providers, workerVars, queueVars, timers, closings, history
  <2>0. config \in Configurations
    BY DEF TypeOK
  <2>1. ASSUME NEW r \in Registrations, CreateQueueAndWorkers(r) PROVE TypeOK'
    <3>1. /\ made' = made \union OptionWorkers(r) /\ made' \subseteq Workers
          /\ immediate' = immediate \union OptionWorkers(r)
      BY <2>0, <2>1, WiringIsDefined, OptionWorkersAreWorkers
      DEF CreateQueueAndWorkers, CreateWorkers, TypeOK
    <3>2. queues' \in [CacheKeys -> QueueIds \union {Undefined, Absent}]
      BY <2>0, <2>1, WiringIsDefined DEF CreateQueueAndWorkers, CreateQueue, TypeOK
    <3>3. tracked' \in [Names -> SUBSET made'] /\ forgotten' \subseteq made'
      BY <2>0, <2>1, <3>1, WiringIsDefined DEF CreateQueueAndWorkers, TypeOK
    <3>4. users' \in [CacheKeys -> SUBSET (1 .. Applications)]
      BY <2>1 DEF CreateQueueAndWorkers, TypeOK
    <3>5. created' \subseteq RegistrationsOf(app)
      BY <2>1 DEF CreateQueueAndWorkers, Instantiates, TypeOK
    <3> QED
      BY <2>1, <3>1, <3>2, <3>3, <3>4, <3>5 DEF CreateQueueAndWorkers, TypeOK
  <2>2. ASSUME NEW r \in Registrations, BootstrapFails(r) PROVE TypeOK'
    BY <2>2 DEF BootstrapFails, ProviderThrows, Instantiates, TypeOK
  <2>13. ASSUME NEW r \in Registrations, WorkersFail(r) PROVE TypeOK'
    <3>1. PICK callbacks \in SUBSET (Registered[r].processors \ Refused) :
            /\ CreateWorkers({r} \X callbacks)
            /\ forgotten' = forgotten \union ({r} \X callbacks)
      BY <2>13 DEF WorkersFail
    <3>2. {r} \X callbacks \subseteq Workers
      BY OptionWorkersAreWorkers DEF OptionWorkers
    <3>3. queues' \in [CacheKeys -> QueueIds \union {Undefined, Absent}]
      BY <2>0, <2>13, WiringIsDefined DEF WorkersFail, CreateQueue, TypeOK
    <3>4. thrown' \subseteq RegistrationsOf(app) /\ failed' \subseteq 1 .. Applications
      BY <2>13 DEF WorkersFail, Instantiates, ProviderThrows, TypeOK
    <3> QED
      BY <2>13, <3>1, <3>2, <3>3, <3>4
      DEF WorkersFail, ProviderThrows, CreateWorkers, TypeOK
  <2>3. CASE OnModuleInit
    BY <2>3, RegisterTypes DEF OnModuleInit, TypeOK
  <2>4. CASE RegisterManually
    BY <2>4, RegisterTypes DEF RegisterManually
  <2>5. ASSUME NEW w \in Workers, StartImmediate(w) \/ Watchdog(w) PROVE TypeOK'
    BY <2>5 DEF StartImmediate, Watchdog, TypeOK
  <2>6. ASSUME NEW w \in Workers, CloseWorker(w) PROVE TypeOK'
    BY <2>6, CloseTypes DEF CloseWorker, TypeOK
  <2>7. CASE BeginShutdown
    BY <2>7 DEF BeginShutdown, TypeOK
  <2>8. ASSUME NEW r \in Registrations, QueueShutdown(r) PROVE TypeOK'
    <3>1. tracked' \in [Names -> SUBSET made]
      BY <2>8 DEF QueueShutdown, TypeOK
    <3>2. jobs' \in [CacheKeys -> SUBSET JobType]
      BY <2>8 DEF QueueShutdown, CloseQueue, TypeOK
    <3>3. tracked[NameOf(r)] \subseteq made
      BY <2>0, WiringIsDefined DEF TypeOK
    <3> QED
      BY <2>8, <3>1, <3>2, <3>3, CloseTypes DEF QueueShutdown, TypeOK
  <2>9. CASE ExplorerShutdown
    BY <2>9, CloseTypes DEF ExplorerShutdown, TypeOK
  <2>10. ASSUME NEW k \in CacheKeys, NEW a \in 1 .. Applications, AddJob(k, a)
         PROVE  TypeOK'
    <3>1. PICK late \in BOOLEAN :
            jobs' = [jobs EXCEPT ![k] = @ \union {[app |-> a, late |-> late]}]
      BY <2>10 DEF AddJob
    <3>2. jobs' \in [CacheKeys -> SUBSET JobType]
      BY <3>1 DEF JobType, TypeOK
    <3> QED
      BY <2>10, <3>2 DEF AddJob, TypeOK
  <2>11. CASE NextApplication
    BY <2>11, ConstantsAssumption
    DEF NextApplication, Stopped, TypeOK, HooksInv, ConstantsAssumption
  <2>12. CASE UNCHANGED vars
    BY <2>12 DEF vars, TypeOK
  <2> QED
    BY <2>1, <2>2, <2>3, <2>4, <2>5, <2>6, <2>7, <2>8, <2>9, <2>10, <2>11, <2>12, <2>13
    DEF Next
<1> QED
  BY <1>1, <1>2, <1>3, PTL DEF Spec

(* The type invariant.                                                     *)
THEOREM LifecycleTypeCorrect == Spec => []TypeOK
  BY TypesAndHooks, PTL
-----------------------------------------------------------------------------
(* The shutdown.  ShutdownStopsWorkers speaks of the end only; on the way  *)
(* there no worker may slip through, of this application or an earlier     *)
(* one: each has an owner, trackedWorkers or the explorer, whose hook will *)
(* close it, unless it was forgotten; and a closed worker cannot come back *)
(* unless a callback was pending.                                          *)

(* Where the worker objects are from.                                      *)
MadeInv ==
  \A w \in made :
    \/ w \in Processors \X (1 .. registered)
    \/ \E r \in Registrations :
         w \in OptionWorkers(r) /\ (AppOf[r] < app \/ r \in created \union thrown)

TrackedWorkers == UNION {tracked[q] : q \in Names}

OwnerInv == made \subseteq TrackedWorkers \union workers \union forgotten \union closed

(* A worker closed with no callback pending is and stays stopped.          *)
ClosedInv ==
  \A w \in closed \ closedEarly : ~isRunning[w] /\ w \notin Pending

(* The explorer's list is filled once the application has started.         *)
ListInv ==
  /\ workers \subseteq AllExplorerWorkers
  /\ phase \in {"starting", "failed"} => workers = {}

(* A hook that has run has done its work.                                  *)
HookInv ==
  phase = "stopping" =>
    /\ \A r \in created \ hooks : tracked[NameOf(r)] = {}
    /\ Explorer \notin hooks => workers \subseteq closed

SInv == MadeInv /\ OwnerInv /\ ClosedInv /\ ListInv /\ HookInv

(* What a registration or the explorer makes is new.                       *)
LEMMA NewWorkersAreNew ==
  ASSUME TypeOK, MadeInv
  PROVE  /\ \A r \in RegistrationsOf(app) \ (created \union thrown) :
              OptionWorkers(r) \intersect made = {}
         /\ ExplorerWorkers(registered + 1) \intersect made = {}
<1>0. registered \in Nat /\ app \in Nat
  BY ConstantsAssumption DEF TypeOK, ConstantsAssumption
<1>1. \A r \in RegistrationsOf(app) \ (created \union thrown) :
        OptionWorkers(r) \intersect made = {}
  <2> SUFFICES ASSUME NEW r \in Registrations, AppOf[r] = app, r \notin created \union thrown,
                      NEW w \in OptionWorkers(r), w \in made
               PROVE  FALSE
    BY DEF RegistrationsOf
  <2>1. w \notin Processors \X (1 .. registered)
    BY ConstantsAssumption DEF OptionWorkers, ConstantsAssumption
  <2>2. PICK s \in Registrations :
          w \in OptionWorkers(s) /\ (AppOf[s] < app \/ s \in created \union thrown)
    BY <2>1 DEF MadeInv
  <2> QED
    BY <1>0, <2>2, WorkersAreDistinct
<1>2. ASSUME NEW w \in ExplorerWorkers(registered + 1), w \in made PROVE FALSE
  <2>1. \A r \in Registrations : w \notin OptionWorkers(r)
    BY ConstantsAssumption DEF ExplorerWorkers, OptionWorkers, ConstantsAssumption
  <2>2. w \notin Processors \X (1 .. registered)
    BY <1>0 DEF ExplorerWorkers
  <2> QED
    BY <1>2, <2>1, <2>2 DEF MadeInv
<1> QED
  BY <1>1, <1>2

LEMMA RegisterKeeps ==
  ASSUME TypeOK, SInv, Register, phase # "stopping", phase' = "running"
  PROVE  SInv'
<1> DEFINE ws == ExplorerWorkers(registered + 1)
<1> USE DEF application, providers, queueVars, history, closings
<1>1. ws \subseteq Processors \X (1 .. registered + 1) /\ ws \subseteq AllExplorerWorkers
  BY ConstantsAssumption, ExplorerWorkersAreWorkers
  DEF Register, TypeOK, ExplorerWorkers, ConstantsAssumption
<1>2. MadeInv'
  <2>1. \A w \in Processors \X (1 .. registered) : w \in Processors \X (1 .. registered')
    BY ConstantsAssumption DEF Register, TypeOK, ConstantsAssumption
  <2> QED
    BY <1>1, <2>1 DEF Register, CreateWorkers, SInv, MadeInv
<1>3. OwnerInv'
  BY DEF Register, CreateWorkers, SInv, OwnerInv, TrackedWorkers
<1>4. ClosedInv'
  BY NewWorkersAreNew
  DEF Register, CreateWorkers, SInv, ClosedInv, TypeOK, Pending
<1>5. ListInv' /\ HookInv'
  BY <1>1 DEF Register, SInv, ListInv, HookInv
<1> QED
  BY <1>2, <1>3, <1>4, <1>5 DEF SInv

(* Closing some workers closes no door: what holds of the others stays.    *)
LEMMA CloseKeepsClosed ==
  ASSUME TypeOK, SInv, NEW ws, ws \subseteq made, CloseAll(ws), UNCHANGED timers
  PROVE  ClosedInv' /\ closed \subseteq closed' /\ ws \subseteq closed'
  BY DEF SInv, TypeOK, ClosedInv, CloseAll, Pending, timers

LEMMA ShutdownInductive == Spec => []SInv
<1>1. Init => SInv
  BY DEF Init, SInv, MadeInv, OwnerInv, ClosedInv, ListInv, HookInv
<1>2. ASSUME TypeOK, HooksInv, TypeOK', SInv, [Next]_vars PROVE SInv'
  <2> USE <1>2
  <2> USE DEF application, providers, workerVars, queueVars, timers, closings, history
  <2>0. \A r \in Registrations : NameOf(r) \in Names /\ tracked[NameOf(r)] \subseteq made
    BY WiringIsDefined DEF TypeOK
  <2>1. ASSUME NEW r \in Registrations, CreateQueueAndWorkers(r) PROVE SInv'
    <3> DEFINE ws == OptionWorkers(r)
    <3>0. r \in RegistrationsOf(app) \ (created \union thrown) /\ ws \intersect made = {}
      BY <2>1, NewWorkersAreNew DEF CreateQueueAndWorkers, Instantiates, SInv
    <3>1. MadeInv'
      BY <2>1 DEF CreateQueueAndWorkers, CreateWorkers, SInv, MadeInv
    <3>2. TrackedWorkers \union ws \subseteq TrackedWorkers' \union forgotten'
      <4>1. CASE Registered[r].processors = {}
        BY <2>1, <4>1 DEF CreateQueueAndWorkers, TrackedWorkers, OptionWorkers
      <4>2. CASE Registered[r].processors # {}
        <5>1. /\ tracked' = [tracked EXCEPT ![NameOf(r)] = ws]
              /\ forgotten' = forgotten \union tracked[NameOf(r)]
          BY <2>1, <4>2 DEF CreateQueueAndWorkers
        <5>2. \A q \in Names : tracked[q] \subseteq tracked'[q] \union forgotten'
          BY <5>1 DEF TypeOK
        <5>3. ws = tracked'[NameOf(r)]
          BY <2>0, <5>1 DEF TypeOK
        <5> QED
          BY <2>0, <5>2, <5>3 DEF TrackedWorkers
      <4> QED
        BY <4>1, <4>2
    <3>3. forgotten \subseteq forgotten' /\ made' = made \union ws
      BY <2>1 DEF CreateQueueAndWorkers, CreateWorkers
    <3>4. OwnerInv'
      <4>1. UNCHANGED <<workers, closed>>
        BY <2>1 DEF CreateQueueAndWorkers
      <4> QED
        BY <3>2, <3>3, <4>1 DEF SInv, OwnerInv
    <3>5. ClosedInv'
      BY <2>1, <3>0
      DEF CreateQueueAndWorkers, CreateWorkers, SInv, ClosedInv, TypeOK, Pending
    <3>6. ListInv' /\ HookInv'
      BY <2>1 DEF CreateQueueAndWorkers, Instantiates, SInv, ListInv, HookInv
    <3> QED
      BY <3>1, <3>4, <3>5, <3>6 DEF SInv
  <2>2. ASSUME NEW r \in Registrations, BootstrapFails(r) PROVE SInv'
    BY <2>2
    DEF BootstrapFails, ProviderThrows, Instantiates, SInv, MadeInv, OwnerInv, ClosedInv,
        ListInv, HookInv, Pending, TrackedWorkers
  <2>13. ASSUME NEW r \in Registrations, WorkersFail(r) PROVE SInv'
    <3>1. PICK callbacks \in SUBSET (Registered[r].processors \ Refused) :
            /\ CreateWorkers({r} \X callbacks)
            /\ forgotten' = forgotten \union ({r} \X callbacks)
      BY <2>13 DEF WorkersFail
    <3> DEFINE ws == {r} \X callbacks
    <3>2. /\ ws \subseteq OptionWorkers(r)
          /\ r \in RegistrationsOf(app) \ (created \union thrown)
          /\ ws \intersect made = {}
      BY <2>13, NewWorkersAreNew DEF WorkersFail, Instantiates, SInv, OptionWorkers
    <3>3. /\ made' = made \union ws /\ immediate' = immediate \union ws
          /\ forgotten' = forgotten \union ws /\ thrown' = thrown \union {r}
          /\ phase \in {"starting", "failed"} /\ phase' = "failed"
          /\ UNCHANGED <<app, config, created, registered, tracked, workers, hooks,
                         isRunning, watchdog, closed, closedEarly>>
      BY <2>13, <3>1 DEF WorkersFail, ProviderThrows, Instantiates, CreateWorkers
    <3> HIDE DEF ws
    <3>4. MadeInv'
      BY <3>2, <3>3 DEF SInv, MadeInv
    <3>5. OwnerInv'
      BY <3>3 DEF SInv, OwnerInv, TrackedWorkers
    <3>6. ClosedInv'
      BY <3>2, <3>3 DEF SInv, ClosedInv, Pending, TypeOK
    <3>7. ListInv' /\ HookInv'
      BY <3>3 DEF SInv, ListInv, HookInv
    <3> QED
      BY <3>4, <3>5, <3>6, <3>7 DEF SInv
  <2>3. CASE OnModuleInit
    <3>1. CASE Register
      BY <2>3, <3>1, RegisterKeeps DEF OnModuleInit
    <3>2. CASE UNCHANGED <<application, providers, registered, tracked, workers, hooks,
                           workerVars, queueVars, timers, history>>
      BY <2>3, <3>2
      DEF OnModuleInit, SInv, MadeInv, OwnerInv, ClosedInv, ListInv, HookInv, Pending,
          TrackedWorkers
    <3> QED
      BY <2>3, <3>1, <3>2 DEF OnModuleInit
  <2>4. CASE RegisterManually
    BY <2>4, RegisterKeeps DEF RegisterManually
  <2>5. ASSUME NEW w \in Workers, StartImmediate(w) \/ Watchdog(w) PROVE SInv'
    <3>1. ClosedInv'
      BY <2>5 DEF StartImmediate, Watchdog, SInv, ClosedInv, Pending, TypeOK
    <3> QED
      BY <2>5, <3>1
      DEF StartImmediate, Watchdog, SInv, MadeInv, OwnerInv, ListInv, HookInv, TrackedWorkers,
          NameOf
  <2>6. ASSUME NEW w \in Workers, CloseWorker(w) PROVE SInv'
    <3>1. ClosedInv' /\ closed \subseteq closed'
      BY <2>6, CloseKeepsClosed DEF CloseWorker
    <3> QED
      BY <2>6, <3>1
      DEF CloseWorker, SInv, MadeInv, OwnerInv, ListInv, HookInv, TrackedWorkers
  <2>7. CASE BeginShutdown
    BY <2>7
    DEF BeginShutdown, SInv, MadeInv, OwnerInv, ClosedInv, ListInv, HookInv, Pending,
        TrackedWorkers
  <2>8. ASSUME NEW r \in Registrations, QueueShutdown(r) PROVE SInv'
    <3> DEFINE q == NameOf(r)
    <3>1. ClosedInv' /\ closed \subseteq closed' /\ tracked[q] \subseteq closed'
      BY <2>0, <2>8, CloseKeepsClosed DEF QueueShutdown
    <3>2. tracked' = [tracked EXCEPT ![q] = {}]
      BY <2>8 DEF QueueShutdown
    <3>3. OwnerInv'
      <4>1. TrackedWorkers \subseteq TrackedWorkers' \union closed'
        BY <3>1, <3>2 DEF TrackedWorkers, TypeOK
      <4>2. UNCHANGED <<made, workers, forgotten>>
        BY <2>8 DEF QueueShutdown
      <4> QED
        BY <3>1, <4>1, <4>2 DEF SInv, OwnerInv
    <3>4. HookInv'
      BY <2>0, <2>8, <3>1, <3>2 DEF QueueShutdown, SInv, HookInv, TypeOK, NameOf
    <3> QED
      BY <2>8, <3>1, <3>3, <3>4 DEF QueueShutdown, SInv, MadeInv, ListInv
  <2>9. CASE ExplorerShutdown
    <3>1. ClosedInv' /\ closed \subseteq closed' /\ workers \subseteq closed'
      BY <2>9, CloseKeepsClosed DEF ExplorerShutdown, TypeOK
    <3>2. \A r \in created : r # Explorer
      BY ConstantsAssumption DEF TypeOK, RegistrationsOf, ConstantsAssumption
    <3>3. HookInv'
      BY <2>9, <3>1, <3>2 DEF ExplorerShutdown, SInv, HookInv
    <3> QED
      BY <2>9, <3>1, <3>3
      DEF ExplorerShutdown, SInv, MadeInv, OwnerInv, ListInv, TrackedWorkers
  <2>10. ASSUME NEW k \in CacheKeys, NEW a \in 1 .. Applications, AddJob(k, a)
         PROVE  SInv'
    BY <2>10
    DEF AddJob, SInv, MadeInv, OwnerInv, ClosedInv, ListInv, HookInv, Pending,
        TrackedWorkers
  <2>11. CASE NextApplication
    <3>1. MadeInv'
      <4>1. \A r \in Registrations :
               AppOf[r] < app \/ r \in created \union thrown => AppOf[r] < app'
        BY <2>11, ConstantsAssumption
        DEF NextApplication, TypeOK, RegistrationsOf, ConstantsAssumption
      <4> QED
        BY <2>11, <4>1 DEF NextApplication, SInv, MadeInv
    <3>2. workers \subseteq closed
      BY <2>11 DEF NextApplication, Stopped, SInv, ListInv, HookInv
    <3> QED
      BY <2>11, <3>1, <3>2
      DEF NextApplication, SInv, OwnerInv, ClosedInv, ListInv, HookInv, Pending,
          TrackedWorkers
  <2>12. CASE UNCHANGED vars
    BY <2>12
    DEF vars, SInv, MadeInv, OwnerInv, ClosedInv, ListInv, HookInv, Pending, TrackedWorkers,
        NameOf
  <2> QED
    BY <2>1, <2>2, <2>3, <2>4, <2>5, <2>6, <2>7, <2>8, <2>9, <2>10, <2>11, <2>12, <2>13
    DEF Next
<1> QED
  BY <1>1, <1>2, TypesAndHooks, PTL DEF Spec

(* When every shutdown hook of an application has run, only forgotten      *)
(* workers, those closed with a callback pending and those an application  *)
(* that failed to start left behind still run.                             *)
THEOREM ShutdownStopsAll == Spec => []ShutdownStopsWorkers
<1>1. ASSUME TypeOK, SInv PROVE ShutdownStopsWorkers
  <2> SUFFICES ASSUME Stopped, NEW w \in made, isRunning[w], w \notin forgotten,
                      w \notin closedEarly
               PROVE  LeftBehind(w)
    BY DEF ShutdownStopsWorkers
  <2>1. w \notin closed
    BY <1>1 DEF SInv, ClosedInv
  <2>2. w \notin workers
    BY <1>1, <2>1 DEF SInv, HookInv, Stopped
  <2>3. PICK q \in Names : w \in tracked[q]
    BY <1>1, <2>1, <2>2 DEF SInv, OwnerInv, TrackedWorkers
  <2>4. \A r \in created : tracked[NameOf(r)] = {}
    BY <1>1 DEF SInv, HookInv, Stopped
  <2> QED
    BY <2>3, <2>4 DEF LeftBehind
<1> QED
  BY <1>1, LifecycleTypeCorrect, ShutdownInductive, PTL
-----------------------------------------------------------------------------
(* The caches of the factories.                                            *)

(* An OCI queue in the cache is the one of its key.                        *)
CacheInv ==
  \A k \in CacheKeys : k.driver = "oci-queue" => queues[k] \in {Absent, k.queueId}

LEMMA KeyNamesQueue ==
  ASSUME NEW r \in Registrations, DriverFor(r) = "oci-queue"
  PROVE  QueueOf(r).driver = "oci-queue" /\ QueueOf(r).queueId = Registered[r].queueId
  BY DEF QueueOf, CacheKey, DriverFor

LEMMA CachingKeeps ==
  ASSUME TypeOK, CacheInv, NEW r \in Registrations, CreateQueue(r)
  PROVE  CacheInv'
<1>1. queues' = [queues EXCEPT ![QueueOf(r)] =
                   IF @ = Absent THEN Registered[r].queueId ELSE @]
  BY DEF CreateQueue
<1> SUFFICES ASSUME NEW k \in CacheKeys, k.driver = "oci-queue"
             PROVE  queues'[k] \in {Absent, k.queueId}
  BY DEF CacheInv
<1>2. CASE k = QueueOf(r)
  <2>1. DriverFor(r) = "oci-queue"
    BY <1>2 DEF QueueOf, CacheKey, DriverFor
  <2> QED
    BY <1>1, <1>2, <2>1, KeyNamesQueue DEF CacheInv, TypeOK
<1>3. CASE k # QueueOf(r)
  BY <1>1, <1>3 DEF CacheInv, TypeOK
<1> QED
  BY <1>2, <1>3

(* In any sequence of applications, the OCI queue a registration gets is   *)
(* the one of its own queueId.                                             *)
THEOREM CachedQueueIsOwn == Spec => []QueueIsOwn
<1>1. Init => CacheInv /\ QueueIsOwn
  BY DEF Init, CacheInv, QueueIsOwn
<1>2. ASSUME TypeOK, CacheInv, QueueIsOwn, [Next]_vars PROVE CacheInv' /\ QueueIsOwn'
  <2> USE <1>2
  <2> USE DEF application, providers, workerVars, queueVars, timers, closings, history
  <2>0. created \subseteq Registrations /\ \A s \in Registrations : QueueOf(s) \in CacheKeys
    BY WiringIsDefined DEF TypeOK, RegistrationsOf
  <2>1. ASSUME NEW r \in Registrations, CreateQueueAndWorkers(r)
        PROVE  CacheInv' /\ QueueIsOwn'
    <3>1. /\ queues' = [queues EXCEPT ![QueueOf(r)] =
                           IF @ = Absent THEN Registered[r].queueId ELSE @]
          /\ created' = created \union {r} /\ config' = config
      BY <2>1 DEF CreateQueueAndWorkers, CreateQueue
    <3>2. CacheInv'
      BY <2>1, CachingKeeps DEF CreateQueueAndWorkers
    <3>3. ASSUME NEW s \in created', DriverFor(s)' = "oci-queue"
          PROVE  queues'[QueueOf(s)'] = Registered[s].queueId
      <4>1. s \in Registrations /\ DriverFor(s) = "oci-queue" /\ QueueOf(s)' = QueueOf(s)
        BY <2>0, <3>1, <3>3 DEF DriverFor, QueueOf
      <4>2. QueueOf(s) \in CacheKeys
        BY <2>0, <4>1
      <4>3. QueueOf(s).driver = "oci-queue" /\ QueueOf(s).queueId = Registered[s].queueId
        BY <4>1, KeyNamesQueue
      <4>4. CASE QueueOf(s) = QueueOf(r)
        <5>1. DriverFor(r) = "oci-queue"
          BY <4>3, <4>4 DEF QueueOf, CacheKey, DriverFor
        <5>2. Registered[r].queueId = Registered[s].queueId
          BY <4>3, <4>4, <5>1, KeyNamesQueue
        <5> QED
          BY <3>1, <4>1, <4>2, <4>3, <4>4, <5>2 DEF CacheInv, TypeOK
      <4>5. CASE QueueOf(s) # QueueOf(r)
        <5>1. s \in created
          BY <3>1, <3>3, <4>5
        <5> QED
          BY <3>1, <4>1, <4>2, <4>5, <5>1 DEF QueueIsOwn, TypeOK
      <4> QED
        BY <4>4, <4>5
    <3> QED
      BY <3>2, <3>3 DEF QueueIsOwn
  <2>2. CASE NextApplication
    BY <2>2 DEF NextApplication, CacheInv, QueueIsOwn
  <2>4. ASSUME NEW r \in Registrations, WorkersFail(r) PROVE CacheInv' /\ QueueIsOwn'
    <3>1. CreateQueue(r) /\ UNCHANGED <<config, created>>
      BY <2>4 DEF WorkersFail
    <3>2. CacheInv'
      BY <3>1, CachingKeeps
    <3>3. ASSUME NEW s \in created, DriverFor(s) = "oci-queue"
          PROVE  queues'[QueueOf(s)] = Registered[s].queueId
      <4>1. QueueOf(s) \in CacheKeys /\ queues[QueueOf(s)] = Registered[s].queueId
        BY <2>0, <3>3 DEF QueueIsOwn
      <4>2. CASE QueueOf(s) = QueueOf(r)
        <5>1. DriverFor(r) = "oci-queue" /\ DriverFor(s) = "oci-queue"
          BY <3>3, <4>2 DEF QueueOf, CacheKey, DriverFor
        <5>2. Registered[r].queueId = Registered[s].queueId
          BY <2>0, <4>2, <5>1, KeyNamesQueue
        <5> QED
          BY <3>1, <4>1, <4>2, <5>2 DEF CreateQueue, TypeOK
      <4>3. CASE QueueOf(s) # QueueOf(r)
        BY <3>1, <4>1, <4>3 DEF CreateQueue, TypeOK
      <4> QED
        BY <4>2, <4>3
    <3> QED
      BY <3>1, <3>2, <3>3 DEF QueueIsOwn, DriverFor, QueueOf
  <2>3. ASSUME UNCHANGED <<config, created, queues>> PROVE CacheInv' /\ QueueIsOwn'
    BY <2>3 DEF CacheInv, QueueIsOwn, DriverFor, QueueOf
  <2> QED
    BY <2>1, <2>2, <2>3, <2>4
    DEF Next, vars, BootstrapFails, OnModuleInit, RegisterManually, Register,
        StartImmediate, Watchdog, CloseWorker, BeginShutdown, QueueShutdown,
        ExplorerShutdown, AddJob
<1> QED
  BY <1>1, <1>2, LifecycleTypeCorrect, PTL DEF Spec

-----------------------------------------------------------------------------
(* The jobs of an application that was closed.                             *)

(* A hook that will empty queue k.                                         *)
HookToCome(k) == \E r \in hooks \intersect created : QueueOf(r) = k

(* A job that was not late will be taken by a hook, unless its application *)
(* failed to start: who was handed a queue has a registration of it.       *)
JobsInv ==
  /\ phase = "failed" => app \in failed
  /\ \A k \in CacheKeys :
       /\ app \in users[k] => \E r \in created : QueueOf(r) = k
       /\ \A a \in users[k] : a <= app
       /\ \A job \in jobs[k] :
            \/ job.late
            \/ job.app \in failed
            \/ /\ job.app = app /\ app \in users[k]
               /\ phase = "stopping" => HookToCome(k)

(* In any sequence of applications, none finds a job of an earlier one,    *)
(* but those of one that failed to start and those added too late.         *)
THEOREM JobsDoNotOutlive == Spec => []NoOldJobs
<1>1. Init => JobsInv
  BY DEF Init, JobsInv
<1>2. ASSUME TypeOK, HooksInv, JobsInv, [Next]_vars PROVE JobsInv'
  <2> USE <1>2
  <2> USE DEF application, providers, workerVars, queueVars, timers, closings, history
  <2>0. /\ created \subseteq Registrations /\ Explorer \notin created
        /\ \A s \in Registrations : QueueOf(s) \in CacheKeys
        /\ app \in 1 .. Applications /\ Applications \in Nat
    BY WiringIsDefined, ConstantsAssumption
    DEF TypeOK, RegistrationsOf, ConstantsAssumption
  <2>1. ASSUME NEW r \in Registrations, CreateQueueAndWorkers(r) PROVE JobsInv'
    <3>1. /\ users' = [users EXCEPT ![QueueOf(r)] = @ \union {app}]
          /\ created' = created \union {r}
          /\ phase \in {"starting", "failed"}
          /\ UNCHANGED <<app, config, phase, jobs, failed>>
      BY <2>1 DEF CreateQueueAndWorkers, Instantiates
    <3>2. ASSUME NEW k \in CacheKeys, NEW a \in users'[k]
          PROVE  a <= app /\ (a = app => \E s \in created' : QueueOf(s) = k)
      <4>1. CASE k = QueueOf(r)
        BY <2>0, <3>1, <3>2, <4>1 DEF JobsInv, TypeOK
      <4>2. CASE k # QueueOf(r)
        BY <3>1, <3>2, <4>2 DEF JobsInv, TypeOK
      <4> QED
        BY <4>1, <4>2
    <3>3. \A k \in CacheKeys : users[k] \subseteq users'[k]
      BY <3>1 DEF TypeOK
    <3> QED
      BY <3>1, <3>2, <3>3 DEF JobsInv, QueueOf
  <2>2. ASSUME NEW r \in Registrations, BootstrapFails(r) \/ WorkersFail(r) PROVE JobsInv'
    <3>1. /\ failed' = failed \union {app} /\ phase' = "failed"
          /\ UNCHANGED <<app, config, created, users, jobs>>
      BY <2>2 DEF BootstrapFails, WorkersFail, ProviderThrows
    <3> QED
      BY <3>1 DEF JobsInv, QueueOf
  <2>3. CASE OnModuleInit \/ RegisterManually
    <3>1. phase \in {"starting", "running"} /\ phase' = "running"
      BY <2>3 DEF OnModuleInit, RegisterManually
    <3>2. UNCHANGED <<app, config, created, users, jobs, failed>>
      BY <2>3 DEF OnModuleInit, RegisterManually, Register
    <3> QED
      BY <3>1, <3>2 DEF JobsInv, QueueOf
  <2>4. CASE BeginShutdown
    BY <2>4 DEF BeginShutdown, JobsInv, QueueOf, HookToCome
  <2>5. ASSUME NEW r \in Registrations, QueueShutdown(r) PROVE JobsInv'
    <3>1. /\ jobs' = [jobs EXCEPT ![QueueOf(r)] = {}]
          /\ hooks' = hooks \ {r}
          /\ UNCHANGED <<app, config, phase, created, users, failed>>
      BY <2>5 DEF QueueShutdown, CloseQueue
    <3>2. ASSUME NEW k \in CacheKeys, NEW job \in jobs'[k]
          PROVE  k # QueueOf(r) /\ job \in jobs[k] /\ (HookToCome(k) => HookToCome(k)')
      BY <3>1, <3>2 DEF HookToCome, QueueOf, TypeOK
    <3> QED
      BY <3>1, <3>2 DEF JobsInv, QueueOf
  <2>6. CASE ExplorerShutdown
    <3>1. \A k \in CacheKeys : HookToCome(k) => HookToCome(k)'
      BY <2>0, <2>6 DEF ExplorerShutdown, HookToCome, QueueOf
    <3> QED
      BY <2>6, <3>1 DEF ExplorerShutdown, JobsInv, QueueOf
  <2>7. ASSUME NEW k \in CacheKeys, NEW a \in 1 .. Applications, AddJob(k, a) PROVE JobsInv'
    <3> DEFINE late == \/ a # app
                       \/ phase = "stopping" /\ \A r \in hooks \ {Explorer} : QueueOf(r) # k
    <3>1. /\ a \in users[k]
          /\ jobs' = [jobs EXCEPT ![k] = @ \union {[app |-> a, late |-> late]}]
          /\ UNCHANGED <<app, config, phase, created, hooks, users, failed>>
      BY <2>7 DEF AddJob
    <3>2. ~late => a = app /\ (phase = "stopping" => HookToCome(k))
      BY DEF HookToCome, TypeOK
    <3> HIDE DEF late
    <3>3. ASSUME NEW k2 \in CacheKeys, NEW job \in jobs'[k2]
          PROVE  \/ job.late
                 \/ job.app \in failed
                 \/ /\ job.app = app /\ app \in users[k2]
                    /\ phase = "stopping" => HookToCome(k2)
      <4>1. CASE job \in jobs[k2]
        BY <4>1 DEF JobsInv
      <4>2. CASE job \notin jobs[k2]
        <5>1. k2 = k /\ job = [app |-> a, late |-> late]
          BY <3>1, <3>3, <4>2 DEF TypeOK
        <5>2. job.app = a /\ job.late = late
          BY <5>1
        <5> QED
          BY <3>1, <3>2, <5>1, <5>2
      <4> QED
        BY <4>1, <4>2
    <3> QED
      BY <3>1, <3>3 DEF JobsInv, QueueOf, HookToCome
  <2>8. CASE NextApplication
    <3>1. app' = app + 1 /\ UNCHANGED <<users, jobs, failed>> /\ phase' = "starting"
      BY <2>8 DEF NextApplication
    <3>2. \A k \in CacheKeys : \A a \in users[k] : a <= app' /\ a # app'
      BY <2>0, <3>1 DEF JobsInv, TypeOK
    <3>3. \A k \in CacheKeys : \A job \in jobs[k] : job.late \/ job.app \in failed
      BY <2>8 DEF NextApplication, Stopped, JobsInv, HookToCome
    <3> QED
      BY <3>1, <3>2, <3>3 DEF JobsInv
  <2>9. ASSUME UNCHANGED <<app, config, phase, created, hooks, users, jobs, failed>>
        PROVE  JobsInv'
    BY <2>9 DEF JobsInv, QueueOf, HookToCome
  <2> QED
    BY <2>1, <2>2, <2>3, <2>4, <2>5, <2>6, <2>7, <2>8, <2>9
    DEF Next, vars, StartImmediate, Watchdog, CloseWorker
<1>3. JobsInv => NoOldJobs
  BY DEF JobsInv, NoOldJobs, Stopped, HookToCome
<1> QED
  BY <1>1, <1>2, <1>3, TypesAndHooks, PTL DEF Spec
=============================================================================
