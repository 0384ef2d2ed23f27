-------------------------- MODULE WorkerLifecycle --------------------------
(***************************************************************************)
(* The queues and workers of the NestJS applications of one process, from  *)
(* the modules that create them to each application's shutdown.            *)
(*                                                                         *)
(* A worker comes from the `processors` option of a registerQueue call, or *)
(* from the explorer, which finds the @Processor classes.  Nobody starts   *)
(* it directly: the factory leaves that to setImmediate, the explorer      *)
(* looks again after 500 ms, and neither callback is ever taken back.  At  *)
(* shutdown every queue closes the workers tracked under its name, and the *)
(* explorer those of its list.                                             *)
(*                                                                         *)
(* An application may fail to start, and another one may be started after  *)
(* it in the same process (tests do): the explorer and the container are   *)
(* new then; the factories' caches, trackedWorkers, the timers and whatever*)
(* still runs are not.                                                     *)
(*                                                                         *)
(* Both drivers' workers start and close alike, so one model stands for    *)
(* both.  What a worker that is running does is in LocalDriver, OciDriver. *)
(*                                                                         *)
(* Source: queue-hub.providers.ts, queue-hub.explorer.ts,                  *)
(* queue-hub.registrar.ts, drivers/*-queue-factory.ts.                     *)
(***************************************************************************)
EXTENDS Naturals, Wiring

CONSTANTS
  Applications,   \* how many applications the process runs, one at a time
  Configurations, \* what their forRoot calls may configure
  Registrations,  \* the registerQueue calls, each in a module of its own
  Registered,     \* the options of each: see RegistrationType
  AppOf,          \* the application each belongs to
  Refused,        \* the callbacks the OCI factory makes no worker of: files
  Processors,     \* the @Processor classes, found in every application
  ProcessorQueue, \* the name of the queue each is for
  RegisterCap     \* bound on the calls of QueueHubRegistrar.register()

Explorer == "explorer"

RegistrationsOf(a) == {r \in Registrations : AppOf[r] = a}

ASSUME ConstantsAssumption ==
  /\ Applications \in Nat \ {0}
  /\ \A config \in Configurations : IsConfiguration(config)
  /\ Registered \in [Registrations -> RegistrationType]
  /\ AppOf \in [Registrations -> 1 .. Applications]
  /\ ProcessorQueue \in [Processors -> Names]
  /\ Registrations \intersect Processors = {}
  /\ Explorer \notin Registrations
  /\ RegisterCap \in Nat
  (* the options of a synchronous call hold the name it was called with *)
  /\ \A r \in Registrations :
       Registered[r].async \/ Registered[r].given = Registered[r].name
  (* the container starts only if each @Processor finds a queue *)
  /\ \A p \in Processors, a \in 1 .. Applications :
       \E r \in RegistrationsOf(a) : Registered[r].name = ProcessorQueue[p]

(* The worker of an option's entry, and the one the n-th registration      *)
(* makes for a class.                                                      *)
OptionWorkers(r) == {<<r, c>> : c \in Registered[r].processors}
ExplorerWorkers(n) == {<<p, n>> : p \in Processors}

AllOptionWorkers == UNION {OptionWorkers(r) : r \in Registrations}
AllExplorerWorkers == Processors \X (1 .. RegisterCap)
Workers == AllOptionWorkers \union AllExplorerWorkers

VARIABLES
  (* the application *)
  app,        \* which one runs
  config,     \* its configurations
  phase,      \* "starting" (providers, then onModuleInit), "running",
              \* "stopping"; "failed": it did not start
  created,    \* its registrations whose queue provider was instantiated
  thrown,     \* those whose provider threw
  workers,    \* its explorer's list
  hooks,      \* onApplicationShutdown hooks to run: registrations, Explorer
  (* the process *)
  registered, \* how often an explorer registered the @Processor classes
  made,       \* the worker objects that exist
  tracked,    \* trackedWorkers, by queue name; {}: no entry
  queues,     \* the factories' caches: by key, the queueId of the queue
  users,      \* by key: the applications that were handed that queue
  jobs,       \* by key of a local queue: its jobs, see JobType
  isRunning,  \* of a worker: its interval exists exactly then
  immediate,  \* workers whose setImmediate callback is pending
  watchdog,   \* workers whose 500 ms callback is pending
  (* history, read by no guard *)
  failed,     \* the applications that failed to start
  forgotten,  \* workers trackedWorkers lost, or never got to hold
  closed,     \* workers that were closed
  closedEarly \* those that had a callback pending when last closed

application == <<app, config>>
providers   == <<created, thrown>>
workerVars  == <<made, isRunning>>
queueVars   == <<queues, users, jobs>>
timers      == <<immediate, watchdog>>
closings    == <<closed, closedEarly>>
history     == <<failed, forgotten, closings>>
vars == <<application, phase, providers, registered, tracked, workers, hooks,
          workerVars, queueVars, timers, history>>

Absent == "absent"

(* A job: the application that added it, and whether the queue's own hooks *)
(* had all run by then.                                                    *)
JobType == [app : 1 .. Applications, late : BOOLEAN]

Init ==
  /\ app = 1
  /\ config \in Configurations
  /\ phase = "starting"
  /\ created = {}
  /\ thrown = {}
  /\ workers = {}
  /\ hooks = {}
  /\ registered = 0
  /\ made = {}
  /\ tracked = [q \in Names |-> {}]
  /\ queues = [k \in CacheKeys |-> Absent]
  /\ users = [k \in CacheKeys |-> {}]
  /\ jobs = [k \in CacheKeys |-> {}]
  /\ isRunning = [w \in Workers |-> FALSE]
  /\ immediate = {}
  /\ watchdog = {}
  /\ failed = {}
  /\ forgotten = {}
  /\ closed = {}
  /\ closedEarly = {}

NameOf(r) == QueueName(Registered[r])
DriverFor(r) == QueueDriver(config, Registered[r])
QueueOf(r) == CacheKey(config, Registered[r])

-----------------------------------------------------------------------------
(* Creation.                                                               *)

(* Mutant: the worker waits for somebody to start it.                      *)
CreateWorkersUnstarted(ws) == made' = made \union ws /\ UNCHANGED immediate

(* The factories' createWorker: the start is left to setImmediate.         *)
CreateWorkers(ws) ==
  /\ made' = made \union ws
  /\ immediate' = immediate \union ws

(* The factories' createQueue: a queue that is cached is handed out again. *)
CreateQueue(r) ==
  queues' = [queues EXCEPT ![QueueOf(r)] =
               IF @ = Absent THEN Registered[r].queueId ELSE @]

(* The container instantiates each provider once, and goes on doing so     *)
(* when another one has thrown.                                            *)
Instantiates(r) ==
  /\ phase \in {"starting", "failed"}
  /\ r \in RegistrationsOf(app) \ (created \union thrown)

(* OciQueueFactory.createWorker throws for one of the option's entries.    *)
Refuses(r) ==
  DriverFor(r) = "oci-queue" /\ Registered[r].processors \intersect Refused # {}

(* createQueueAndWorkers.  The workers of the option take the place of     *)
(* those tracked under the name of the queue.                              *)
CreateQueueAndWorkers(r) ==
  LET q == NameOf(r) IN
  /\ Instantiates(r)
  /\ ~Rejected(config, Registered[r])
  /\ ~Refuses(r)
  /\ created' = created \union {r}
  /\ CreateQueue(r)
  /\ users' = [users EXCEPT ![QueueOf(r)] = @ \union {app}]
  /\ CreateWorkers(OptionWorkers(r))
  /\ IF Registered[r].processors = {}
       THEN UNCHANGED <<tracked, forgotten>>
       ELSE /\ tracked' = [tracked EXCEPT ![q] = OptionWorkers(r)]
            /\ forgotten' = forgotten \union tracked[q]
  /\ UNCHANGED <<application, phase, thrown, registered, workers, jobs, isRunning,
                 watchdog, hooks, failed, closings>>

(* The bootstrap fails.  What was created stays, and no hook will run.     *)
ProviderThrows(r) ==
  /\ thrown' = thrown \union {r}
  /\ phase' = "failed"
  /\ failed' = failed \union {app}

(* A provider throws, or the factory of its options rejects.               *)
BootstrapFails(r) ==
  /\ Instantiates(r)
  /\ Rejected(config, Registered[r]) \/ Registered[r].async
  /\ ProviderThrows(r)
  /\ UNCHANGED <<application, created, registered, tracked, workers, hooks,
                 workerVars, queueVars, timers, forgotten, closings>>

(* It throws at an entry that is refused: the queue is cached, the workers *)
(* of the entries before it exist and will start, and nothing tracks them. *)
WorkersFail(r) ==
  /\ Instantiates(r)
  /\ ~Rejected(config, Registered[r])
  /\ Refuses(r)
  /\ ProviderThrows(r)
  /\ CreateQueue(r)
  /\ \E callbacks \in SUBSET (Registered[r].processors \ Refused) :
       /\ CreateWorkers({r} \X callbacks)
       /\ forgotten' = forgotten \union ({r} \X callbacks)
  /\ UNCHANGED <<application, created, registered, tracked, workers, hooks, users,
                 jobs, isRunning, watchdog, closings>>

(* QueueHubExplorer.register: a worker for every @Processor class, all in  *)
(* one go.                                                                 *)
Register ==
  LET ws == ExplorerWorkers(registered + 1) IN
  /\ created = RegistrationsOf(app)
  /\ registered < RegisterCap
  /\ registered' = registered + 1
  /\ CreateWorkers(ws)
  /\ watchdog' = watchdog \union ws
  /\ workers' = workers \union ws
  /\ UNCHANGED <<application, providers, tracked, isRunning, hooks, queueVars, history>>

(* QueueHubRegistrar.onModuleInit, when all providers are there: registers *)
(* unless manualRegistration is set.                                       *)
OnModuleInit ==
  /\ phase = "starting"
  /\ created = RegistrationsOf(app)
  /\ phase' = "running"
  /\ \/ Register
     \/ UNCHANGED <<application, providers, registered, tracked, workers, hooks,
                    workerVars, queueVars, timers, history>>

(* The application calls QueueHubRegistrar.register().                     *)
RegisterManually ==
  /\ phase = "running"
  /\ Register
  /\ UNCHANGED phase

-----------------------------------------------------------------------------
(* Starting.                                                               *)

(* The setImmediate callback: start(), which a running worker ignores.     *)
StartImmediate(w) ==
  /\ w \in immediate
  /\ immediate' = immediate \ {w}
  /\ isRunning' = [isRunning EXCEPT ![w] = TRUE]
  /\ UNCHANGED <<application, phase, providers, registered, made, tracked,
                 workers, watchdog, hooks, queueVars, history>>

(* The explorer's callback after 500 ms: starts a worker that is not       *)
(* running, also one that was closed meanwhile.                            *)
Watchdog(w) ==
  /\ w \in watchdog
  /\ watchdog' = watchdog \ {w}
  /\ isRunning' = [isRunning EXCEPT ![w] = TRUE]
  /\ UNCHANGED <<application, phase, providers, registered, made, tracked,
                 workers, immediate, hooks, queueVars, history>>

-----------------------------------------------------------------------------
(* Closing.                                                                *)

Pending == immediate \union watchdog

(* close() of each of ws.                                                  *)
CloseAll(ws) ==
  /\ isRunning' = [w \in Workers |-> isRunning[w] /\ w \notin ws]
  /\ closed' = closed \union ws
  /\ closedEarly' = (closedEarly \ ws) \union (ws \intersect Pending)

(* Mutant: the getter hands out a worker that does not exist yet.          *)
CloseWorkerUnregistered(w) ==
  /\ w \in AllExplorerWorkers
  /\ CloseAll({w})
  /\ UNCHANGED <<application, phase, providers, registered, made, tracked,
                 workers, timers, hooks, queueVars, failed, forgotten>>

(* The application closes the worker of a processor: WorkerHost.worker.    *)
CloseWorker(w) ==
  /\ w \in made \intersect AllExplorerWorkers
  /\ CloseAll({w})
  /\ UNCHANGED <<application, phase, providers, registered, made, tracked,
                 workers, timers, hooks, queueVars, failed, forgotten>>

(* The application is closed: the container runs every hook, one module    *)
(* after the other.                                                        *)
BeginShutdown ==
  /\ phase = "running"
  /\ phase' = "stopping"
  /\ hooks' = created \union {Explorer}
  /\ UNCHANGED <<application, providers, registered, tracked, workers, workerVars,
                 queueVars, timers, history>>

(* close() of a queue: the local one is emptied, the OCI one has nothing.  *)
CloseQueue(r) == jobs' = [jobs EXCEPT ![QueueOf(r)] = {}]

(* Mutants: the queue is told to close, its workers are not; they are, and *)
(* the queue is not.                                                       *)
QueueShutdownWithoutWorkers(r) ==
  /\ r \in hooks \ {Explorer}
  /\ hooks' = hooks \ {r}
  /\ tracked' = [tracked EXCEPT ![NameOf(r)] = {}]
  /\ CloseQueue(r)
  /\ UNCHANGED <<application, phase, providers, registered, made, workers,
                 timers, queues, users, isRunning, history>>

QueueShutdownWithoutQueue(r) ==
  /\ r \in hooks \ {Explorer}
  /\ hooks' = hooks \ {r}
  /\ CloseAll(tracked[NameOf(r)])
  /\ tracked' = [tracked EXCEPT ![NameOf(r)] = {}]
  /\ UNCHANGED <<application, phase, providers, registered, made, workers,
                 timers, queueVars, failed, forgotten>>

(* The hook of a queue: closes the workers tracked under its name, forgets *)
(* them, and closes the queue.                                             *)
QueueShutdown(r) ==
  /\ r \in hooks \ {Explorer}
  /\ hooks' = hooks \ {r}
  /\ CloseAll(tracked[NameOf(r)])
  /\ tracked' = [tracked EXCEPT ![NameOf(r)] = {}]
  /\ CloseQueue(r)
  /\ UNCHANGED <<application, phase, providers, registered, made, workers,
                 timers, queues, users, failed, forgotten>>

(* The hook of the explorer: closes the workers of its list.               *)
ExplorerShutdown ==
  /\ Explorer \in hooks
  /\ hooks' = hooks \ {Explorer}
  /\ CloseAll(workers)
  /\ UNCHANGED <<application, phase, providers, registered, made, tracked,
                 workers, timers, queueVars, failed, forgotten>>

-----------------------------------------------------------------------------
(* Around the application.                                                 *)

(* Application a adds a job to a local queue it was handed, at any time:   *)
(* also when it fails to start, when the hooks have run, or when another   *)
(* one runs.                                                               *)
AddJob(k, a) ==
  LET late == \/ a # app
              \/ phase = "stopping" /\ \A r \in hooks \ {Explorer} : QueueOf(r) # k
  IN
  /\ k.driver = "local"
  /\ a \in users[k]
  /\ jobs' = [jobs EXCEPT ![k] = @ \union {[app |-> a, late |-> late]}]
  /\ UNCHANGED <<application, phase, providers, registered, tracked, workers, hooks,
                 workerVars, queues, users, timers, history>>

Stopped == phase = "stopping" /\ hooks = {}

(* The process starts another application: a new container and explorer.   *)
NextApplication ==
  /\ Stopped \/ phase = "failed"
  /\ app < Applications
  /\ app' = app + 1
  /\ config' \in Configurations
  /\ phase' = "starting"
  /\ created' = {}
  /\ thrown' = {}
  /\ workers' = {}
  /\ UNCHANGED <<registered, tracked, hooks, workerVars, queueVars, timers, history>>

-----------------------------------------------------------------------------
Next ==
  \/ \E r \in Registrations :
       CreateQueueAndWorkers(r) \/ BootstrapFails(r) \/ WorkersFail(r) \/ QueueShutdown(r)
  \/ OnModuleInit
  \/ RegisterManually
  \/ \E w \in Workers : StartImmediate(w) \/ Watchdog(w) \/ CloseWorker(w)
  \/ BeginShutdown
  \/ ExplorerShutdown
  \/ \E k \in CacheKeys, a \in 1 .. Applications : AddJob(k, a)
  \/ NextApplication

Spec == Init /\ [][Next]_vars

(* The event loop runs the callbacks whose time has come.                  *)
FairSpec ==
  Spec /\ \A w \in Workers : WF_vars(StartImmediate(w)) /\ WF_vars(Watchdog(w))

-----------------------------------------------------------------------------
TypeOK ==
  /\ app \in 1 .. Applications
  /\ config \in Configurations
  /\ phase \in {"starting", "failed", "running", "stopping"}
  /\ created \subseteq RegistrationsOf(app)
  /\ thrown \subseteq RegistrationsOf(app)
  /\ workers \subseteq made
  /\ hooks \subseteq created \union {Explorer}
  /\ registered \in 0 .. RegisterCap
  /\ made \subseteq Workers
  /\ tracked \in [Names -> SUBSET made]
  /\ queues \in [CacheKeys -> QueueIds \union {Undefined, Absent}]
  /\ users \in [CacheKeys -> SUBSET (1 .. Applications)]
  /\ jobs \in [CacheKeys -> SUBSET JobType]
  /\ isRunning \in [Workers -> BOOLEAN]
  /\ immediate \subseteq made
  /\ watchdog \subseteq made
  /\ failed \subseteq 1 .. Applications
  /\ forgotten \subseteq made
  /\ closed \subseteq made
  /\ closedEarly \subseteq closed

(* When every shutdown hook has run, the workers that still run, of this   *)
(* application or an earlier one, are those trackedWorkers forgot, those   *)
(* that were closed before their pending callback started them (again),    *)
(* and those an application that failed to start left behind under a name  *)
(* this application has no queue of.                                       *)
LeftBehind(w) == \E q \in Names \ {NameOf(r) : r \in created} : w \in tracked[q]

ShutdownStopsWorkers ==
  Stopped =>
    \A w \in made :
      isRunning[w] => w \in forgotten \/ w \in closedEarly \/ LeftBehind(w)

(* The queue a registration of an OCI queue got from the cache is the one  *)
(* of its queueId, whatever queues this and earlier applications cached.   *)
QueueIsOwn ==
  \A r \in created :
    DriverFor(r) = "oci-queue" => queues[QueueOf(r)] = Registered[r].queueId

(* A local queue outlives its application in the cache, its jobs do not:   *)
(* the next one finds none, but those of an application that failed to     *)
(* start, and those added when the hooks of their queue had run.           *)
NoOldJobs ==
  \A k \in CacheKeys : \A job \in jobs[k] :
    \/ job.app = app /\ ~Stopped
    \/ job.app \in failed
    \/ job.late

(* Every worker that is created comes to run, whatever the order of its    *)
(* two callbacks, unless it was closed: it is always so again of all.      *)
EveryWorkerStarts == []<>(\A w \in made : isRunning[w] \/ w \in closed)
=============================================================================
