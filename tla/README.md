# nestjs-queue-hub in TLA+

A verification project for `packages/queue-hub`, a NestJS module that gives an
application job queues with one interface (`QueueHubQueue`, `QueueHubJob`,
`QueueHubWorker`) over two drivers: *local*, a Map in memory, and *OCI Queue*, a
message service. Paths below are relative to `src/packages/queue-hub/lib`.

## 1. The system

| Component | State it keeps | Operations | Talks to |
|---|---|---|---|
| Job policy: `drivers/base/base-job.adapter.ts`, `base-worker.adapter.ts` | none | `shouldRemoveOnComplete/OnFail`, `calculateBackoffDelay`, `sortJobsByPriority`, `filterReadyJobs`, `processJobWithTimeout` | used by the adapters of every driver |
| Local queue: `drivers/local/local-queue.adapter.ts` | the Map of job objects by id, an id counter | `add`, `getJob(s)`, `getWaiting` ... `getFailed` and their counts, `clean`, `empty`, `close`, `remove`, `removeJobs`, `obliterate`; `pause` and `resume` are empty | job objects |
| Local job: `local-queue-job.adapter.ts` | `state`, `currentAttempt`, `processAfter`, the options | `retry`, `remove`, `discard`, `moveToCompleted`, `moveToFailed`, `update`, `waitUntilFinished` | its queue (removal) |
| Local worker: `local-queue-worker.adapter.ts` | `_isRunning`, `_isPaused`, the interval; one activation per poll | `start`, `close`, `pause`, `resume`, the tick, `handleJobRetry/Completion/Failure` | queue, jobs, the processor, event listeners |
| OCI queue and job: `drivers/oci/oci-queue.adapter.ts`, `oci-queue-job.adapter.ts` | none but the message in hand: all state is in the messages | `add` = put; `getJob`, `getJobs`, `getWaiting`, `getActive` = receive; the two counts = the queue's statistics; `remove` = delete | the OCI Queue service, awaited |
| OCI worker: `oci-queue-worker.adapter.ts` | as the local worker | as the local worker; a retry is a put, then a delete | OCI queue and jobs |
| Module, option providers: `queue-hub.module.ts`, `queue-hub.providers.ts` | the options given to `forRoot` and `registerQueue`, by configKey | which configuration, driver, name and key a registration gets; what is refused | factories, NestJS |
| Factories, registry, explorer, registrar | static caches of queues and clients, `trackedWorkers`, the explorer's workers | create queue, worker, events, flow producer; start by `setImmediate`; the 500 ms watchdog; shutdown hooks | all of the above |
| Queue events: `oci-queue-events.adapter.ts`, `hosts/queue-events-host.class.ts` | an interval and its polls, the handlers, the object each listener class holds | ask for two counts every second and emit; `close`; the shutdown hook | OCI queue, the application's handlers |
| Flow producers | a Map of queues nobody fills | `add` always throws | none |
| Decorators, metadata, interfaces, logger, authentication | none at run time | declarative set-up | NestJS |

What is hard here. A worker's `setInterval` callback is `async` and nothing waits
for the one before: with a processor slower than the interval, **polls overlap**,
and each goes on with a batch it fetched before its awaits. Timeouts abandon a
processor that is still running. Application and event listeners call `retry`,
`remove`, `moveTo...` on the objects the polls hold. In the OCI driver every step is
a call that may fail on either side of its effect, the only acknowledgement is a
delete, and a message that is not deleted within 30 seconds is delivered again, to
anybody. Workers are started by two timer callbacks nobody takes back. Caches,
`trackedWorkers` and timers are static: they outlive an application that was closed
or failed to start. An events poll goes on after its object was closed. Workers and
events objects report what goes wrong by emitting 'error' in a callback nobody awaits:
where nobody listens, the emit throws and ends the process. What makes the components
correct:

- policy: one visiting order whatever the sort algorithm; the first retry waits
  the option's delay; removal exactly as the options say;
- local driver: a job runs one poll at a time, at most `attempts` times, never
  before it is due, and in the order of the queue; it ends once, and its end stays;
  an unfinished job is in the Map; an active job is awaited by a poll; every job
  ends, and whoever waits for it is told, but not of a failure that is retried;
  closed workers come to rest; the getters account for every job;
- OCI driver: a job that is not disposed of is in the queue through any failure; no
  message carries more attempts than its job has; a job and its retry are not
  worked on together; every job is disposed of;
- workers' lifecycle: every worker that is created comes to run; shutdown closes every
  worker, up to those the code loses sight of; no application gets the wrong queue out of
  a cache, or jobs of an earlier one that could still have emptied its queue;
- queue events: what was closed is silent; only an error nobody handles, or an async
  handler that rejects, ends the process; shutdown ends the polls, up to those of
  replaced objects; a count that stays above 0 is reported.

## 2. The modules

| Module | Models |
|---|---|
| `JobPolicy` | the base classes' decisions as operators on option values and sort keys |
| `JobLifecycle` | abstract: what a driver promises about each job (submit, run, try again, complete, fail; at most `budget` runs) |
| `LocalDriver` | one local queue, its jobs, its workers and their overlapping polls |
| `OciDriver` | one OCI queue, its messages, the polls over it, the service and its faults |
| `LocalWaiters` | `LocalDriver` with callers of `waitUntilFinished` |
| `Wiring` | what `forRoot` and `registerQueue` mean, as operators: configuration, driver, name, cache key, refusals |
| `WorkerLifecycle` | the applications of one process: their queues and workers, delayed start, watchdog, closing, shutdown, failed starts, what outlives an application |
| `QueueEvents` | the listener classes of one queue, their events objects and these objects' polls |
| `LocalDriverClaims`, `OciDriverClaims`, `WorkerLifecycleClaims` | what documentation and demo say and the code does not do |
| `MCJobPolicy`, `MCLocalDriver`, `MCLocalWaiters`, `MCOciDriver`, `MCWorkerLifecycle`, `MCQueueEvents` | instances for TLC |
| `JobPolicyProofs`; `LocalDriverProofs`, `LocalJobProofs`, `LocalWaitersProofs`; `OciDriverProofs`, `OciLifecycleProofs`; `WorkerLifecycleProofs`; `QueueEventsProofs` | theorems, checked by TLAPS |

`LocalDriver` and `OciDriver` both EXTEND `JobPolicy` and both instantiate
`JobLifecycle` under a refinement mapping (`LifecycleSpec`). `WorkerLifecycle` and
`QueueEvents` both EXTEND `Wiring` and stand beside the drivers: `WorkerLifecycle` says
when a worker's `isRunning` changes, the drivers say what a running worker does, and
each lets the other's half happen at any time; `QueueEvents` sees of a queue only
whether its counts are above 0, which may change at any time.

### LocalDriver and the code

Node runs one callback at a time, so **an action is the code between two awaits**.

- A job is an object, not an id: `jobs` is the set of objects the Map holds, and
  `state`, `attempt`, `due`, `opts`, `createdAt` live on the objects, which polls
  keep after the Map let go of them. `due` abstracts `Date.now() >= processAfter`;
  `place` is the position of the entry in the Map's order (a set on an existing id
  keeps it).
- `Add` is the whole of `add`: options, id, Map entry. `Remove` also stands for
  `job.remove()` and `discard()`, `Empty` for `empty`, `close`, `removeJobs`
  and `obliterate`.
- A poll is a pair of worker and slot with `pc`. `Tick` fetches (line 100). The rest
  of the callback up to the next await is one step: filter, sort, slice and the loop
  up to the first job that is not passed over (`IsNext`), then either
  `FailExceeded`, or `StartJob`, or `ListenerStopsLoop` when a listener throws, or
  `LoopEnds`. A job is passed over by its state *at that moment*, so the sort and the
  slice are those of the stale batch and the tests are fresh, as in the code.
- `Complete`, `ProcessorRejects` and `TimeoutFires` are what follows the await of
  line 137, with `handleJobRetry` (`RetryLater`) or `handleJobFailure`
  (`GiveUp`), the emitted events and what a listener may do in them: return,
  throw, or call `job.retry()`. The order matters and is kept: before the
  failure handler, which overwrites the state, or after the retry handler. The
  retry handler is awaited, so the 'failed' of a retry is a step of its own
  (`EmitFailed`): another poll may start the job, or finish it, in between.
- A listener that throws ends the poll: the catch around the loop emits 'error'. If nobody
  listens to that, the process dies, and this driver has nothing that survives a
  process: it is the behaviour that takes no further step, which every property
  of safety allows. The runs for liveness have no throwing listener.
- Left out: payload, results and errors, `update`, logging.

`LocalWaiters` adds `waitsFor`: a call of `waitUntilFinished` on a job that is not
finished begins a waiter, `LookAgain` is the turn of its 100 ms loop that finds the job
finished (turns that do not are stutters), `WaitTimesOut` the turn that throws.

### OciDriver and the code

A job is what the application adds; a message is its current carrier, and a
retry changes the carrier (`jobOf`). The service is external: `Put`, `Deliver`,
`Delete`, `Reappear`. `Fetch` is the tick's `getWaiting`, `Select` the filter, sort and
slice (any choice of the right size: the order is `JobPolicy`'s business),
`StartJob`, `Complete`, `RetryLater`, `GiveUp` the loop, `Requeue` and
`DeleteReturns` the two awaited calls of `handleJobRetry`, `RequeueFails` the
`throw addError` that ends the poll. Every receiving getter is a `Peek`; the
counts ask for statistics and change nothing. What fails or throws outside the inner
`try` (`FetchFails`, `RequeueFails`, `ListenerThrows`) ends in `PollFails`: the catch
around the loop (lines 207-209) emits 'error'. If somebody listens, the poll ends; if
not, the emit throws in a callback nobody awaits and the process dies and is started
again (`ProcessDies`, which `Crash` is too). Here, other than in the local driver,
the messages survive that. Nobody listens where the application never attached a
listener of 'error' (`ErrorsHeard = FALSE`), or where `close()` has removed it and it was
not attached again (`listening`, `Close`, `Listen`). `Remove`
and `RemoveOwn` find the message and `RemoveReturns` deletes it: two steps with
anything in between. `held` is the attempt number of the job object, which the
processor may increase with `job.retry()` in memory. The branch for exceeded
messages (lines 142-150) has no action: `NeverExceeded` shows no message enters it.
Left out: the 20 messages limit of a receive, metadata that does not parse, and
receipts that expire with the visibility (a delete with one succeeds or is
covered by the fault `delete`).

### Wiring and the code

The configurations of an application are a function from the configKeys `forRoot` or
`forRootAsync` was called with. Which driver to take is answered differently in
different places, and `Wiring` keeps two of them apart: `QueueDriver` (the queue's
provider: its configKey, `localMode` first) and `EventsDriver` (the explorer: the default
configuration, `localMode` ignored). The explorer's driver for the workers of a class (the
default configuration, `localMode` first) has no operator: the workers of both drivers
start and close alike, and nothing says what should happen where theirs is not the
queue's. `CacheKey` is the key of the factories' caches: a record for the string
`name-queueId`, which is injective because an OCID does not contain "-ocid1.".
`QueueName` is the name a registration ends with (an asynchronous one may return another
than its token has), `Rejected` what makes a provider throw.

### WorkerLifecycle and the code

`CreateQueueAndWorkers` is the queue provider's factory of one registration
(`queue-hub.providers.ts`), with the cache it looks into and the workers of the
`processors` option; `Register` is the explorer's `register` with `handleProcessor`, run
by the registrar's `OnModuleInit` or by the application. The two delayed starts,
`StartImmediate` and `Watchdog`, are callbacks nobody takes back: closing a worker leaves
them pending, as in the code. `QueueShutdown` is the hook a queue gets (`trackedWorkers`
of its name closed and forgotten, the queue closed), `ExplorerShutdown` the explorer's;
the container runs them in any order. `tracked` is keyed by the queue's name, so a second
registration of a name takes the place of the first one's workers: the history variable
`forgotten` keeps them. `BootstrapFails` is a provider that throws or an options factory
that rejects; the container may still instantiate the others. `NextApplication` resets
what belongs to the container and explorer, and leaves the caches, `tracked`, timers and
running workers as they are.

`OciQueueFactory.createWorker` throws for an entry that is a file: `WorkersFail` caches the
queue and leaves any part of the other entries' workers behind, untracked but with their
start pending. `AddJob` is the `add` of a local queue, which has no guard: any application
that was handed the queue (`users`) may call it at any time, in a constructor of a provider
before the bootstrap fails, after the hooks, or while a later application runs. A job
here is the application that added it and whether the queue's hooks had all run by then.
Left out: what two registrations of one key disagree about beside their `queueId` (the
first one's default job options, endpoint and credentials stay in the cache).

### QueueEvents and the code

`RegisterQueueEventListeners` is the explorer's method: a new events object for every
class, replacing the one its host holds without closing it. A poll has two awaits,
hence the actions `Tick`, `WaitingCounted` and `ActiveCounted`; the last emits, and
`HandlerThrows`, `HandlerCloses`, `StatsFails` are the ways this can go otherwise, with
the `catch` block's own emit (`EmitError`), which throws if nobody listens: phase
"crashed". A handler may close the host's object before it throws; then nobody
listens. `HandlerRejects` is an async handler: its rejection reaches no `try` and ends the
process. (It is taken at the emit; a rejection that comes later ends the process
likewise, after steps the model has anyway.) `delivered` is the history of the last
step's handler calls. The shape of the service's statistics is taken as the code reads it (`visibleMessages`,
`inFlightMessages`). `createQueueEvents` of the local driver gives an emitter that
emits nothing. Left out: the event 'closed', which is emitted after the listeners were
removed and so reaches nobody; events the code never emits.

## 3. The runs

| Run | Asks |
|---|---|
| `JobPolicyCheck` | is the comparator consistent and the order total on all batches of three keys; does the slice leave nothing better behind; is the backoff series right |
| `LocalPolling` | two workers whose polls overlap, paused, closed and restarted, nobody else touching the jobs: nothing lost, run twice at once, left active, revived, early, out of order; the driver implements `JobLifecycle` |
| `LocalCalls` | every call of the application and every reaction of a listener between the steps of two polls, duplicate ids included: attempts bounded, getters complete |
| `LocalLive` | liveness, with a caller of `waitUntilFinished`: closed workers come to rest; every job ends if a worker is left running, and the caller is told then, of a failure only when it is final |
| `OciReliable` | a service that answers within 30 seconds: one worker per job, `JobLifecycle`, every job disposed of |
| `OciFaulty` | every fault at once: no job lost, no attempts exceeded |
| `Lifecycle` | two applications in one process under three configurations, the first of which may fail to start; a name registered twice and again later, one `@Processor`, `register()` called twice: an OCI worker that is refused, jobs added at any time: every worker comes to run, shutdown stops what it can reach, caches hand out the right queue, and no old jobs beside those nothing could empty |
| `QueueEvents` | a listener class registered twice, two overlapping polls, under every pair of drivers of queue and events, with failing counts and handlers that throw, reject or close |
| `LocalDuplicateId`, `LocalStarved`, `OciTooManyRuns`, `LifecycleShutdown` | end in a counterexample: see 5 |

**Bounds.** Two jobs and two polls are the smallest instance in which polls overlap
on one job while another waits in a batch; a third poll or job adds no new pair. Two
attempts give a failure that is retried and one that is final; `AttemptCap = 3` lets `retry()`
push a job one past its maximum. The sort is checked on three keys by `JobPolicyCheck`
(transitivity needs three), cut to one job and to two, with the waits of the first six
attempts; all three of its properties are proved for any batch, concurrency and number
of attempts. `now` grows by at most one per
`add`: equal and different milliseconds both occur. Three messages in `OciFaulty`
allow a put that fails after its effect and its repetition; four in `OciReliable`
are what two jobs of two attempts need, so that no put is blocked. `RunCap` stops
the history variable `starts`, where no property of the run reads it. Symmetry is
used for jobs (and messages, polls of the OCI model) in runs without liveness. Two
registrations of one name are the fewest that overwrite `tracked`, a third, in the
second application and under another configuration, gives the second driver and meets
what the first left behind; `RegisterCap = 2` lets the application register the classes a
second time. The second registration is asynchronous, under the key "other", and its
options name another queue than its token and two processors, one of which is a file: it
fails in every way a registration can. Two `Slots` let an events object's polls overlap, `FailureCap = 1` one call
of the service fail (the first failure is the one that may end the process), which also
keeps failures from recurring for ever. A process may simply stop, after a shutdown or a
crash, hence `CHECK_DEADLOCK FALSE` in the `Lifecycle` and `QueueEvents` runs.

**Preconditions, and why.** Most properties of the local driver hold only of an
application that leaves certain jobs alone, because the code has no guard. The proofs
need less of it than the runs grant:

| Property | needs of the application | because |
|---|---|---|
| `AttemptBound`, `GettersCoverTheMap`, `BestFirst` | nothing | |
| `FailureIsFinal` | nobody but the worker calls `moveToFailed` | it fails a job that has attempts left |
| `ActiveIsAwaited` | no listener throws | the emit of 'active' stands before the inner `try`, and the job stays active for good |
| `ExclusiveRun` | no `retry()` or `moveTo...` on an active job, and none by a listener of 'failed' | it can be started again; when 'failed' is emitted for a retry, another poll may run the job already |
| `NeverEarly` | that, and no `retry()` on a delayed job | `retry()` makes it waiting and leaves `processAfter`, which a waiting job is not asked for |
| `FinishedIsFinal` | that of `ExclusiveRun`, and no `retry()` on a finished job | `retry()` is the way back, also for the listener: another poll may have finished the job by then |
| `UnfinishedKept` | that of `FinishedIsFinal`, no removal, no `jobId` | a finishing job removes whatever is in the Map under its id |
| `LifecycleSpec` | no `retry()` or `moveTo...` from outside, listeners only listen | a `retry()` uses up an attempt without a run |

`WaiterReturns` needs jobs that end: a job that was removed or replaced
before its end has none, and a waiter without a timeout never returns then. It
also needs a worker that is left running. `EventuallyReported` excludes, for 'active',
objects with a handler of 'waiting' that may throw (nothing after it is emitted then).
`OneWorker` and `LifecycleSpec` of the OCI driver need processors faster than the
visibility timeout (no fault `late`) and a process that lives: where a receive may fail or a
listener throw, somebody must listen to 'error' throughout, that is, listeners that include
one for it and no `close()`, which removes them. A worker of the `processors` option is
created where the application can hardly attach one. `NeverLost` and
`NeverExceeded` need nothing.
`NoOldJobs` excepts the jobs of an application that failed to start and those added when
the hooks had run: nothing empties the static queue then, and the next application finds
them. `HeardErrorsAreSurvived` excepts async handlers that reject.

**Fairness.** Weak fairness of the loop and of the awaited processor (the event
loop runs what is ready; a processor settles or has a timeout), of the tick of a
running, unpaused worker (`setInterval`), of time. Starting a worker is *not* fair:
`EventuallyFinished` assumes instead that some worker is left running, and
`ClosedComesToRest` then holds by the polls alone. In the OCI model the workers are
started, calls return, and visibility timeouts end. In `WorkerLifecycle` only the timer
callbacks are fair: nobody has to shut the application down. A waiter's 100 ms timer runs
again and again (its timeout is not fair: the call may have none). Of the queue events
the interval is fair and every call of the service is answered, by a value or an error. `EventuallyFinished` is checked
for options that remove a finished job; without them it is false (`LocalStarved`).

## 4. The proofs

Everything below is proved for any finite set of jobs and any messages, workers, polls,
options, registrations, applications, classes and configurations.

**`JobPolicyProofs`.** `VisitOrderIsTotal` and `ComparatorIsConsistent`, by cases on
the comparator; they make "sorted" mean one thing. `SliceTakesTheFirst`: of a finite batch
`slice` gives exactly `min(concurrency, size)` jobs, none of which goes after one it
leaves. The number of jobs ahead of a job is less than the size of the batch
(`RankIsBounded`) and different for different jobs (`RankGrows`), so it is a bijection
from the batch to `0 .. size - 1` (`RanksNumberTheBatch`), and the slice is what it maps
below `concurrency`. `BackoffGrows`: an exponential backoff doubles. No prover here knows
anything of `^`; that `2 ^ (n + 1)` is twice `2 ^ n` is shown by counting the subsets of
`1 .. n + 1` with and without `n + 1` (`PowersDouble`). From these, with the invariant
that a batch is numbered as it is filled (`BatchInv`): `OrderStaysTotal`,
`SliceStaysBest` and `BackoffStaysASeries`, the properties of `JobPolicyCheck` for all
its bounds.

**`LocalDriverProofs`.**
- `TypeCorrect`: `TypeOK` is inductive as it stands.
- `AttemptsAreBounded`: `Spec => []AttemptBound`. Not inductive alone: `starts` must be
  tied to `attempt`. `AInv` adds that a job has at most as many runs as its attempt
  number says, fewer while it is waiting or delayed (it has an attempt left to use), and
  that an unborn job has no runs. Every way back to a startable state (`Retry`,
  `RetryLater`, a listener's retry) raises `attempt`, and `StartJob` requires it not to
  exceed the maximum. No assumption on callers.
- `RunsAreExclusive`: `Spec => []ExclusiveRun` under `ActiveLeftAlone` (no `moveTo` in
  `Calls`, no "active" in `RetryFrom`, no "retry" in `Listeners`). `XInv` adds that a job a poll awaits is
  active and does not exceed its attempts: the loop passes over such a job, so that
  neither `StartJob` nor `FailExceeded` of another poll touches it.
- `GettersHideNothing`: `Spec => []GettersCoverTheMap`, no assumption on callers.
- `BestStartsFirst`: `Spec => BestFirst`, no assumption either. The batch is stale and
  the tests of the loop are fresh, so the argument is about both: a ready job that outranks
  another goes before it (`OutrankingGoesFirst`), hence is in the slice if the other is
  (`SliceHasNoGap`), hence the loop comes to it first and does not pass it over.

**`LocalJobProofs`**, each theorem under what its line of the table in section 3 says:
- `ActiveJobsAreAwaited` (`NoneThrows`): `ActiveIsAwaited` is inductive with the types,
  even where several polls await one job.
- `NoneStartsEarly` (`DelaysLeftAlone`): `DueInv` says that every job that is not delayed
  is due, and that a delayed one has an attempt left. The second half is needed: a loop
  would fail an exceeded job before its time, and a `retry()` could then start it.
- `FinishedStays` (`EndsLeftAlone`): besides `XInv`, a completed job has not exceeded its
  attempts (`DoneInv`), else a loop that meets it would fail it.
- `UnfinishedStay` (moreover `Undisturbed`): what leaves the Map has just finished.
- `ImplementsLifecycle` (`Quiet`): `Spec => LifecycleSpec`, step by step. `CountInv`: a
  job is run as often as its attempt number says, one less before a run; this is the
  abstract count of runs.

**`LocalWaitersProofs`.** `WaitersHearTheEnd`: `SpecW => FailureIsFinal`. A waiter looks
at any time, so the invariant is about all failed jobs: they have used their attempts
(`FailedInv`), whichever branch failed them and however often a `retry()` raised the
number since. The driver's own invariants carry over (`WaitersOnlyLook`: `SpecW => Spec`).

**`OciDriverProofs`.**
- `OciTypeCorrect`.
- `JobsAreKept`: `Spec => []NeverLost`, through every fault. That a job has a message is
  not inductive: of two polls that hold two carriers of one job each might delete what
  the other leaves. `StandInv` says that a poll about to delete a message leaves behind
  one of the job with *more* attempts; so among the messages of a job the one with the
  most is never deleted before the job has an outcome. `HeldInv` relates the attempt
  number in the poll's hands to that of its message.
- `AttemptsAreNotExceeded`: `Spec => []NeverExceeded`, from the same invariant.
- `OnePollPerJob`: `Spec => []OneWorker` under `Calm`: of the faults only failing
  receives and throwing listeners, and these survived (`ErrorsSurvived`: errors are heard
  and nobody calls `close`, or there is no fault). `HeardInv`, that the listeners stay
  attached then, rules out that a `PollFails` is a `ProcessDies`. `HandsInv`: no other poll holds what a poll holds,
  and nobody can receive it; `SingleInv`: of two live messages of one job one is about
  to be deleted by the poll that put the other.

**`OciLifecycleProofs`.** `OciImplementsLifecycle`: `Spec => LifecycleSpec` under
`Reliable`: of the faults only lost answers of `getMessages`, whose 'error' is heard
(`ErrorsSurvived`), no `job.retry()`, and both
removal options set; calls of `getJob`, `remove` and, where nothing fails, `close`, and jobs
that remove themselves are allowed, which is more than the run `OciReliable` explores. Every
other fault, an 'error' nobody hears, and a job that is kept, makes the driver run a job more often than its budget, as
`OciTooManyRuns` shows of the last. A job has no state of its own here: its status is
read off its messages, the polls and its outcomes. `CountInv` relates the attempt number a
message carries to the job's runs: one more than them while it waits or is being put back,
equal while it runs. It rests on `HandsInv` and `SingleInv` of `OnePollPerJob`
(`AloneInHand`, `AloneWaiting`: one message of a job matters at a time). A retry is two
steps of the driver, `RetryLater` and `Requeue`, and one of the abstraction.

**`WorkerLifecycleProofs`.** `LifecycleTypeCorrect`, and `ShutdownStopsAll`:
`ShutdownStopsWorkers` says nothing before the hooks have run, so the invariant follows a
worker from its creation, through any number of applications: it is tracked under a
queue's name, in the explorer's list, forgotten (which a worker that was never tracked
counts as), or closed (`OwnerInv`); a worker closed
with no callback pending stays stopped (`ClosedInv`); a hook that has run has closed what
it owned (`HookInv`). Hooks may run in any order. `CachedQueueIsOwn`: a cached queue has the
`queueId` of its key. `JobsDoNotOutlive`: a job in a local queue is late, or of an
application that failed, or of the running one, which was handed the queue then and, while
it stops, has a hook of the queue still to run (`JobsInv`); a failed application never runs
hooks, so the step to the next one needs only that of one that stopped.

**`QueueEventsProofs`.** `EventsTypeCorrect`, `ClosedStaysSilent` (a closed object has no
handlers and gets none), `ErrorsHeardAreSurvived` (an open object has the handlers of its
class, so that the catch block's emit is heard unless a handler has closed the object), `ShutdownEndsEvents` (a host holds the object of the last registration, and a hook
that has run has closed it).

Only model-checked: liveness (`EventuallyFinished`, `ClosedComesToRest`, `WaiterReturns`,
`EventuallyDisposed`, `EveryWorkerStarts`, `EventuallyReported`), which is beyond the
prover. Every invariant and every action property of the passing runs is proved.

## 5. Where the code differs from what is said of it

Four runs end in a counterexample, each against a quoted line: a duplicate id
replaces the job instead of being ignored (`LocalDuplicateId`); kept failed jobs
starve the ones behind them (`LocalStarved`); a job that failed for good in the OCI
driver is run again and again unless `removeOnFail` is set (`OciTooManyRuns`); an
application closed while a start callback is pending, the `setImmediate` of any worker or
the 500 ms watchdog of the explorer's, leaves a worker polling (`LifecycleShutdown`).

## 6. Not modelled, and why

- Flow producers. `registerFlowProducer` passes the factory an empty Map that nothing
  fills, so `add` of either driver always throws; `registerFlowProducerAsync` provides
  options only. There is no state and no order to check.
- The cache of `QueueClient`s, keyed by `queueId` and region, which hands the first
  registration's endpoint and credentials to a second one of the same OCI queue, and the
  default job options a cached queue keeps: `Wiring` has one of each. `region` has no
  other effect in the code.
- Of the OCI adapters: the shapes of response `getMessages` accepts, metadata that does
  not parse, the cut at 20 messages, receipts that expire with the visibility.
- Errors thrown while modules are defined (`registerQueueAsync` without a factory), which
  come before any state, and classes the explorer refuses: `register` throws half-way
  through the list, a mistake of the program that its first start shows.
- Request-scoped processors (`ContextIdFactory`), the metadata accessor, decorators,
  tokens, interfaces, logger, authentication providers: stateless or run once.
- The demo, an example; what it expects is used as a claim (`LocalDriverClaims`).
