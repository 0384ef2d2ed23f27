---------------------------- MODULE LocalDriver ----------------------------
(***************************************************************************)
(* The in-memory driver: one LocalQueueAdapter, the job objects its `add`  *)
(* created, and the LocalQueueWorkerAdapters that poll it.                 *)
(*                                                                         *)
(* Node runs one callback at a time, so an action is the code between two  *)
(* awaits.  Every tick of a worker's interval starts a poll of its own: it *)
(* fetches all jobs, sorts and cuts them, and awaits the processor of one  *)
(* job after the other, while later ticks start further polls over the     *)
(* same job objects and the application calls the queue and the jobs.      *)
(*                                                                         *)
(* Source: drivers/local/*.ts, drivers/base/*.ts.                          *)
(***************************************************************************)
EXTENDS JobPolicy

CONSTANTS
  Jobs,         \* the job objects the calls of `add` create, one per call
  AutoId,       \* option jobId is absent: `add` makes up a fresh id
  Options,      \* the option records (merged with the defaults) `add` gets
  Workers,      \* the workers created on this queue
  Slots,        \* polls of one worker that may overlap (bound: code has none)
  Concurrency,  \* the worker option, `concurrency || 1`
  Calls,        \* which other calls the application makes, see CallNames
  RetryFrom,    \* the states in which the application calls job.retry()
  AttemptCap,   \* bound on the attempt number retry() is called at
  Listeners     \* what a listener of a worker event may do, see Reactions

None == "none"

CallNames == {"remove", "empty", "clean", "moveTo", "pause", "close"}

Reactions == {"return", "throw", "retry"}

JobStates == {"waiting", "active", "completed", "failed", "delayed"}

ASSUME ConstantsAssumption ==
  /\ None \notin Jobs
  /\ IsFiniteSet(Jobs)
  /\ Concurrency \in Nat \ {0}
  /\ AttemptCap \in Nat
  /\ Calls \subseteq CallNames
  /\ RetryFrom \subseteq JobStates
  /\ Listeners \subseteq Reactions

ASSUME OptionsAssumption ==
  \A op \in Options :
    /\ op.priority \in Nat
    /\ op.lifo \in BOOLEAN
    /\ op.attempts \in Nat               \* 0: the option is absent
    /\ op.delay \in BOOLEAN              \* delay > 0
    /\ op.timeout \in BOOLEAN            \* timeout > 0
    /\ op.backoff \in BackoffOption
    /\ op.removeOnComplete \in RemovalOption
    /\ op.removeOnFail \in RemovalOption

Polls == Workers \X Slots

VARIABLES
  (* the queue *)
  jobs,       \* the job objects the Map holds
  now,        \* the millisecond of the latest `add`
  (* the job objects *)
  state,      \* jobData.state, "unborn" before `add`
  attempt,    \* jobOpts.currentAttempt
  due,        \* Date.now() >= jobOpts.processAfter
  opts,       \* the other stored options
  createdAt,  \* jobOpts.createdAt
  place,      \* the place of the job's entry in the Map's order
  (* the workers *)
  isRunning,  \* _isRunning; the interval exists exactly then
  isPaused,   \* _isPaused
  (* the polls *)
  pc,         \* "idle", "fetched", "running" (awaits a processor), "retried"
              \* (the job is retried, 'failed' not emitted yet) or "next"
  batch,      \* the jobs still to visit; when "fetched", all it fetched
  current,    \* the job a "running" or "retried" poll is at
  (* history, read by no guard *)
  starts      \* how often the processor was called on the job

jobVars    == <<state, attempt, due, opts, createdAt, place>>
workerVars == <<isRunning, isPaused>>
pollVars   == <<pc, batch, current>>
vars       == <<jobs, now, jobVars, workerVars, pollVars, starts>>

Born == {o \in Jobs : state[o] # "unborn"}

IdOf(o, op) == IF op.jobId = AutoId THEN o ELSE op.jobId

Id(o) == IdOf(o, opts[o])

Exceeded(o) == HasExceeded(opts[o].attempts, attempt[o])

(* Mutants of the loop's tests: a due job starts in whatever state it is;  *)
(* a delayed one without another look at the clock; a delayed one never.   *)
StartableWhenDue(o) == due[o]
StartableUnchecked(o) == state[o] \in {"waiting", "delayed"}
StartableWaiting(o) == state[o] = "waiting"

(* The loop starts a waiting job, and a delayed one that is due.           *)
Startable(o) == state[o] = "waiting" \/ (state[o] = "delayed" /\ due[o])

-----------------------------------------------------------------------------
Init ==
  /\ jobs = {}
  /\ now = 0
  /\ state = [o \in Jobs |-> "unborn"]
  /\ attempt = [o \in Jobs |-> 0]
  /\ due = [o \in Jobs |-> FALSE]
  /\ opts = [o \in Jobs |-> None]
  /\ createdAt = [o \in Jobs |-> 0]
  /\ place = [o \in Jobs |-> 0]
  /\ isRunning = [w \in Workers |-> FALSE]
  /\ isPaused = [w \in Workers |-> FALSE]
  /\ pc = [p \in Polls |-> "idle"]
  /\ batch = [p \in Polls |-> {}]
  /\ current = [p \in Polls |-> None]
  /\ starts = [o \in Jobs |-> 0]

-----------------------------------------------------------------------------
(* The queue's methods.                                                    *)

Holders(id) == {x \in jobs : Id(x) = id}

(* LocalQueueAdapter.add at millisecond t.  Map.set on an id the Map holds *)
(* replaces the object and keeps the place of the entry.                   *)
Add(o, op, t) ==
  LET displaced == Holders(IdOf(o, op)) IN
  /\ state[o] = "unborn"
  /\ jobs' = (jobs \ displaced) \union {o}
  /\ now' = t
  /\ state' = [state EXCEPT ![o] = IF op.delay THEN "delayed" ELSE "waiting"]
  /\ attempt' = [attempt EXCEPT ![o] = 1]
  /\ due' = [due EXCEPT ![o] = ~op.delay]
  /\ opts' = [opts EXCEPT ![o] = op]
  /\ createdAt' = [createdAt EXCEPT ![o] = t]
  /\ place' = [place EXCEPT ![o] =
                 IF displaced = {}
                   THEN Cardinality(Born) + 1
                   ELSE place[CHOOSE x \in displaced : TRUE]]
  /\ UNCHANGED <<workerVars, pollVars, starts>>

(* remove(id), and job.remove() and job.discard(), which end in it: what   *)
(* leaves is whatever object the Map holds under the id by then.           *)
Remove(o) ==
  /\ "remove" \in Calls
  /\ o \in Born
  /\ jobs' = jobs \ Holders(Id(o))
  /\ UNCHANGED <<now, jobVars, workerVars, pollVars, starts>>

(* empty, close, removeJobs (whatever its pattern) and obliterate.         *)
Empty ==
  /\ "empty" \in Calls
  /\ jobs' = {}
  /\ UNCHANGED <<now, jobVars, workerVars, pollVars, starts>>

(* clean: of the jobs created before the grace period, in the given state  *)
(* or in any (no type), the first `limit` in the Map's order, or all (0).  *)
Clean(before, type, limit) ==
  LET old == {x \in jobs : createdAt[x] < before /\ state[x] \in type} IN
  /\ "clean" \in Calls
  /\ jobs' = jobs \ {x \in old :
                       \/ limit = 0
                       \/ Cardinality({y \in old : place[y] < place[x]}) < limit}
  /\ UNCHANGED <<now, jobVars, workerVars, pollVars, starts>>

-----------------------------------------------------------------------------
(* The jobs' methods, called by the application or by the worker.          *)

(* The stored time passes: Date.now() reaches processAfter.                *)
DelayElapses(o) ==
  /\ o \in Born /\ ~due[o]
  /\ due' = [due EXCEPT ![o] = TRUE]
  /\ UNCHANGED <<jobs, now, state, attempt, opts, createdAt, place,
                 workerVars, pollVars, starts>>

(* Mutant: a retry that costs no attempt.                                  *)
RetryForFree(o) ==
  /\ state[o] \in RetryFrom
  /\ state' = [state EXCEPT ![o] = "waiting"]
  /\ UNCHANGED <<jobs, now, attempt, due, opts, createdAt, place,
                 workerVars, pollVars, starts>>

(* retry(): no guard on the state, and processAfter stays.                 *)
Retry(o) ==
  /\ state[o] \in RetryFrom
  /\ attempt[o] < AttemptCap
  /\ attempt' = [attempt EXCEPT ![o] = @ + 1]
  /\ state' = [state EXCEPT ![o] = "waiting"]
  /\ UNCHANGED <<jobs, now, due, opts, createdAt, place,
                 workerVars, pollVars, starts>>

(* Mutant: moveToFailed looks at the other option.                         *)
JobsAfterCompletion(o, outcome) ==
  IF ShouldRemove(opts[o].removeOnComplete) THEN jobs \ Holders(Id(o)) ELSE jobs

(* What moveToCompleted and moveToFailed do to the Map.                    *)
JobsAfter(o, outcome) ==
  LET option == IF outcome = "completed" THEN opts[o].removeOnComplete
                                         ELSE opts[o].removeOnFail
  IN  IF ShouldRemove(option) THEN jobs \ Holders(Id(o)) ELSE jobs

Finish(o, outcome) ==
  /\ state' = [state EXCEPT ![o] = outcome]
  /\ jobs' = JobsAfter(o, outcome)

(* The application calls moveToCompleted or moveToFailed itself.           *)
MoveTo(o, outcome) ==
  /\ "moveTo" \in Calls
  /\ o \in Born
  /\ Finish(o, outcome)
  /\ UNCHANGED <<now, attempt, due, opts, createdAt, place,
                 workerVars, pollVars, starts>>

-----------------------------------------------------------------------------
(* The worker's methods.                                                   *)

(* start(): called by setImmediate after createWorker, by the explorer's   *)
(* watchdog and by the application; a running worker ignores it.           *)
Start(w) ==
  /\ ~isRunning[w]
  /\ isRunning' = [isRunning EXCEPT ![w] = TRUE]
  /\ UNCHANGED <<jobs, now, jobVars, isPaused, pollVars, starts>>

(* close(): the interval ends, polls already under way do not.             *)
Close(w) ==
  /\ "close" \in Calls
  /\ isRunning' = [isRunning EXCEPT ![w] = FALSE]
  /\ UNCHANGED <<jobs, now, jobVars, isPaused, pollVars, starts>>

(* pause() and resume(): read by the next tick only.                       *)
SetPaused(w, paused) ==
  /\ "pause" \in Calls
  /\ isPaused' = [isPaused EXCEPT ![w] = paused]
  /\ UNCHANGED <<jobs, now, jobVars, isRunning, pollVars, starts>>

-----------------------------------------------------------------------------
(* A poll.                                                                 *)

(* Mutant: close() leaves the interval behind.                             *)
TickForever(w) ==
  /\ ~isPaused[w]
  /\ \E s \in Slots :
       /\ pc[<<w, s>>] = "idle"
       /\ pc' = [pc EXCEPT ![<<w, s>>] = "fetched"]
       /\ batch' = [batch EXCEPT ![<<w, s>>] = jobs]
  /\ UNCHANGED <<jobs, now, jobVars, workerVars, current, starts>>

(* A tick of the interval calls getJobs() and awaits its answer.           *)
Tick(w) ==
  /\ isRunning[w] /\ ~isPaused[w]
  /\ \E s \in Slots :
       /\ pc[<<w, s>>] = "idle"
       /\ pc' = [pc EXCEPT ![<<w, s>>] = "fetched"]
       /\ batch' = [batch EXCEPT ![<<w, s>>] = jobs]
  /\ UNCHANGED <<jobs, now, jobVars, workerVars, current, starts>>

Key(o) == [priority |-> opts[o].priority, lifo |-> opts[o].lifo,
           createdAt |-> createdAt[o], place |-> place[o]]

Before(a, b) == VisitedBefore(Key(a), Key(b))

(* filterReadyJobs, sortJobsByPriority and slice(0, concurrency).          *)
Selected(fetched) ==
  LET ready == {o \in fetched : due[o]} IN
  {o \in ready : Key(o) \in FirstKeys({Key(x) : x \in ready}, Concurrency)}

(* What the loop of poll p has still to visit.                             *)
ToVisit(p) == IF pc[p] = "fetched" THEN Selected(batch[p]) ELSE batch[p]

(* The jobs the loop does not pass over when it comes to them now.         *)
Stops(p) == {o \in ToVisit(p) : Exceeded(o) \/ Startable(o)}

(* o is the first job the loop of p stops at.                              *)
IsNext(p, o) ==
  /\ pc[p] \in {"fetched", "next"}
  /\ o \in Stops(p)
  /\ \A x \in Stops(p) \ {o} : Before(o, x)

(* The poll goes on behind job o; or it ends (loop done, or an exception   *)
(* thrown by a listener reached the catch around the loop).                *)
Continue(p, o, next) ==
  /\ pc' = [pc EXCEPT ![p] = next]
  /\ batch' = [batch EXCEPT ![p] = {x \in ToVisit(p) : Before(o, x)}]

End(p) ==
  /\ pc' = [pc EXCEPT ![p] = "idle"]
  /\ batch' = [batch EXCEPT ![p] = {}]
  /\ current' = [current EXCEPT ![p] = None]

(* The loop passes over all that is left.                                  *)
LoopEnds(p) ==
  /\ pc[p] \in {"fetched", "next"}
  /\ Stops(p) = {}
  /\ End(p)
  /\ UNCHANGED <<jobs, now, jobVars, workerVars, starts>>

(* A listener of the 'failed' event that calls job.retry() on the job.     *)
ListenerRetries(o) == "retry" \in Listeners /\ attempt[o] < AttemptCap

(* The loop meets a job that has used its attempts, whatever its state:    *)
(* it emits 'failed', then calls moveToFailed.                             *)
FailExceeded(p, o) ==
  /\ IsNext(p, o) /\ Exceeded(o)
  /\ Continue(p, o, "next")
  /\ Finish(o, "failed")
  /\ \/ attempt' = attempt
     \/ ListenerRetries(o) /\ attempt' = [attempt EXCEPT ![o] = @ + 1]
  /\ UNCHANGED <<now, due, opts, createdAt, place, workerVars, current, starts>>

(* Mutant: the job is not marked active.                                   *)
StartJobUnmarked(p, o) ==
  /\ IsNext(p, o) /\ ~Exceeded(o)
  /\ Continue(p, o, "running")
  /\ current' = [current EXCEPT ![p] = o]
  /\ starts' = [starts EXCEPT ![o] = @ + 1]
  /\ UNCHANGED <<jobs, now, state, attempt, due, opts, createdAt, place, workerVars>>

(* The loop starts a job: it is active, 'active' is emitted, and the       *)
(* processor is called and awaited.                                        *)
StartJob(p, o) ==
  /\ IsNext(p, o) /\ ~Exceeded(o)
  /\ Continue(p, o, "running")
  /\ current' = [current EXCEPT ![p] = o]
  /\ state' = [state EXCEPT ![o] = "active"]
  /\ starts' = [starts EXCEPT ![o] = @ + 1]
  /\ UNCHANGED <<jobs, now, attempt, due, opts, createdAt, place, workerVars>>

(* A listener of the 'failed' (exceeded) or 'active' event throws: neither *)
(* emit is inside the inner try, so the poll ends there.  The catch around *)
(* the loop emits 'error': without a listener of that event the process    *)
(* ends, and with it this queue, which is a behavior that takes no further *)
(* step.                                                                   *)
ListenerStopsLoop(p, o) ==
  /\ "throw" \in Listeners
  /\ IsNext(p, o)
  /\ IF Exceeded(o) THEN UNCHANGED state
                    ELSE state' = [state EXCEPT ![o] = "active"]
  /\ End(p)
  /\ UNCHANGED <<jobs, now, attempt, due, opts, createdAt, place,
                 workerVars, starts>>

(* Mutant: the poll does not let go of the job.                            *)
CompleteAndHold(p) ==
  /\ pc[p] = "running"
  /\ Finish(current[p], "completed")
  /\ pc' = [pc EXCEPT ![p] = "next"]
  /\ UNCHANGED <<now, attempt, due, opts, createdAt, place, workerVars,
                 batch, current, starts>>

(* The awaited processor resolves: moveToCompleted, 'completed'.  What a   *)
(* listener throws here is swallowed.                                      *)
Complete(p) ==
  /\ pc[p] = "running"
  /\ Finish(current[p], "completed")
  /\ pc' = [pc EXCEPT ![p] = "next"]
  /\ current' = [current EXCEPT ![p] = None]
  /\ UNCHANGED <<now, attempt, due, opts, createdAt, place, workerVars,
                 batch, starts>>

(* After 'failed' the poll goes on, unless a listener threw.               *)
GoOnOrAbort(p) ==
  /\ current' = [current EXCEPT ![p] = None]
  /\ \/ pc' = [pc EXCEPT ![p] = "next"] /\ UNCHANGED batch
     \/ /\ "throw" \in Listeners
        /\ pc' = [pc EXCEPT ![p] = "idle"]
        /\ batch' = [batch EXCEPT ![p] = {}]

(* Mutant: the job leaves the queue, as in a driver that puts it back.     *)
RetryLaterRemoved(p, o) ==
  /\ MayRetry(opts[o].attempts, attempt[o])
  /\ due' = [due EXCEPT ![o] = FALSE]
  /\ attempt' = [attempt EXCEPT ![o] = @ + 1]
  /\ state' = [state EXCEPT ![o] = "delayed"]
  /\ jobs' = jobs \ Holders(Id(o))
  /\ pc' = [pc EXCEPT ![p] = "retried"]
  /\ UNCHANGED <<batch, current>>

(* The catch block, another attempt allowed: handleJobRetry, which is      *)
(* awaited ...                                                             *)
RetryLater(p, o) ==
  LET wait == BackoffDelay(opts[o].backoff, attempt[o]) IN
  /\ MayRetry(opts[o].attempts, attempt[o])
  /\ due' = [due EXCEPT ![o] = wait = 0]
  /\ attempt' = [attempt EXCEPT ![o] = @ + 1]
  /\ state' = [state EXCEPT ![o] = "delayed"]
  /\ pc' = [pc EXCEPT ![p] = "retried"]
  /\ UNCHANGED <<jobs, batch, current>>

(* ... then 'failed', whose listener may call retry(), on a job another    *)
(* poll may have started by then.                                          *)
EmitFailed(p, o) ==
  /\ pc[p] = "retried" /\ o = current[p]
  /\ GoOnOrAbort(p)
  /\ \/ UNCHANGED <<state, attempt>>
     \/ /\ ListenerRetries(o)
        /\ attempt' = [attempt EXCEPT ![o] = @ + 1]
        /\ state' = [state EXCEPT ![o] = "waiting"]
  /\ UNCHANGED <<jobs, now, due, opts, createdAt, place, workerVars, starts>>

(* The catch block, no attempt left or none configured: 'failed', whose    *)
(* listener may call retry(), then moveToFailed, which overwrites it.      *)
GiveUp(p, o) ==
  /\ ~MayRetry(opts[o].attempts, attempt[o])
  /\ UNCHANGED due
  /\ \/ /\ Finish(o, "failed")
        /\ \/ attempt' = attempt
           \/ ListenerRetries(o) /\ attempt' = [attempt EXCEPT ![o] = @ + 1]
        /\ pc' = [pc EXCEPT ![p] = "next"]
        /\ current' = [current EXCEPT ![p] = None]
        /\ UNCHANGED batch
     \/ /\ "throw" \in Listeners
        /\ End(p)
        /\ UNCHANGED <<jobs, state, attempt>>

(* processJobWithTimeout rejects: the processor did, or ...                *)
ProcessorRejects(p) ==
  /\ pc[p] = "running"
  /\ RetryLater(p, current[p]) \/ GiveUp(p, current[p])
  /\ UNCHANGED <<now, opts, createdAt, place, workerVars, starts>>

(* Mutant: the poll gives the job up and leaves it as it is.               *)
TimeoutForgotten(p) ==
  /\ pc[p] = "running"
  /\ opts[current[p]].timeout
  /\ GoOnOrAbort(p)
  /\ UNCHANGED <<jobs, now, jobVars, workerVars, starts>>

(* ... the timer won the race.  The processor goes on, and nothing waits   *)
(* for it any more.                                                        *)
TimeoutFires(p) ==
  /\ pc[p] = "running"
  /\ opts[current[p]].timeout
  /\ RetryLater(p, current[p]) \/ GiveUp(p, current[p])
  /\ UNCHANGED <<now, opts, createdAt, place, workerVars, starts>>

-----------------------------------------------------------------------------
Application ==
  \/ \E o \in Jobs, op \in Options, t \in {now, now + 1} : Add(o, op, t)
  \/ \E o \in Jobs : Remove(o) \/ Retry(o)
  \/ \E o \in Jobs, outcome \in {"completed", "failed"} : MoveTo(o, outcome)
  \/ Empty
  \/ \E before \in 1 .. now + 1, limit \in {0, 1},
        type \in {JobStates} \union {{s} : s \in JobStates} :
       Clean(before, type, limit)
  \/ \E w \in Workers : Close(w) \/ SetPaused(w, TRUE) \/ SetPaused(w, FALSE)

LoopStep(p) ==
  \/ LoopEnds(p)
  \/ \E o \in Jobs :
       FailExceeded(p, o) \/ StartJob(p, o) \/ ListenerStopsLoop(p, o) \/ EmitFailed(p, o)

Settle(p) == Complete(p) \/ ProcessorRejects(p) \/ TimeoutFires(p)

Next ==
  \/ Application
  \/ \E o \in Jobs : DelayElapses(o)
  \/ \E w \in Workers : Start(w) \/ Tick(w)
  \/ \E p \in Polls : LoopStep(p) \/ Settle(p)

Spec == Init /\ [][Next]_vars

(* Fairness.  The event loop runs every callback that is ready, and a      *)
(* processor settles, or its job has a timeout ...                         *)
PollFairness == \A p \in Polls : WF_vars(LoopStep(p)) /\ WF_vars(Settle(p))

(* ... the interval of a running worker keeps ticking, time passes.        *)
(* Nothing forces anybody to start a worker.                               *)
Fairness ==
  /\ PollFairness
  /\ \A w \in Workers : WF_vars(Tick(w))
  /\ \A o \in Jobs : WF_vars(DelayElapses(o))

FairSpec == Spec /\ Fairness

-----------------------------------------------------------------------------
(* The type invariant.                                                     *)
TypeOK ==
  /\ jobs \subseteq Born
  /\ now \in Nat
  /\ state \in [Jobs -> JobStates \union {"unborn"}]
  /\ attempt \in [Jobs -> Nat]
  /\ due \in [Jobs -> BOOLEAN]
  /\ DOMAIN opts = Jobs
  /\ \A o \in Born : opts[o] \in Options
  /\ createdAt \in [Jobs -> Nat]
  /\ place \in [Jobs -> Nat]
  /\ isRunning \in [Workers -> BOOLEAN]
  /\ isPaused \in [Workers -> BOOLEAN]
  /\ pc \in [Polls -> {"idle", "fetched", "running", "retried", "next"}]
  /\ batch \in [Polls -> SUBSET Born]
  /\ current \in [Polls -> Born \union {None}]
  /\ \A p \in Polls : pc[p] \in {"running", "retried"} <=> current[p] # None
  /\ starts \in [Jobs -> Nat]

(* The processor is never called on a job more often than its option       *)
(* `attempts` says, however polls overlap and whatever is called on the    *)
(* job meanwhile: every way back to a startable state costs an attempt.    *)
AttemptBound ==
  \A o \in Born : opts[o].attempts > 0 => starts[o] <= opts[o].attempts

(* Overlapping polls, of one worker or of several, never await the         *)
(* processor of the same job, as long as nobody moves an active job.       *)
ExclusiveRun ==
  \A p, q \in Polls :
    pc[p] = "running" /\ pc[q] = "running" /\ current[p] = current[q] => p = q

(* A job is active only while some poll awaits its processor: no job is    *)
(* left behind in a state the loop passes over.  (A throwing listener      *)
(* leaves one behind.)                                                     *)
ActiveIsAwaited ==
  \A o \in Born :
    state[o] = "active" => \E p \in Polls : pc[p] = "running" /\ current[p] = o

(* A job that still has to run is in the Map, where the next poll finds    *)
(* it: no completion or failure of another job takes it out.               *)
UnfinishedKept ==
  \A o \in Born : state[o] \in {"waiting", "delayed", "active"} => o \in jobs

(* getWaiting, getActive, getDelayed, getCompleted and getFailed.          *)
InState(s) == {o \in jobs : state[o] = s}
GetCompleted == {o \in InState("completed") : ~ShouldRemove(opts[o].removeOnComplete)}
GetFailed == {o \in InState("failed") : ~ShouldRemove(opts[o].removeOnFail)}

(* Every job in the Map is counted by one of the five getters: the         *)
(* getters' own filter on the removal options hides nothing, because a job *)
(* to be removed left the Map in the step that finished it.                *)
GettersCoverTheMap ==
  jobs = UNION {InState("waiting"), InState("active"), InState("delayed"),
                GetCompleted, GetFailed}

(* A job that completed or failed stays so: no poll that fetched it        *)
(* earlier, and no late processor, brings it back.                         *)
FinishedIsFinal ==
  [][\A o \in Born : state[o] \in {"completed", "failed"} => state'[o] = state[o]]_vars

(* The processor is never called before the job's delay or backoff is      *)
(* over, not even by a poll that fetched the job before its last failure.  *)
NeverEarly ==
  [][\A o \in Jobs : starts'[o] # starts[o] => due[o]]_vars

(* A fresh poll starts, of the jobs it fetched that are ready, one of the  *)
(* best priority; among equals a lifo job goes first, the newest of them,  *)
(* and without lifo the oldest.                                            *)
Outranks(x, o) ==
  \/ opts[x].priority < opts[o].priority
  \/ /\ opts[x].priority = opts[o].priority
     /\ IF opts[o].lifo THEN opts[x].lifo /\ createdAt[x] > createdAt[o]
                        ELSE opts[x].lifo \/ createdAt[x] < createdAt[o]

BestFirst ==
  [][\A p \in Polls :
       pc[p] = "fetched" /\ pc'[p] = "running" =>
         \A x \in batch[p] :
           due[x] /\ state[x] \in {"waiting", "delayed"}
             => ~Outranks(x, current'[p])]_vars

(* Every job that was added is completed or failed in the end, if some     *)
(* worker is left running and not paused, whatever was closed and paused   *)
(* before.                                                                 *)
Works(w) == isRunning[w] /\ ~isPaused[w]

EventuallyFinished ==
  (\E w \in Workers : <>[]Works(w)) =>
    \A o \in Jobs : o \in Born ~> state[o] \in {"completed", "failed"}

(* After close() the polls under way come to rest, however they overlap,   *)
(* unless the worker is started again: they fetch nothing more.            *)
ClosedComesToRest ==
  \A w \in Workers :
    ~isRunning[w] ~> isRunning[w] \/ \A s \in Slots : pc[<<w, s>>] = "idle"

-----------------------------------------------------------------------------
(* What the driver promises about each job: see JobLifecycle.              *)
StatusOf(o) ==
  CASE state[o] = "unborn"                 -> "new"
    [] state[o] \in {"waiting", "delayed"} -> "ready"
    [] state[o] = "active"                 -> "running"
    [] OTHER                               -> state[o]

BudgetOf(o) ==
  IF o \in Born /\ opts[o].attempts > 0 THEN opts[o].attempts ELSE 1

Lifecycle == INSTANCE JobLifecycle WITH
  status <- [o \in Jobs |-> StatusOf(o)],
  runs   <- starts,
  budget <- [o \in Jobs |-> BudgetOf(o)]

LifecycleSpec == Lifecycle!Spec
=============================================================================
