----------------------------- MODULE OciDriver -----------------------------
(***************************************************************************)
(* The OCI driver: OciQueueAdapter, OciQueueJobAdapter and the polls of    *)
(* OciQueueWorkerAdapter over one queue of the OCI Queue service.          *)
(*                                                                         *)
(* A job is a message of the service.  A message that was delivered is     *)
(* hidden for 30 seconds and then visible again unless it was deleted;     *)
(* that is all the driver has for acknowledging, and a retry is a second   *)
(* message, put before the first is deleted.  Every call to the service is *)
(* awaited and may fail on either side of its effect.                      *)
(*                                                                         *)
(* The service is external: it is modelled by the calls the driver makes.  *)
(* The order of a batch is the business of JobPolicy; here a poll takes    *)
(* the messages in any order.                                              *)
(*                                                                         *)
(* Source: drivers/oci/oci-queue.adapter.ts, oci-queue-job.adapter.ts,     *)
(* oci-queue-worker.adapter.ts, drivers/base/*.ts.                         *)
(***************************************************************************)
EXTENDS JobPolicy

CONSTANTS
  Jobs,         \* what the application adds, one per call of `add`
  Messages,     \* the messages the service may be given (bound on puts)
  Options,      \* the option records (merged with the defaults) `add` gets
  Polls,        \* polls that may overlap, of all workers (bound)
  Concurrency,  \* the worker option, `concurrency || 1`
  Calls,        \* which other calls the application makes, see CallNames
  ErrorsHeard,  \* its listeners on the workers include one for 'error'
  RunCap,       \* where the history variable starts stops counting (bound)
  Faults        \* what may go wrong, see FaultNames

None == "none"

CallNames == {"peek", "remove", "retry", "close"}

(* "late": a message outlives its 30 seconds while a poll still holds it.  *)
FaultNames == {"get", "put", "delete", "late", "crash", "throw"}

Outcomes == {"completed", "failed", "removed"}

ASSUME ConstantsAssumption ==
  /\ None \notin Jobs \union Messages
  /\ Concurrency \in Nat \ {0}
  /\ RunCap \in Nat
  /\ Calls \subseteq CallNames
  /\ ErrorsHeard \in BOOLEAN
  /\ Faults \subseteq FaultNames

ASSUME OptionsAssumption ==
  \A op \in Options :
    /\ op.attempts \in Nat               \* 0: the option is absent
    /\ op.delay \in BOOLEAN              \* delay > 0
    /\ op.backoff \in BackoffOption
    /\ op.removeOnComplete \in RemovalOption
    /\ op.removeOnFail \in RemovalOption

VARIABLES
  (* the service *)
  status,     \* of a message: "unsent", "visible", "hidden" or "deleted"
  (* the messages' metadata, written by add and never changed *)
  jobOf,      \* which job the message is for
  attempt,    \* _jobOpts.currentAttempt
  due,        \* Date.now() >= _jobOpts.processAfter
  opts,       \* the other options; a retry hands them on
  (* the workers *)
  isRunning,  \* the interval exists (and is not paused)
  listening,  \* the application's listeners are attached
  (* the application *)
  removing,   \* the message a call of remove is about to delete, or None
  (* the polls *)
  pc,         \* "idle", "fetched", "running", "putting", "deleting", "next"
  batch,      \* the messages still to visit; when "fetched", all delivered
  current,    \* the message of the job in hand
  held,       \* currentAttempt of the job object in hand
  (* history, read by no guard *)
  starts,     \* how often the processor was called for the job, up to RunCap
  outcomes    \* how the driver disposed of the job: subset of Outcomes

messageVars == <<jobOf, attempt, due, opts>>
pollVars    == <<pc, batch, current, held>>
workerVars  == <<isRunning, listening>>
history     == <<starts, outcomes>>
vars        == <<status, messageVars, workerVars, removing, pollVars, history>>

InQueue == {m \in Messages : status[m] \in {"visible", "hidden"}}
Visible == {m \in Messages : status[m] = "visible"}
Born    == {j \in Jobs : \E m \in Messages : jobOf[m] = j}
HeldBy(p) == batch[p] \union ({current[p]} \ {None})

Init ==
  /\ status = [m \in Messages |-> "unsent"]
  /\ jobOf = [m \in Messages |-> None]
  /\ attempt = [m \in Messages |-> 0]
  /\ due = [m \in Messages |-> FALSE]
  /\ opts = [j \in Jobs |-> None]
  /\ isRunning = FALSE
  /\ listening = TRUE
  /\ removing = None
  /\ pc = [p \in Polls |-> "idle"]
  /\ batch = [p \in Polls |-> {}]
  /\ current = [p \in Polls |-> None]
  /\ held = [p \in Polls |-> 0]
  /\ starts = [j \in Jobs |-> 0]
  /\ outcomes = [j \in Jobs |-> {}]

-----------------------------------------------------------------------------
(* The service, as the driver's calls use it.                              *)

(* putMessages with one message.                                           *)
Put(m, j, n, ready) ==
  /\ status[m] = "unsent"
  /\ status' = [status EXCEPT ![m] = "visible"]
  /\ jobOf' = [jobOf EXCEPT ![m] = j]
  /\ attempt' = [attempt EXCEPT ![m] = n]
  /\ due' = [due EXCEPT ![m] = ready]

(* What getMessages delivers is hidden from everybody for 30 seconds.      *)
Deliver(ms) ==
  status' = [m \in Messages |-> IF m \in ms THEN "hidden" ELSE status[m]]

Delete(m) == status' = [status EXCEPT ![m] = "deleted"]

(* The 30 seconds are over.                                                *)
Reappear(m) ==
  /\ status[m] = "hidden"
  /\ \/ "late" \in Faults
     \/ m # removing /\ \A p \in Polls : m \notin HeldBy(p)
  /\ status' = [status EXCEPT ![m] = "visible"]
  /\ UNCHANGED <<messageVars, workerVars, removing, pollVars, history>>

(* Date.now() reaches processAfter: only the driver looks at it.           *)
DelayElapses(m) ==
  /\ status[m] # "unsent" /\ ~due[m]
  /\ due' = [due EXCEPT ![m] = TRUE]
  /\ UNCHANGED <<status, jobOf, attempt, opts, workerVars, removing, pollVars, history>>

-----------------------------------------------------------------------------
(* The application.                                                        *)

(* queue.add.  (A put that fails leaves no job; one that fails after its   *)
(* effect leaves the same message.)                                        *)
Add(j, op, m) ==
  /\ j \notin Born
  /\ Put(m, j, 1, ~op.delay)
  /\ opts' = [opts EXCEPT ![j] = op]
  /\ UNCHANGED <<workerVars, removing, pollVars, history>>

(* getJob, getJobs, getWaiting, getActive: each is a getMessages.          *)
Peek ==
  /\ "peek" \in Calls
  /\ Deliver(Visible)
  /\ UNCHANGED <<messageVars, workerVars, removing, pollVars, history>>

(* queue.remove(id), of a job it can see: getJob is awaited first, ...     *)
Remove(m) ==
  /\ "remove" \in Calls
  /\ removing = None
  /\ m \in Visible
  /\ Deliver(Visible)
  /\ removing' = m
  /\ UNCHANGED <<messageVars, workerVars, pollVars, history>>

(* ... or a processor calls job.remove() or job.discard() on its job, ...  *)
RemoveOwn(p) ==
  /\ "remove" \in Calls
  /\ removing = None
  /\ pc[p] = "running"
  /\ removing' = current[p]
  /\ UNCHANGED <<status, messageVars, workerVars, pollVars, history>>

(* ... then deleteMessage, whose failure is swallowed.                     *)
RemoveReturns ==
  /\ removing # None
  /\ removing' = None
  /\ \/ /\ Delete(removing)
        /\ outcomes' = [outcomes EXCEPT ![jobOf[removing]] = @ \union {"removed"}]
     \/ "delete" \in Faults /\ UNCHANGED <<status, outcomes>>
  /\ UNCHANGED <<messageVars, workerVars, pollVars, starts>>

(* A processor calls job.retry() on its job: a number in memory grows.     *)
Retry(p) ==
  /\ "retry" \in Calls
  /\ pc[p] = "running"
  /\ held[p] <= opts[jobOf[current[p]]].attempts
  /\ held' = [held EXCEPT ![p] = @ + 1]
  /\ UNCHANGED <<status, messageVars, workerVars, removing, pc, batch, current, history>>

(* start() and close() of the workers, which drops their listeners; the    *)
(* application may attach them again.                                      *)
Start ==
  /\ ~isRunning
  /\ isRunning' = TRUE
  /\ UNCHANGED <<status, messageVars, listening, removing, pollVars, history>>

Close ==
  /\ "close" \in Calls
  /\ isRunning' = FALSE
  /\ listening' = FALSE
  /\ UNCHANGED <<status, messageVars, removing, pollVars, history>>

Listen ==
  /\ ~listening
  /\ listening' = TRUE
  /\ UNCHANGED <<status, messageVars, isRunning, removing, pollVars, history>>

-----------------------------------------------------------------------------
(* A poll.                                                                 *)

(* What a poll that ends leaves behind.                                    *)
End(p) ==
  /\ pc' = [pc EXCEPT ![p] = "idle"]
  /\ batch' = [batch EXCEPT ![p] = {}]
  /\ current' = [current EXCEPT ![p] = None]
  /\ held' = [held EXCEPT ![p] = 0]

(* The process dies and is started again: its polls are gone.              *)
ProcessDies ==
  /\ isRunning' = FALSE
  /\ listening' = TRUE
  /\ removing' = None
  /\ pc' = [p \in Polls |-> "idle"]
  /\ batch' = [p \in Polls |-> {}]
  /\ current' = [p \in Polls |-> None]
  /\ held' = [p \in Polls |-> 0]

(* An exception reaches the catch around the loop, which emits 'error'.    *)
(* Nobody awaits the callback of the interval: without a listener the      *)
(* emit throws out of it, and the process dies of the rejection.           *)
PollFails(p) ==
  IF listening /\ ErrorsHeard
    THEN End(p) /\ UNCHANGED <<workerVars, removing>>
    ELSE ProcessDies

(* Mutant: the poll does not let go of the job.                            *)
DoneAndHold(p) ==
  /\ pc' = [pc EXCEPT ![p] = "next"]
  /\ UNCHANGED <<batch, current, held>>

(* The poll awaits something for the job in hand, or is done with it.      *)
Await(p, step) == pc' = [pc EXCEPT ![p] = step] /\ UNCHANGED <<batch, current, held>>

DoneWithJob(p) ==
  /\ pc' = [pc EXCEPT ![p] = "next"]
  /\ current' = [current EXCEPT ![p] = None]
  /\ held' = [held EXCEPT ![p] = 0]
  /\ UNCHANGED batch

(* A tick of the interval: getWaiting() delivers what is visible.          *)
Fetch(p) ==
  /\ isRunning
  /\ pc[p] = "idle"
  /\ Deliver(Visible)
  /\ pc' = [pc EXCEPT ![p] = "fetched"]
  /\ batch' = [batch EXCEPT ![p] = Visible]
  /\ UNCHANGED <<messageVars, workerVars, removing, current, held, history>>

(* The call fails: its messages are hidden, and no poll has them.  (If it  *)
(* fails without its effect they are visible again at once.)               *)
FetchFails(p) ==
  /\ "get" \in Faults
  /\ pc[p] = "fetched"
  /\ PollFails(p)
  /\ UNCHANGED <<status, messageVars, history>>

(* filterReadyJobs, sortJobsByPriority, slice(0, concurrency).             *)
Select(p) ==
  LET ready == {m \in batch[p] : due[m]} IN
  /\ pc[p] = "fetched"
  /\ \E taken \in SUBSET ready :
       /\ Cardinality(taken) =
            IF Cardinality(ready) < Concurrency THEN Cardinality(ready)
                                                ELSE Concurrency
       /\ batch' = [batch EXCEPT ![p] = taken]
  /\ pc' = [pc EXCEPT ![p] = "next"]
  /\ UNCHANGED <<status, messageVars, workerVars, removing, current, held, history>>

LoopEnds(p) ==
  /\ pc[p] = "next" /\ batch[p] = {}
  /\ End(p)
  /\ UNCHANGED <<status, messageVars, workerVars, removing, history>>

Exceeded(m) == HasExceeded(opts[jobOf[m]].attempts, attempt[m])

(* The loop takes a message and calls the processor.  (Its branch for a    *)
(* message past its attempts is never entered: see NeverExceeded.)         *)
StartJob(p, m) ==
  /\ pc[p] = "next"
  /\ m \in batch[p] /\ ~Exceeded(m)
  /\ pc' = [pc EXCEPT ![p] = "running"]
  /\ batch' = [batch EXCEPT ![p] = @ \ {m}]
  /\ current' = [current EXCEPT ![p] = m]
  /\ held' = [held EXCEPT ![p] = attempt[m]]
  /\ starts' = [starts EXCEPT ![jobOf[m]] = IF @ < RunCap THEN @ + 1 ELSE @]
  /\ UNCHANGED <<status, messageVars, workerVars, removing, outcomes>>

(* moveToCompleted and moveToFailed: the message is deleted, or stays and  *)
(* will be visible again.                                                  *)
Dispose(p, m, outcome) ==
  LET option == IF outcome = "completed" THEN opts[jobOf[m]].removeOnComplete
                                         ELSE opts[jobOf[m]].removeOnFail
  IN  /\ outcomes' = [outcomes EXCEPT ![jobOf[m]] = @ \union {outcome}]
      /\ IF ShouldRemove(option) THEN Await(p, "deleting") ELSE DoneWithJob(p)

(* The processor resolves.                                                 *)
Complete(p) ==
  /\ pc[p] = "running"
  /\ Dispose(p, current[p], "completed")
  /\ UNCHANGED <<status, messageVars, workerVars, removing, starts>>

(* Mutant: the number of the job object stays.                             *)
RetryLaterUncounted(p) ==
  /\ pc[p] = "running"
  /\ MayRetry(opts[jobOf[current[p]]].attempts, held[p])
  /\ pc' = [pc EXCEPT ![p] = "putting"]
  /\ UNCHANGED <<status, messageVars, workerVars, removing, batch, current, held, history>>

(* The processor rejects or times out, and an attempt is left: the number  *)
(* of the job object grows, and the retry is put.                          *)
RetryLater(p) ==
  /\ pc[p] = "running"
  /\ MayRetry(opts[jobOf[current[p]]].attempts, held[p])
  /\ pc' = [pc EXCEPT ![p] = "putting"]
  /\ held' = [held EXCEPT ![p] = @ + 1]
  /\ UNCHANGED <<status, messageVars, workerVars, removing, batch, current, history>>

(* Mutant: nothing happens to a job without attempts.                      *)
GiveUpSilently(p) ==
  /\ pc[p] = "running"
  /\ ~MayRetry(opts[jobOf[current[p]]].attempts, held[p])
  /\ DoneWithJob(p)
  /\ UNCHANGED <<status, messageVars, workerVars, removing, history>>

(* ... and none is left.                                                   *)
GiveUp(p) ==
  /\ pc[p] = "running"
  /\ ~MayRetry(opts[jobOf[current[p]]].attempts, held[p])
  /\ Dispose(p, current[p], "failed")
  /\ UNCHANGED <<status, messageVars, workerVars, removing, starts>>

(* The put of handleJobRetry, a new message with the next attempt ...      *)
PutRetry(p, m) ==
  LET j == jobOf[current[p]]
      wait == BackoffDelay(opts[j].backoff, held[p] - 1) IN
  /\ pc[p] = "putting"
  /\ Put(m, j, held[p], wait = 0)
  /\ UNCHANGED <<opts, history>>

(* Mutant: the first message is not deleted.                               *)
RequeueOnly(p, m) ==
  PutRetry(p, m) /\ DoneWithJob(p) /\ UNCHANGED <<workerVars, removing>>

(* ... succeeds, and the first message is to be deleted ...                *)
Requeue(p, m) ==
  PutRetry(p, m) /\ Await(p, "deleting") /\ UNCHANGED <<workerVars, removing>>

(* Mutant: the failure is swallowed, and the first message is deleted.     *)
RequeueFailsUnnoticed(p) ==
  /\ "put" \in Faults
  /\ pc[p] = "putting"
  /\ Await(p, "deleting")
  /\ UNCHANGED <<status, messageVars, workerVars, removing, history>>

(* ... or fails, with or without its effect.                               *)
RequeueFails(p) ==
  /\ "put" \in Faults
  /\ pc[p] = "putting"
  /\ \/ \E m \in Messages : PutRetry(p, m)
     \/ UNCHANGED <<status, messageVars, history>>
  /\ PollFails(p)

(* remove(): deleteMessage; whatever it answers, the loop goes on.         *)
DeleteReturns(p) ==
  /\ pc[p] = "deleting"
  /\ \/ Delete(current[p])
     \/ "delete" \in Faults /\ UNCHANGED status
  /\ DoneWithJob(p)
  /\ UNCHANGED <<messageVars, workerVars, removing, history>>

(* A listener throws: at 'active', at 'failed' after a retry (both between *)
(* two jobs of the loop), or at 'failed' before moveToFailed.  It may have *)
(* closed the worker before.                                               *)
ListenerThrows(p) ==
  /\ "throw" \in Faults
  /\ listening
  /\ \/ pc[p] = "next"
     \/ pc[p] = "running" /\ ~MayRetry(opts[jobOf[current[p]]].attempts, held[p])
  /\ \/ PollFails(p)
     \/ "close" \in Calls /\ ProcessDies
  /\ UNCHANGED <<status, messageVars, history>>

Crash ==
  /\ "crash" \in Faults
  /\ \E p \in Polls : pc[p] # "idle"
  /\ ProcessDies
  /\ UNCHANGED <<status, messageVars, history>>

-----------------------------------------------------------------------------
Application ==
  \/ \E j \in Jobs, op \in Options, m \in Messages : Add(j, op, m)
  \/ Peek
  \/ \E m \in Messages : Remove(m)
  \/ RemoveReturns
  \/ \E p \in Polls : Retry(p) \/ RemoveOwn(p)
  \/ Start \/ Close \/ Listen

Service == \E m \in Messages : Reappear(m) \/ DelayElapses(m)

LoopStep(p) ==
  \/ Select(p) \/ LoopEnds(p)
  \/ \E m \in Messages : StartJob(p, m) \/ Requeue(p, m)
  \/ DeleteReturns(p) \/ RequeueFails(p)

Settle(p) == Complete(p) \/ RetryLater(p) \/ GiveUp(p) \/ ListenerThrows(p)

Next ==
  \/ Application \/ Service \/ Crash
  \/ \E p \in Polls : Fetch(p) \/ FetchFails(p) \/ LoopStep(p) \/ Settle(p)

Spec == Init /\ [][Next]_vars

(* Fairness.  The interval of the running workers keeps ticking, calls to  *)
(* the service return, processors settle, time passes.                     *)
Fairness ==
  /\ WF_vars(Start) /\ WF_vars(RemoveReturns)
  /\ \A p \in Polls : WF_vars(Fetch(p)) /\ WF_vars(LoopStep(p)) /\ WF_vars(Settle(p))
  /\ \A m \in Messages : WF_vars(Reappear(m)) /\ WF_vars(DelayElapses(m))

FairSpec == Spec /\ Fairness

-----------------------------------------------------------------------------
(* The type invariant.                                                     *)
TypeOK ==
  /\ status \in [Messages -> {"unsent", "visible", "hidden", "deleted"}]
  /\ jobOf \in [Messages -> Jobs \union {None}]
  /\ \A m \in Messages : status[m] = "unsent" <=> jobOf[m] = None
  /\ attempt \in [Messages -> Nat]
  /\ due \in [Messages -> BOOLEAN]
  /\ DOMAIN opts = Jobs
  /\ \A j \in Born : opts[j] \in Options
  /\ isRunning \in BOOLEAN /\ listening \in BOOLEAN
  /\ removing \in {m \in Messages : status[m] # "unsent"} \union {None}
  /\ pc \in [Polls -> {"idle", "fetched", "running", "putting", "deleting", "next"}]
  /\ batch \in [Polls -> SUBSET {m \in Messages : status[m] # "unsent"}]
  /\ \A p \in Polls :
       IF pc[p] \in {"running", "putting", "deleting"}
         THEN current[p] \in Messages /\ jobOf[current[p]] # None
         ELSE current[p] = None
  /\ DOMAIN current = Polls
  /\ held \in [Polls -> Nat]
  /\ starts \in [Jobs -> Nat]
  /\ outcomes \in [Jobs -> SUBSET Outcomes]

(* A job that was added and not yet disposed of is in the queue, as some   *)
(* message, through crashes, failing calls and duplicate deliveries: a     *)
(* retry is put before the message it replaces is deleted.                 *)
NeverLost ==
  \A j \in Born :
    outcomes[j] = {} => \E m \in InQueue : jobOf[m] = j

(* No message carries more attempts than its job has, so that the loop's   *)
(* branch for exceeded jobs is dead code in this driver.                   *)
NeverExceeded == \A m \in InQueue : ~Exceeded(m)

(* As long as no message outlives its 30 seconds in a poll's hands, no two *)
(* polls work on messages of one job: the retry of a job is not taken up   *)
(* while its first message is anywhere but about to be deleted.            *)
WorkedOnBy(p) ==
  {jobOf[m] : m \in IF pc[p] = "deleting" THEN batch[p] ELSE HeldBy(p)}

OneWorker ==
  \A p, q \in Polls : p # q => WorkedOnBy(p) \intersect WorkedOnBy(q) = {}

(* Every job is disposed of in the end, if its messages are deleted then.  *)
EventuallyDisposed ==
  \A j \in Jobs : j \in Born ~> outcomes[j] # {}

-----------------------------------------------------------------------------
(* What the driver promises about each job: see JobLifecycle.              *)
StatusOf(j) ==
  IF j \notin Born THEN "new"
  ELSE IF "completed" \in outcomes[j] THEN "completed"
  ELSE IF "failed" \in outcomes[j] THEN "failed"
  ELSE IF \E p \in Polls : pc[p] = "running" /\ jobOf[current[p]] = j THEN "running"
  ELSE "ready"

BudgetOf(j) ==
  IF j \in Born /\ opts[j].attempts > 0 THEN opts[j].attempts ELSE 1

Lifecycle == INSTANCE JobLifecycle WITH
  status <- [j \in Jobs |-> StatusOf(j)],
  runs   <- starts,
  budget <- [j \in Jobs |-> BudgetOf(j)]

LifecycleSpec == Lifecycle!Spec
=============================================================================
