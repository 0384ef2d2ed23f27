--------------------------- MODULE LocalJobProofs ---------------------------
(***************************************************************************)
(* Theorems about the jobs of LocalDriver, each under the weakest promise  *)
(* of the application it needs: no job is left behind active, started      *)
(* early or revived, none that must still run leaves the Map, and the      *)
(* driver implements JobLifecycle, for every number of jobs, workers and   *)
(* overlapping polls.                                                      *)
(***************************************************************************)
EXTENDS LocalDriverProofs

-----------------------------------------------------------------------------
(* The steps, by what they do to the jobs and the runs.                    *)

(* Nothing, except that delays end.                                        *)
Idle ==
  /\ UNCHANGED <<state, attempt, opts, starts>>
  /\ \A o \in Jobs : due[o] => due'[o]
  /\ \A p \in Polls :
       /\ pc'[p] = "running" <=> pc[p] = "running"
       /\ pc[p] = "running" => current'[p] = current[p]

(* The run of poll p is over.                                              *)
RunEnds(p) ==
  /\ pc[p] = "running" /\ pc'[p] # "running"
  /\ \A q \in Polls \ {p} : pc'[q] = pc[q] /\ current'[q] = current[q]
  /\ UNCHANGED <<opts, starts>>

Loop(p, o) == FailExceeded(p, o) \/ StartJob(p, o) \/ ListenerStopsLoop(p, o)

(* A listener that hears of a retry calls retry() itself.                  *)
HeardRetry(o) ==
  /\ "retry" \in Listeners
  /\ o \in Born
  /\ state' = [state EXCEPT ![o] = "waiting"]
  /\ \A p \in Polls :
       /\ pc'[p] = "running" <=> pc[p] = "running"
       /\ pc[p] = "running" => current'[p] = current[p]

LEMMA EmitKinds ==
  ASSUME TypeOK, NEW r \in Polls, NEW o \in Jobs, EmitFailed(r, o)
  PROVE  Idle \/ HeardRetry(o)
<1>1. o \in Born
  BY DEF EmitFailed, TypeOK
<1>2. \A p \in Polls : /\ pc'[p] = "running" <=> pc[p] = "running"
                       /\ pc[p] = "running" => current'[p] = current[p]
  BY DEF EmitFailed, GoOnOrAbort, TypeOK
<1>3. UNCHANGED <<due, opts, starts>>
  BY DEF EmitFailed
<1>4. CASE UNCHANGED <<state, attempt>>
  BY <1>2, <1>3, <1>4 DEF Idle
<1>5. CASE ListenerRetries(o) /\ state' = [state EXCEPT ![o] = "waiting"]
  BY <1>1, <1>2, <1>5 DEF ListenerRetries, HeardRetry
<1> QED
  BY <1>4, <1>5 DEF EmitFailed

LEMMA StepKinds ==
  ASSUME TypeOK, [Next]_vars
  PROVE  \/ Idle
         \/ \E o \in Jobs, op \in Options, t \in {now, now + 1} : Add(o, op, t)
         \/ \E o \in Jobs : Retry(o)
         \/ \E o \in Jobs, s \in {"completed", "failed"} : MoveTo(o, s)
         \/ \E p \in Polls, o \in Jobs : Loop(p, o)
         \/ \E o \in Jobs : HeardRetry(o)
         \/ \E p \in Polls : Settle(p)
<1>1. ASSUME UNCHANGED <<jobVars, pollVars, starts>> PROVE Idle
  BY <1>1 DEF Idle, jobVars, pollVars
<1>2. ASSUME NEW o \in Jobs, DelayElapses(o) PROVE Idle
  BY <1>2 DEF DelayElapses, Idle, TypeOK, pollVars
<1>3. ASSUME NEW w \in Workers, Tick(w) PROVE Idle
  <2>1. PICK s \in Slots :
          pc[<<w, s>>] = "idle" /\ pc' = [pc EXCEPT ![<<w, s>>] = "fetched"]
    BY <1>3 DEF Tick
  <2> QED
    BY <1>3, <2>1 DEF Tick, Idle, TypeOK, jobVars
<1>4. ASSUME NEW p \in Polls, LoopEnds(p) PROVE Idle
  BY <1>4 DEF LoopEnds, End, Idle, TypeOK, jobVars
<1>5. ASSUME NEW p \in Polls, LoopStep(p) PROVE Idle \/ \E o \in Jobs : Loop(p, o) \/ HeardRetry(o)
  BY <1>4, <1>5, EmitKinds DEF LoopStep, Loop
<1> QED
  BY <1>1, <1>2, <1>3, <1>5
  DEF Next, Application, Remove, Empty, Clean, Close, SetPaused, Start, vars

LEMMA SettleKinds ==
  ASSUME TypeOK, NEW p \in Polls, Settle(p)
  PROVE  /\ RunEnds(p)
         /\ current[p] \in Born /\ current[p] \in Jobs
         /\ Complete(p) \/ RetryLater(p, current[p]) \/ GiveUp(p, current[p])
<1>1. RunEnds(p)
  BY DEF Settle, Complete, ProcessorRejects, TimeoutFires, RetryLater, GiveUp,
         GoOnOrAbort, End, TypeOK, RunEnds
<1>2. current[p] \in Born
  BY <1>1, CurrentIsBorn DEF RunEnds
<1> QED
  BY <1>1, <1>2 DEF Settle, ProcessorRejects, TimeoutFires, Born

(* A job the loop stops at, and what it was when it did.                   *)
LEMMA LoopKinds ==
  ASSUME TypeOK, NEW p \in Polls, NEW o \in Jobs, Loop(p, o)
  PROVE  /\ o \in Born /\ pc[p] # "running"
         /\ Exceeded(o) \/ Startable(o)
         /\ Born' = Born
         /\ \A x \in Jobs \ {o} : /\ state'[x] = state[x]
                                  /\ attempt'[x] = attempt[x]
         /\ \A q \in Polls \ {p} : pc'[q] = pc[q] /\ current'[q] = current[q]
         /\ UNCHANGED <<due, opts>>
<1>1. IsNext(p, o)
  BY DEF Loop, FailExceeded, StartJob, ListenerStopsLoop
<1>2. o \in Born /\ pc[p] # "running" /\ (Exceeded(o) \/ Startable(o))
  BY <1>1, NextIsBorn DEF IsNext, Stops
<1>3. \A x \in Jobs \ {o} : state'[x] = state[x] /\ attempt'[x] = attempt[x]
  BY DEF Loop, FailExceeded, StartJob, ListenerStopsLoop, Finish, TypeOK
<1>4. state'[o] \in {"failed", "active", state[o]}
  BY DEF Loop, FailExceeded, StartJob, ListenerStopsLoop, Finish, TypeOK
<1>5. Born' = Born
  BY <1>2, <1>3, <1>4 DEF Born
<1>6. \A q \in Polls \ {p} : pc'[q] = pc[q] /\ current'[q] = current[q]
  BY DEF Loop, FailExceeded, StartJob, ListenerStopsLoop, Continue, End, TypeOK
<1> QED
  BY <1>2, <1>3, <1>5, <1>6 DEF Loop, FailExceeded, StartJob, ListenerStopsLoop

(* The end of a run leaves the other jobs alone.                           *)
LEMMA OthersStay ==
  ASSUME TypeOK, NEW p \in Polls, Settle(p)
  PROVE  /\ Born' = Born
         /\ \A x \in Jobs \ {current[p]} :
              state'[x] = state[x] /\ attempt'[x] = attempt[x] /\ due'[x] = due[x]
<1> DEFINE o == current[p]
<1>1. o \in Born /\ o \in Jobs
  BY SettleKinds
<1>2. CASE Complete(p)
  BY <1>1, <1>2 DEF Complete, Finish, TypeOK, Born
<1>3. CASE RetryLater(p, o)
  BY <1>1, <1>3 DEF RetryLater, TypeOK, Born
<1>4. CASE GiveUp(p, o)
  BY <1>1, <1>4 DEF GiveUp, Finish, TypeOK, Born
<1> QED
  BY <1>2, <1>3, <1>4, SettleKinds

LEMMA AddedIsFresh ==
  ASSUME TypeOK, NEW o \in Jobs, NEW op \in Options, NEW t, Add(o, op, t)
  PROVE  /\ Born' = Born \union {o} /\ o \notin Born
         /\ state'[o] \in {"waiting", "delayed"}
         /\ state'[o] = "waiting" => due'[o]
         /\ opts'[o] = op /\ attempt'[o] = 1
         /\ \A x \in Born : /\ x \in Jobs /\ state'[x] = state[x] /\ opts'[x] = opts[x]
                            /\ attempt'[x] = attempt[x] /\ due'[x] = due[x]
         /\ UNCHANGED <<pc, current, starts>>
<1>1. \A x \in Born : x \in Jobs /\ x # o
  BY DEF Add, Born
<1>2. Born' = Born \union {o} /\ o \notin Born
  BY DEF Add, TypeOK, Born
<1> QED
  BY <1>1, <1>2, OptionsAssumption DEF Add, TypeOK, pollVars

LEMMA RetriedStaysBorn ==
  ASSUME TypeOK, NEW o \in Jobs, Retry(o)
  PROVE  /\ o \in Born /\ Born' = Born /\ state[o] \in RetryFrom
         /\ state'[o] = "waiting"
         /\ \A x \in Jobs \ {o} : state'[x] = state[x] /\ attempt'[x] = attempt[x]
         /\ UNCHANGED <<due, opts, starts, pc, current>>
<1>1. o \in Born
  BY ConstantsAssumption DEF Retry, Born, ConstantsAssumption, JobStates
<1> QED
  BY <1>1 DEF Retry, TypeOK, Born, pollVars

LEMMA MovedStaysBorn ==
  ASSUME TypeOK, NEW o \in Jobs, NEW s \in {"completed", "failed"}, MoveTo(o, s)
  PROVE  /\ Born' = Born /\ state'[o] = s
         /\ \A x \in Jobs \ {o} : state'[x] = state[x]
         /\ UNCHANGED <<pc, current>>
  BY DEF MoveTo, Finish, TypeOK, Born, pollVars

-----------------------------------------------------------------------------
(* No job is left active.  A listener that throws leaves one; nothing else *)
(* does, not even retry() or moveToCompleted() on an active job.           *)
NoneThrows == "throw" \notin Listeners

LEMMA SettleKeepsAwaited ==
  ASSUME NoneThrows, TypeOK, ActiveIsAwaited, NEW p \in Polls, Settle(p)
  PROVE  ActiveIsAwaited'
<1> DEFINE o == current[p]
<1>1. RunEnds(p) /\ o \in Jobs /\ Born' = Born
  BY SettleKinds, OthersStay
<1>2. state'[o] # "active"
  <2>1. CASE Complete(p)
    BY <1>1, <2>1 DEF Complete, Finish, TypeOK
  <2>2. CASE RetryLater(p, o)
    BY <1>1, <2>2 DEF RetryLater, TypeOK
  <2>3. CASE GiveUp(p, o)
    BY <1>1, <2>3 DEF GiveUp, Finish, NoneThrows, TypeOK
  <2> QED
    BY <2>1, <2>2, <2>3, SettleKinds
<1>3. ASSUME NEW x \in Born, state'[x] = "active"
      PROVE  \E q \in Polls : pc'[q] = "running" /\ current'[q] = x
  <2>1. x # o /\ x \in Jobs /\ state[x] = "active"
    BY <1>1, <1>2, <1>3, OthersStay DEF Born
  <2>2. PICK q \in Polls : pc[q] = "running" /\ current[q] = x
    BY <2>1 DEF ActiveIsAwaited
  <2> QED
    BY <1>1, <2>1, <2>2 DEF RunEnds
<1> QED
  BY <1>1, <1>3 DEF ActiveIsAwaited

LEMMA LoopKeepsAwaited ==
  ASSUME NoneThrows, TypeOK, ActiveIsAwaited, NEW p \in Polls, NEW o \in Jobs, Loop(p, o)
  PROVE  ActiveIsAwaited'
<1>1. state'[o] = "active" => pc'[p] = "running" /\ current'[p] = o
  BY DEF Loop, FailExceeded, StartJob, ListenerStopsLoop, NoneThrows, Finish, Continue,
         TypeOK
<1>2. ASSUME NEW x \in Born, x # o, state'[x] = "active"
      PROVE  \E q \in Polls : pc'[q] = "running" /\ current'[q] = x
  <2>1. x \in Jobs /\ state[x] = "active"
    BY <1>2, LoopKinds DEF Born
  <2>2. PICK q \in Polls : pc[q] = "running" /\ current[q] = x
    BY <2>1 DEF ActiveIsAwaited
  <2> QED
    BY <2>2, LoopKinds
<1> QED
  BY <1>1, <1>2, LoopKinds DEF ActiveIsAwaited

(* An active job is awaited by a poll, if no listener throws.              *)
THEOREM ActiveJobsAreAwaited ==
  ASSUME NoneThrows
  PROVE  Spec => []ActiveIsAwaited
<1>1. Init => ActiveIsAwaited
  BY DEF Init, ActiveIsAwaited, Born
<1>2. ASSUME TypeOK, ActiveIsAwaited, [Next]_vars PROVE ActiveIsAwaited'
  <2>1. CASE Idle
    BY <1>2, <2>1 DEF Idle, ActiveIsAwaited, Born
  <2>2. ASSUME NEW o \in Jobs, NEW op \in Options, NEW t, Add(o, op, t)
        PROVE  ActiveIsAwaited'
    BY <1>2, <2>2, AddedIsFresh DEF ActiveIsAwaited
  <2>3. ASSUME NEW o \in Jobs, Retry(o) PROVE ActiveIsAwaited'
    BY <1>2, <2>3, RetriedStaysBorn DEF ActiveIsAwaited, Born
  <2>4. ASSUME NEW o \in Jobs, NEW s \in {"completed", "failed"}, MoveTo(o, s)
        PROVE  ActiveIsAwaited'
    BY <1>2, <2>4, MovedStaysBorn DEF ActiveIsAwaited, Born
  <2>5. ASSUME NEW o \in Jobs, HeardRetry(o) PROVE ActiveIsAwaited'
    BY <1>2, <2>5 DEF HeardRetry, ActiveIsAwaited, TypeOK, Born
  <2> QED
    BY <1>2, <2>1, <2>2, <2>3, <2>4, <2>5, StepKinds, LoopKeepsAwaited, SettleKeepsAwaited
<1> QED
  BY <1>1, <1>2, TypeCorrect, PTL DEF Spec

-----------------------------------------------------------------------------
(* No job starts early.  retry() does not clear processAfter, so a delayed *)
(* job must not be retried, by the application or by a listener that hears *)
(* of the failure; any other job that nobody runs may.                     *)
DelaysLeftAlone == ActiveLeftAlone /\ "delayed" \notin RetryFrom

(* Only a delayed job has a time ahead of it, and it has an attempt left,  *)
(* so that no loop fails it meanwhile.                                     *)
Timely(o) == IF state[o] = "delayed" THEN ~Exceeded(o) ELSE due[o]

DueInv == \A o \in Born : Timely(o)

(* A step that leaves what a job is and has used leaves it timely.         *)
LEMMA StaysTimely ==
  ASSUME DueInv, NEW x \in Born, state'[x] = state[x], attempt'[x] = attempt[x],
         opts'[x] = opts[x], due[x] => due'[x]
  PROVE  Timely(x)'
  BY DEF DueInv, Timely, Exceeded

LEMMA SettleKeepsDue ==
  ASSUME DelaysLeftAlone, XInv, DueInv, NEW p \in Polls, Settle(p)
  PROVE  DueInv'
<1> USE DEF XInv
<1>1. PICK o \in Born : /\ o = current[p] /\ o \in Jobs
                         /\ due[o] /\ state[o] = "active"
  BY SettleKinds DEF RunEnds, RunInv, DueInv, Timely
<1>2. Timely(o)'
  <2>1. CASE Complete(p) \/ GiveUp(p, o)
    <3>1. due' = due /\ state'[o] # "delayed"
      BY <1>1, <2>1 DEF Complete, GiveUp, Finish, TypeOK
    <3> QED
      BY <1>1, <3>1 DEF Timely
  <2>2. CASE RetryLater(p, o)
    <3>1. /\ MayRetry(opts[o].attempts, attempt[o])
          /\ attempt'[o] = attempt[o] + 1 /\ state'[o] = "delayed"
      BY <1>1, <2>2 DEF RetryLater, TypeOK
    <3>2. opts'[o] = opts[o] /\ attempt[o] \in Nat /\ opts[o].attempts \in Nat
      BY <1>1, SettleKinds, OptionsAssumption DEF RunEnds, TypeOK
    <3>3. ~HasExceeded(opts'[o].attempts, attempt'[o])
      BY <3>1, <3>2 DEF MayRetry, HasExceeded
    <3> QED
      BY <3>1, <3>3 DEF Timely, Exceeded
  <2> QED
    BY <1>1, <2>1, <2>2, SettleKinds
<1>3. ASSUME NEW x \in Born \ {o} PROVE Timely(x)'
  BY <1>1, StaysTimely, OthersStay, SettleKinds DEF RunEnds, Born
<1> QED
  BY <1>2, <1>3, OthersStay DEF DueInv

LEMMA LoopKeepsDue ==
  ASSUME DelaysLeftAlone, TypeOK, DueInv, NEW p \in Polls, NEW o \in Jobs, Loop(p, o)
  PROVE  DueInv'
<1>1. o \in Born /\ due[o]
  BY LoopKinds DEF DueInv, Timely, Startable
<1>2. Timely(o)'
  <2>1. CASE FailExceeded(p, o) \/ StartJob(p, o)
    BY <1>1, <2>1 DEF FailExceeded, StartJob, Finish, Timely, TypeOK
  <2>2. CASE ListenerStopsLoop(p, o)
    BY <1>1, <2>2 DEF ListenerStopsLoop, DueInv, Timely, Exceeded, TypeOK
  <2> QED
    BY <2>1, <2>2 DEF Loop
<1>3. ASSUME NEW x \in Born \ {o} PROVE Timely(x)'
  BY StaysTimely, LoopKinds DEF Born
<1> QED
  BY <1>2, <1>3, LoopKinds DEF DueInv

LEMMA DueInductive ==
  ASSUME DelaysLeftAlone
  PROVE  Spec => [](XInv /\ DueInv)
<1>1. Init => DueInv
  BY DEF Init, DueInv, Born
<1>2. ASSUME XInv, DueInv, [Next]_vars PROVE DueInv'
  <2> USE DEF XInv
  <2>1. CASE Idle
    BY <1>2, <2>1 DEF Idle, DueInv, Timely, Exceeded, Born
  <2>2. ASSUME NEW o \in Jobs, NEW op \in Options, NEW t, Add(o, op, t) PROVE DueInv'
    <3>1. ~HasExceeded(op.attempts, 1)
      BY OptionsAssumption DEF HasExceeded
    <3>2. Timely(o)'
      BY <1>2, <2>2, <3>1, AddedIsFresh DEF Timely, Exceeded
    <3> QED
      BY <1>2, <2>2, <3>2, AddedIsFresh, StaysTimely DEF DueInv
  <2>3. ASSUME NEW o \in Jobs, Retry(o) PROVE DueInv'
    <3>1. Timely(o)'
      BY <1>2, <2>3, RetriedStaysBorn DEF DueInv, Timely, DelaysLeftAlone
    <3>2. ASSUME NEW x \in Born \ {o} PROVE Timely(x)'
      BY <1>2, <2>3, RetriedStaysBorn, StaysTimely DEF Born
    <3> QED
      BY <1>2, <2>3, <3>1, <3>2, RetriedStaysBorn DEF DueInv
  <2>4. ASSUME NEW o \in Jobs, NEW s \in {"completed", "failed"}, MoveTo(o, s) PROVE FALSE
    BY <2>4 DEF MoveTo, DelaysLeftAlone, ActiveLeftAlone
  <2>5. \A o \in Jobs : ~HeardRetry(o)
    BY DEF HeardRetry, DelaysLeftAlone, ActiveLeftAlone
  <2> QED
    BY <1>2, <2>1, <2>2, <2>3, <2>4, <2>5, StepKinds, LoopKeepsDue, SettleKeepsDue
<1>3. ActiveLeftAlone
  BY DEF DelaysLeftAlone
<1> QED
  BY <1>1, <1>2, <1>3, RunsInductive, PTL DEF Spec

(* No job starts before its delay or backoff is over, whenever the poll    *)
(* that starts it fetched it.                                              *)
THEOREM NoneStartsEarly ==
  ASSUME DelaysLeftAlone
  PROVE  Spec => NeverEarly
<1>1. ASSUME TypeOK, DueInv, [Next]_vars, NEW o \in Jobs, starts'[o] # starts[o]
      PROVE  due[o]
  <2>1. PICK p \in Polls, x \in Jobs : Loop(p, x)
    BY <1>1, StepKinds, SettleKinds
    DEF Idle, Add, Retry, MoveTo, RunEnds, HeardRetry, DelaysLeftAlone, ActiveLeftAlone
  <2>2. x = o /\ StartJob(p, o)
    BY <1>1, <2>1 DEF Loop, FailExceeded, StartJob, ListenerStopsLoop, TypeOK
  <2> QED
    BY <1>1, <2>1, <2>2, LoopKinds DEF StartJob, Startable, DueInv, Timely
<1>2. TypeOK /\ DueInv /\ [Next]_vars =>
        [\A o \in Jobs : starts'[o] # starts[o] => due[o]]_vars
  BY <1>1
<1> QED
  BY <1>2, DueInductive, TypeCorrect, PTL DEF Spec, NeverEarly

-----------------------------------------------------------------------------
(* No step brings a finished job back, if nobody calls retry() on it, or   *)
(* retry() or a moveTo method while it is active.  A listener of 'failed'  *)
(* must not call retry() either: when the worker has retried the job, and  *)
(* handleJobRetry is awaited before the event, another poll may have run   *)
(* it to its end by the time the listener hears of the failure.            *)
EndsLeftAlone ==
  /\ ActiveLeftAlone
  /\ {"completed", "failed"} \cap RetryFrom = {}

(* A completed job has not exceeded its attempts: no loop fails it.        *)
DoneInv == \A o \in Born : state[o] = "completed" => ~Exceeded(o)

DInv == XInv /\ DoneInv

LEMMA SettleKeepsDone ==
  ASSUME DInv, NEW p \in Polls, Settle(p)
  PROVE  DoneInv'
<1> USE DEF DInv, XInv
<1> DEFINE o == current[p]
<1>1. o \in Born /\ o \in Jobs /\ state[o] = "active" /\ ~Exceeded(o) /\ opts' = opts
  BY SettleKinds DEF RunEnds, RunInv
<1>2. state'[o] = "completed" => attempt' = attempt
  <2>1. CASE Complete(p)
    BY <2>1 DEF Complete
  <2>2. CASE RetryLater(p, o) \/ GiveUp(p, o)
    BY <1>1, <2>2 DEF RetryLater, GiveUp, Finish, TypeOK
  <2> QED
    BY <2>1, <2>2, SettleKinds
<1> QED
  BY <1>1, <1>2, OthersStay DEF DoneInv, Exceeded, Born

LEMMA LoopKeepsDone ==
  ASSUME DInv, NEW p \in Polls, NEW o \in Jobs, Loop(p, o)
  PROVE  DoneInv'
<1> USE DEF DInv, XInv
<1>1. state[o] # "completed" /\ o \in Born
  BY LoopKinds DEF DoneInv, Startable
<1>2. state'[o] # "completed"
  BY <1>1 DEF Loop, FailExceeded, StartJob, ListenerStopsLoop, Finish, TypeOK
<1> QED
  BY <1>2, LoopKinds DEF DoneInv, Exceeded, Born

LEMMA DoneInductive ==
  ASSUME EndsLeftAlone
  PROVE  Spec => []DInv
<1>1. Init => DoneInv
  BY DEF Init, DoneInv, Born
<1>2. ASSUME XInv, DoneInv, [Next]_vars PROVE DoneInv'
  <2> USE DEF DInv, XInv
  <2>1. CASE Idle
    BY <1>2, <2>1 DEF Idle, DoneInv, Exceeded, Born
  <2>2. ASSUME NEW o \in Jobs, NEW op \in Options, NEW t, Add(o, op, t) PROVE DoneInv'
    BY <1>2, <2>2, AddedIsFresh DEF DoneInv, Exceeded
  <2>3. ASSUME NEW o \in Jobs, Retry(o) PROVE DoneInv'
    BY <1>2, <2>3, RetriedStaysBorn DEF DoneInv, Exceeded, Born
  <2>4. ASSUME NEW o \in Jobs, NEW s \in {"completed", "failed"}, MoveTo(o, s) PROVE FALSE
    BY <2>4 DEF MoveTo, EndsLeftAlone, ActiveLeftAlone
  <2>5. \A o \in Jobs : ~HeardRetry(o)
    BY DEF HeardRetry, EndsLeftAlone, ActiveLeftAlone
  <2> QED
    BY <1>2, <2>1, <2>2, <2>3, <2>4, <2>5, StepKinds, LoopKeepsDone, SettleKeepsDone
<1>3. ActiveLeftAlone
  BY DEF EndsLeftAlone
<1> QED
  BY <1>1, <1>2, <1>3, RunsInductive, PTL DEF Spec, DInv

LEMMA NoneRevived ==
  ASSUME EndsLeftAlone, DInv, [Next]_vars,
         NEW o \in Born, state[o] \in {"completed", "failed"}
  PROVE  state'[o] = state[o]
<1> USE DEF DInv, XInv
<1>1. o \in Jobs
  BY DEF Born
<1>2. ASSUME NEW p \in Polls, NEW x \in Jobs, Loop(p, x) PROVE state'[o] = state[o]
  <2>1. CASE x = o
    <3>1. Exceeded(o) /\ state[o] = "failed"
      BY <1>2, <2>1, LoopKinds DEF Startable, DoneInv
    <3> QED
      BY <1>1, <1>2, <2>1, <3>1
      DEF Loop, FailExceeded, StartJob, ListenerStopsLoop, Finish, TypeOK
  <2>2. CASE x # o
    BY <1>1, <1>2, <2>2, LoopKinds
  <2> QED
    BY <2>1, <2>2
<1>3. ASSUME NEW p \in Polls, Settle(p) PROVE state'[o] = state[o]
  <2>1. o # current[p]
    BY <1>3, SettleKinds DEF RunEnds, RunInv
  <2> QED
    BY <1>1, <1>3, <2>1, OthersStay
<1>4. ASSUME NEW x \in Jobs, Retry(x) PROVE state'[o] = state[o]
  BY <1>1, <1>4, RetriedStaysBorn DEF EndsLeftAlone
<1> QED
  BY <1>1, <1>2, <1>3, <1>4, StepKinds, AddedIsFresh
  DEF Idle, MoveTo, HeardRetry, EndsLeftAlone, ActiveLeftAlone

(* A job that completed or failed stays so.                                *)
THEOREM FinishedStays ==
  ASSUME EndsLeftAlone
  PROVE  Spec => FinishedIsFinal
<1>1. DInv /\ [Next]_vars =>
        [\A o \in Born : state[o] \in {"completed", "failed"} => state'[o] = state[o]]_vars
  BY NoneRevived
<1> QED
  BY <1>1, DoneInductive, PTL DEF Spec, FinishedIsFinal

-----------------------------------------------------------------------------
(* The Map.                                                                *)

(* Every job has an id of its own and nobody takes any out.                *)
Undisturbed ==
  /\ \A op \in Options : op.jobId = AutoId
  /\ Calls \cap {"remove", "empty", "clean"} = {}

(* What leaves the Map is finished.                                        *)
LEMMA OnlyFinishedLeave ==
  ASSUME ActiveLeftAlone, Undisturbed, TypeOK, [Next]_vars, NEW x \in jobs
  PROVE  x \in jobs' \/ state'[x] \in {"completed", "failed"}
<1>1. \A o \in Born : opts[o].jobId = AutoId /\ Id(o) = o
  BY DEF TypeOK, Undisturbed, Id, IdOf
<1>2. \A o \in Jobs : Holders(o) \subseteq {o}
  BY <1>1 DEF Holders, TypeOK
<1>3. ASSUME NEW o \in Jobs, NEW op \in Options, NEW t, Add(o, op, t) PROVE x \in jobs'
  <2>1. Holders(IdOf(o, op)) = {}
    BY <1>1, <1>3 DEF Add, Undisturbed, IdOf, Holders, TypeOK, Born
  <2> QED
    BY <1>3, <2>1 DEF Add
<1>4. ASSUME NEW o \in Born, NEW s \in {"completed", "failed"}, Finish(o, s)
      PROVE  x \in jobs' \/ state'[x] = s
  BY <1>1, <1>2, <1>4 DEF Finish, JobsAfter, TypeOK, Born
<1>5. ASSUME NEW p \in Polls, Settle(p)
      PROVE  x \in jobs' \/ state'[x] \in {"completed", "failed"}
  BY <1>4, <1>5, SettleKinds DEF Complete, RetryLater, GiveUp
<1>6. ASSUME NEW p \in Polls, LoopStep(p)
      PROVE  x \in jobs' \/ state'[x] \in {"completed", "failed"}
  <2>1. ASSUME NEW o \in Jobs, FailExceeded(p, o) PROVE x \in jobs' \/ state'[x] = "failed"
    BY <1>4, <2>1, NextIsBorn DEF FailExceeded
  <2> QED
    BY <1>6, <2>1 DEF LoopStep, LoopEnds, StartJob, ListenerStopsLoop, EmitFailed
<1> QED
  BY <1>3, <1>5, <1>6
  DEF Next, Application, ActiveLeftAlone, Undisturbed, Remove, Retry, MoveTo, Empty,
      Clean, Close, SetPaused, DelayElapses, Start, Tick, vars

(* What a step makes of an unborn job: nothing, or an entry of the Map.    *)
LEMMA BornInTheMap ==
  ASSUME ActiveLeftAlone, TypeOK, [Next]_vars, NEW o \in Born', o \notin Born
  PROVE  o \in jobs'
<1>1. ASSUME NEW x \in Jobs, NEW op \in Options, NEW t, Add(x, op, t) PROVE o \in jobs'
  BY <1>1, AddedIsFresh DEF Add
<1> QED
  BY <1>1, StepKinds, RetriedStaysBorn, LoopKinds, OthersStay
  DEF Idle, Born, MoveTo, HeardRetry, ActiveLeftAlone

(* A job that must still run is in the Map, where the next poll finds it.  *)
THEOREM UnfinishedStay ==
  ASSUME EndsLeftAlone, Undisturbed
  PROVE  Spec => []UnfinishedKept
<1>1. Init => UnfinishedKept
  BY DEF Init, UnfinishedKept, Born
<1>2. ASSUME DInv, UnfinishedKept, [Next]_vars
      PROVE  UnfinishedKept'
  <2> SUFFICES ASSUME NEW o \in Born', state'[o] \in {"waiting", "delayed", "active"}
               PROVE  o \in jobs'
    BY DEF UnfinishedKept
  <2>1. CASE o \in Born
    <3>1. state[o] \in {"waiting", "delayed", "active"}
      BY <1>2, <2>1, NoneRevived DEF DInv, XInv, TypeOK, JobStates, Born
    <3> QED
      BY <1>2, <2>1, <3>1, OnlyFinishedLeave
      DEF UnfinishedKept, DInv, XInv, EndsLeftAlone
  <2>2. CASE o \notin Born
    BY <1>2, <2>2, BornInTheMap DEF DInv, XInv, EndsLeftAlone
  <2> QED
    BY <2>1, <2>2
<1> QED
  BY <1>1, <1>2, DoneInductive, PTL DEF Spec

-----------------------------------------------------------------------------
(* The driver implements JobLifecycle, if nobody but the workers touches   *)
(* the jobs: no retry() and no moveTo methods, and listeners only listen.  *)
(* (A retry() from outside uses up an attempt without a run; a listener    *)
(* that throws at 'active' leaves a job running that nobody runs.)         *)
Quiet ==
  /\ RetryFrom = {}
  /\ Listeners \subseteq {"return"}
  /\ "moveTo" \notin Calls

(* What a job has used of its attempts: all but one before a run, all      *)
(* during it, and never more than it has, one if it has no such option.    *)
Counted(o) ==
  /\ ~Exceeded(o)
  /\ opts[o].attempts = 0 => attempt[o] = 1
  /\ state[o] \in {"waiting", "delayed"} => starts[o] + 1 = attempt[o]
  /\ state[o] = "active" => starts[o] = attempt[o]

CountInv == \A o \in Born : Counted(o)

QInv == XInv /\ FreshInv /\ CountInv

MayRunAgain(o) == MayRetry(opts[o].attempts, attempt[o])

Finished(p, outcome) ==
  /\ RunEnds(p)
  /\ state' = [state EXCEPT ![current[p]] = outcome]
  /\ UNCHANGED attempt

Delayed(p) ==
  /\ RunEnds(p)
  /\ MayRunAgain(current[p])
  /\ state' = [state EXCEPT ![current[p]] = "delayed"]
  /\ attempt' = [attempt EXCEPT ![current[p]] = @ + 1]

LEMMA SettlesToThree ==
  ASSUME Quiet, QInv, NEW p \in Polls, Settle(p)
  PROVE  \/ Finished(p, "completed")
         \/ Finished(p, "failed") /\ ~MayRunAgain(current[p])
         \/ Delayed(p)
<1> USE DEF QInv, XInv
<1>1. RunEnds(p) /\ ~ListenerRetries(current[p]) /\ "throw" \notin Listeners
  BY SettleKinds DEF ListenerRetries, Quiet
<1>2. CASE Complete(p)
  BY <1>1, <1>2 DEF Complete, Finish, Finished
<1>3. CASE RetryLater(p, current[p])
  BY <1>1, <1>3 DEF RetryLater, Delayed, MayRunAgain
<1>4. CASE GiveUp(p, current[p])
  BY <1>1, <1>4 DEF GiveUp, Finish, Finished, MayRunAgain
<1> QED
  BY <1>2, <1>3, <1>4, SettleKinds

LEMMA QuietKinds ==
  ASSUME Quiet, QInv, [Next]_vars
  PROVE  \/ Idle
         \/ \E o \in Jobs, op \in Options, t \in {now, now + 1} : Add(o, op, t)
         \/ \E p \in Polls, o \in Jobs : StartJob(p, o)
         \/ \E p \in Polls : \/ Finished(p, "completed")
                             \/ Finished(p, "failed") /\ ~MayRunAgain(current[p])
                             \/ Delayed(p)
<1> USE DEF QInv, XInv
<1>1. ASSUME NEW p \in Polls, NEW o \in Jobs, Loop(p, o) PROVE StartJob(p, o)
  BY <1>1, LoopKinds
  DEF Loop, FailExceeded, ListenerStopsLoop, Quiet, CountInv, Counted
<1>2. ASSUME NEW o \in Jobs PROVE ~Retry(o) /\ ~HeardRetry(o) /\ \A s : ~MoveTo(o, s)
  BY DEF Retry, MoveTo, HeardRetry, Quiet
<1> QED
  BY <1>1, <1>2, StepKinds, SettlesToThree

(* Numbers of a born job.                                                  *)
LEMMA JobNumbers ==
  ASSUME TypeOK, NEW o \in Born
  PROVE  /\ o \in Jobs /\ starts[o] \in Nat /\ attempt[o] \in Nat
         /\ opts[o] \in Options /\ opts[o].attempts \in Nat
  BY OptionsAssumption DEF TypeOK, Born

LEMMA AddKeepsQuiet ==
  ASSUME QInv, NEW o \in Jobs, NEW op \in Options, NEW t, Add(o, op, t)
  PROVE  FreshInv' /\ CountInv'
<1> USE DEF QInv, XInv
<1>1. starts[o] = 0
  BY AddedIsFresh DEF FreshInv
<1>2. ~HasExceeded(op.attempts, 1)
  BY OptionsAssumption DEF HasExceeded
<1>3. Counted(o)'
  BY <1>1, <1>2, AddedIsFresh DEF Counted, Exceeded
<1>4. ASSUME NEW x \in Born PROVE Counted(x)'
  BY AddedIsFresh DEF CountInv, Counted, Exceeded
<1> QED
  BY <1>3, <1>4, AddedIsFresh DEF CountInv, FreshInv

LEMMA StartKeepsQuiet ==
  ASSUME QInv, NEW p \in Polls, NEW o \in Jobs, StartJob(p, o)
  PROVE  FreshInv' /\ CountInv'
<1> USE DEF QInv, XInv
<1>1. o \in Born /\ Startable(o) /\ ~Exceeded(o) /\ Born' = Born
  BY LoopKinds DEF Loop, StartJob
<1>2. /\ state' = [state EXCEPT ![o] = "active"]
      /\ starts' = [starts EXCEPT ![o] = @ + 1]
      /\ UNCHANGED <<attempt, opts>>
  BY DEF StartJob
<1>3. Counted(o)'
  BY <1>1, <1>2 DEF TypeOK, CountInv, Counted, Exceeded, Startable
<1> QED
  BY <1>1, <1>2, <1>3 DEF TypeOK, Born, CountInv, Counted, Exceeded, FreshInv

LEMMA EndKeepsQuiet ==
  ASSUME QInv, NEW p \in Polls,
         Finished(p, "completed") \/ Finished(p, "failed") \/ Delayed(p)
  PROVE  FreshInv' /\ CountInv'
<1> USE DEF QInv, XInv
<1>1. RunEnds(p)
  BY DEF Finished, Delayed
<1>2. PICK o \in Born : o = current[p] /\ state[o] = "active"
  BY <1>1, CurrentIsBorn DEF RunEnds, RunInv
<1>3. o \in Jobs /\ starts[o] = attempt[o]
  BY <1>2 DEF CountInv, Counted, Born
<1>4. /\ state'[o] \in {"completed", "failed", "delayed"}
      /\ state'[o] = "delayed" => attempt'[o] = attempt[o] + 1 /\ MayRunAgain(o)
      /\ state'[o] # "delayed" => attempt'[o] = attempt[o]
      /\ \A x \in Jobs \ {o} : state'[x] = state[x] /\ attempt'[x] = attempt[x]
      /\ UNCHANGED <<opts, starts>>
  BY <1>1, <1>2, <1>3 DEF Finished, Delayed, RunEnds, TypeOK
<1>5. Born' = Born
  BY <1>2, <1>3, <1>4 DEF Born
<1>6. Counted(o)'
  <2>1. opts[o].attempts \in Nat /\ attempt[o] \in Nat /\ ~Exceeded(o)
    BY <1>2, JobNumbers DEF CountInv, Counted
  <2>2. MayRunAgain(o) => /\ ~HasExceeded(opts[o].attempts, attempt[o] + 1)
                          /\ opts[o].attempts # 0
    BY <2>1 DEF MayRunAgain, MayRetry, HasExceeded
  <2>3. ~Exceeded(o)'
    BY <1>4, <2>1, <2>2 DEF Exceeded
  <2> QED
    BY <1>2, <1>3, <1>4, <2>1, <2>2, <2>3 DEF CountInv, Counted
<1> QED
  BY <1>2, <1>3, <1>4, <1>5, <1>6 DEF CountInv, Counted, Exceeded, FreshInv, Born

LEMMA QuietInductive ==
  ASSUME Quiet
  PROVE  Spec => []QInv
<1>1. Init => FreshInv /\ CountInv
  BY DEF Init, FreshInv, CountInv, Born
<1>2. ASSUME XInv, FreshInv, CountInv, [Next]_vars
      PROVE  FreshInv' /\ CountInv'
  <2> USE DEF QInv
  <2>1. CASE Idle
    BY <1>2, <2>1 DEF Idle, FreshInv, CountInv, Counted, Exceeded, Born
  <2> QED
    BY <1>2, <2>1, QuietKinds, AddKeepsQuiet, StartKeepsQuiet, EndKeepsQuiet
<1>3. ActiveLeftAlone
  BY DEF Quiet, ActiveLeftAlone
<1> QED
  BY <1>1, <1>2, <1>3, RunsInductive, PTL DEF Spec, QInv

LEMMA SubmitsOrRuns ==
  ASSUME QInv, NEW o \in Jobs
  PROVE  /\ \A op \in Options, t \in {now, now + 1} : Add(o, op, t) => Lifecycle!Submit(o)
         /\ \A p \in Polls : StartJob(p, o) => Lifecycle!Run(o)
<1> USE DEF QInv, XInv
<1>1. ASSUME NEW op \in Options, NEW t \in {now, now + 1}, Add(o, op, t)
      PROVE  Lifecycle!Submit(o)
  <2>1. \A x \in Jobs \ {o} : StatusOf(x)' = StatusOf(x) /\ BudgetOf(x)' = BudgetOf(x)
    BY <1>1 DEF Add, TypeOK, StatusOf, BudgetOf, Born
  <2>2. StatusOf(o) = "new" /\ StatusOf(o)' = "ready" /\ BudgetOf(o)' \in Nat \ {0}
    BY <1>1, OptionsAssumption DEF Add, TypeOK, StatusOf, BudgetOf, Born
  <2> QED
    BY <1>1, <2>1, <2>2 DEF Add, Lifecycle!Submit, Lifecycle!Becomes
<1>2. ASSUME NEW p \in Polls, StartJob(p, o) PROVE Lifecycle!Run(o)
  <2>1. o \in Born /\ Startable(o) /\ ~Exceeded(o)
    BY <1>2, NextIsBorn DEF StartJob, IsNext, Stops
  <2>2. \A x \in Jobs : BudgetOf(x)' = BudgetOf(x)
    BY <1>2, <2>1 DEF StartJob, TypeOK, BudgetOf, Born
  <2>3. \A x \in Jobs \ {o} : StatusOf(x)' = StatusOf(x)
    BY <1>2 DEF StartJob, TypeOK, StatusOf
  <2>4. StatusOf(o) = "ready" /\ StatusOf(o)' = "running"
    BY <1>2, <2>1 DEF StartJob, TypeOK, StatusOf, Startable
  <2>5. starts[o] < BudgetOf(o)
    BY <2>1, JobNumbers DEF CountInv, Counted, Exceeded, HasExceeded, Startable, BudgetOf
  <2> QED
    BY <1>2, <2>2, <2>3, <2>4, <2>5 DEF StartJob, Lifecycle!Run, Lifecycle!Becomes
<1> QED
  BY <1>1, <1>2

LEMMA RunsEndAsPromised ==
  ASSUME QInv, NEW p \in Polls
  PROVE  /\ Finished(p, "completed") => Lifecycle!Complete(current[p])
         /\ Finished(p, "failed") /\ ~MayRunAgain(current[p])
              => Lifecycle!Fail(current[p])
         /\ Delayed(p) => Lifecycle!TryAgain(current[p])
<1> USE DEF QInv, XInv
<1> SUFFICES ASSUME RunEnds(p)
             PROVE  /\ Finished(p, "completed") => Lifecycle!Complete(current[p])
                    /\ Finished(p, "failed") /\ ~MayRunAgain(current[p])
                         => Lifecycle!Fail(current[p])
                    /\ Delayed(p) => Lifecycle!TryAgain(current[p])
  BY DEF Finished, Delayed
<1>1. PICK o \in Born : o = current[p] /\ state[o] = "active"
  BY CurrentIsBorn DEF RunEnds, RunInv
<1>2. /\ o \in Jobs /\ starts[o] = attempt[o] /\ StatusOf(o) = "running"
      /\ starts[o] \in Nat /\ opts[o].attempts \in Nat
  BY <1>1, JobNumbers DEF CountInv, Counted, StatusOf
<1>3. MayRunAgain(o) => starts[o] < BudgetOf(o)
  BY <1>1, <1>2 DEF MayRunAgain, MayRetry, BudgetOf
<1>4. ~MayRunAgain(o) => starts[o] = BudgetOf(o)
  BY <1>1, <1>2 DEF CountInv, Counted, Exceeded, HasExceeded, MayRunAgain, MayRetry, BudgetOf
<1>5. ASSUME NEW s \in {"completed", "failed", "delayed"}, state' = [state EXCEPT ![o] = s]
      PROVE  /\ [x \in Jobs |-> StatusOf(x)'] =
                  [[x \in Jobs |-> StatusOf(x)] EXCEPT
                     ![o] = IF s = "delayed" THEN "ready" ELSE s]
             /\ \A x \in Jobs : BudgetOf(x)' = BudgetOf(x)
  <2>1. StatusOf(o)' = IF s = "delayed" THEN "ready" ELSE s
    BY <1>2, <1>5 DEF TypeOK, StatusOf
  <2>2. \A x \in Jobs \ {o} : StatusOf(x)' = StatusOf(x)
    BY <1>5 DEF TypeOK, StatusOf
  <2>3. \A x \in Jobs : BudgetOf(x)' = BudgetOf(x)
    BY <1>1, <1>2, <1>5 DEF RunEnds, TypeOK, BudgetOf, Born
  <2> QED
    BY <1>2, <2>1, <2>2, <2>3
<1>6. Finished(p, "completed") => Lifecycle!Complete(o)
  BY <1>1, <1>2, <1>5
  DEF Finished, RunEnds, Lifecycle!Complete, Lifecycle!Becomes
<1>7. Finished(p, "failed") /\ ~MayRunAgain(o) => Lifecycle!Fail(o)
  BY <1>1, <1>2, <1>4, <1>5
  DEF Finished, RunEnds, Lifecycle!Fail, Lifecycle!Becomes
<1>8. Delayed(p) => Lifecycle!TryAgain(o)
  BY <1>1, <1>2, <1>3, <1>5
  DEF Delayed, RunEnds, Lifecycle!TryAgain, Lifecycle!Becomes
<1> QED
  BY <1>1, <1>6, <1>7, <1>8

(* The driver keeps the promise of JobLifecycle about every job: it runs   *)
(* at most as often as its budget, fails only with the budget used up, and *)
(* is final then.                                                          *)
THEOREM ImplementsLifecycle ==
  ASSUME Quiet
  PROVE  Spec => LifecycleSpec
<1>1. Init => Lifecycle!Init
  BY DEF Init, Lifecycle!Init, StatusOf, BudgetOf, Born
<1>2. ASSUME QInv, [Next]_vars
      PROVE  [Lifecycle!Next]_Lifecycle!vars
  <2>1. CASE Idle
    BY <2>1 DEF Idle, Lifecycle!vars, StatusOf, BudgetOf, Born
  <2>2. ASSUME NEW p \in Polls, RunEnds(p) PROVE current[p] \in Jobs
    BY <1>2, <2>2, CurrentIsBorn DEF RunEnds, QInv, XInv, Born
  <2> QED
    BY <1>2, <2>1, <2>2, QuietKinds, SubmitsOrRuns, RunsEndAsPromised
    DEF Lifecycle!Next, Finished, Delayed
<1> QED
  BY <1>1, <1>2, QuietInductive, PTL DEF Spec, LifecycleSpec, Lifecycle!Spec
=============================================================================
