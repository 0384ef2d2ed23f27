------------------------- MODULE LocalDriverProofs -------------------------
(***************************************************************************)
(* Theorems about LocalDriver, for every set of jobs, workers and slots,   *)
(* every concurrency and every value of the other constants.               *)
(***************************************************************************)
EXTENDS LocalDriver, FiniteSetTheorems, TLAPS

(* A job the loop stops at was in the batch of the poll.                   *)
LEMMA NextIsBorn ==
  ASSUME TypeOK, NEW p \in Polls, NEW o, IsNext(p, o)
  PROVE  o \in Born /\ ToVisit(p) \subseteq Born
  BY DEF TypeOK, IsNext, Stops, ToVisit, Selected

(* The places of the Map stay numbers.                                     *)
LEMMA BornIsCounted ==
  Cardinality(Born) \in Nat
  BY ConstantsAssumption, FS_Subset, FS_CardinalityType DEF Born, ConstantsAssumption

LEMMA AddTypes ==
  ASSUME TypeOK, NEW o \in Jobs, NEW op \in Options, NEW t \in {now, now + 1},
         Add(o, op, t)
  PROVE  TypeOK'
<1> DEFINE displaced == Holders(IdOf(o, op))
<1>1. displaced \subseteq Jobs
  BY DEF Holders, TypeOK, Born
<1>2. (IF displaced = {} THEN Cardinality(Born) + 1
                         ELSE place[CHOOSE x \in displaced : TRUE]) \in Nat
  BY <1>1, BornIsCounted DEF TypeOK
<1>3. Born' = Born \union {o}
  BY DEF Add, TypeOK, Born
<1>4. place' \in [Jobs -> Nat]
  BY <1>2 DEF Add, TypeOK
<1>5. jobs' \subseteq Born'
  BY <1>3 DEF Add, TypeOK
<1>6. \A x \in Born' : opts'[x] \in Options
  BY <1>3 DEF Add, TypeOK, Born
<1>7. /\ batch' \in [Polls -> SUBSET Born']
      /\ current' \in [Polls -> Born' \union {None}]
      /\ \A p \in Polls : pc'[p] \in {"running", "retried"} <=> current'[p] # None
  BY <1>3 DEF Add, TypeOK, pollVars
<1> QED
  BY <1>4, <1>5, <1>6, <1>7
  DEF Add, TypeOK, JobStates, workerVars, pollVars

(* A step that changes no job's state, no poll and no history keeps the    *)
(* type invariant if what it does change keeps its type.                   *)
LEMMA CallTypes ==
  ASSUME TypeOK,
         \/ \E o \in Jobs : Remove(o) \/ Retry(o) \/ DelayElapses(o)
         \/ \E o \in Jobs, outcome \in {"completed", "failed"} : MoveTo(o, outcome)
         \/ Empty
         \/ \E before, type, limit : Clean(before, type, limit)
         \/ \E w \in Workers : \/ Start(w) \/ Close(w)
                               \/ SetPaused(w, TRUE) \/ SetPaused(w, FALSE)
  PROVE  TypeOK'
<1>1. ASSUME NEW o \in Jobs, Remove(o) PROVE TypeOK'
  BY <1>1 DEF Remove, TypeOK, Born, jobVars, workerVars, pollVars
<1>2. ASSUME NEW o \in Jobs, Retry(o) PROVE TypeOK'
  <2>1. Born' = Born
    BY <1>2, ConstantsAssumption DEF Retry, TypeOK, Born, ConstantsAssumption, JobStates
  <2> QED
    BY <1>2, <2>1 DEF Retry, TypeOK, JobStates, workerVars, pollVars
<1>3. ASSUME NEW o \in Jobs, DelayElapses(o) PROVE TypeOK'
  BY <1>3 DEF DelayElapses, TypeOK, Born, workerVars, pollVars
<1>4. ASSUME NEW o \in Jobs, NEW outcome \in {"completed", "failed"}, MoveTo(o, outcome)
      PROVE  TypeOK'
  <2>1. Born' = Born
    BY <1>4 DEF MoveTo, Finish, TypeOK, Born
  <2>2. jobs' \subseteq Born
    BY <1>4 DEF MoveTo, Finish, JobsAfter, TypeOK
  <2> QED
    BY <1>4, <2>1, <2>2 DEF MoveTo, Finish, TypeOK, JobStates, workerVars, pollVars
<1>5. ASSUME Empty PROVE TypeOK'
  BY <1>5 DEF Empty, TypeOK, Born, jobVars, workerVars, pollVars
<1>6. ASSUME NEW before, NEW type, NEW limit, Clean(before, type, limit) PROVE TypeOK'
  BY <1>6 DEF Clean, TypeOK, Born, jobVars, workerVars, pollVars
<1>7. ASSUME NEW w \in Workers,
             Start(w) \/ Close(w) \/ SetPaused(w, TRUE) \/ SetPaused(w, FALSE)
      PROVE  TypeOK'
  <2>1. Born' = Born /\ UNCHANGED <<jobs, now, jobVars, pollVars, starts>>
    BY <1>7 DEF Start, Close, SetPaused, Born, jobVars
  <2>2. isRunning' \in [Workers -> BOOLEAN] /\ isPaused' \in [Workers -> BOOLEAN]
    BY <1>7 DEF Start, Close, SetPaused, TypeOK
  <2> QED
    BY <2>1, <2>2 DEF TypeOK, jobVars, pollVars
<1> QED
  BY <1>1, <1>2, <1>3, <1>4, <1>5, <1>6, <1>7

(* The steps of a poll.                                                    *)
LEMMA TickTypes ==
  ASSUME TypeOK, NEW w \in Workers, Tick(w)
  PROVE  TypeOK'
<1>1. PICK s \in Slots :
        /\ pc[<<w, s>>] = "idle"
        /\ pc' = [pc EXCEPT ![<<w, s>>] = "fetched"]
        /\ batch' = [batch EXCEPT ![<<w, s>>] = jobs]
  BY DEF Tick
<1>2. <<w, s>> \in Polls
  BY DEF Polls
<1>3. Born' = Born
  BY DEF Tick, Born, jobVars
<1>4. pc' \in [Polls -> {"idle", "fetched", "running", "retried", "next"}]
  BY <1>1 DEF TypeOK
<1>5. batch' \in [Polls -> SUBSET Born']
  BY <1>1, <1>3 DEF TypeOK
<1>6. \A p \in Polls : pc'[p] \in {"running", "retried"} <=> current'[p] # None
  BY <1>1, <1>2 DEF TypeOK, Tick
<1> QED
  BY <1>3, <1>4, <1>5, <1>6 DEF Tick, TypeOK, jobVars, workerVars

LEMMA LoopTypes ==
  ASSUME TypeOK, NEW p \in Polls, LoopStep(p)
  PROVE  TypeOK'
<1>1. CASE LoopEnds(p)
  BY <1>1 DEF LoopEnds, End, TypeOK, Born, jobVars, workerVars
<1>2. ASSUME NEW o \in Jobs, FailExceeded(p, o) PROVE TypeOK'
  <2>1. o \in Born /\ ToVisit(p) \subseteq Born
    BY <1>2, NextIsBorn DEF FailExceeded
  <2>2. Born' = Born
    BY <1>2, <2>1 DEF FailExceeded, Finish, TypeOK, Born
  <2>3. jobs' \subseteq Born
    BY <1>2 DEF FailExceeded, Finish, JobsAfter, TypeOK
  <2>4. attempt' \in [Jobs -> Nat]
    BY <1>2 DEF FailExceeded, TypeOK
  <2>5. pc' \in [Polls -> {"idle", "fetched", "running", "retried", "next"}]
    BY <1>2 DEF FailExceeded, Continue, TypeOK
  <2>6. batch' \in [Polls -> SUBSET Born']
    BY <1>2, <2>1, <2>2 DEF FailExceeded, Continue, TypeOK
  <2>7. \A q \in Polls : pc'[q] \in {"running", "retried"} <=> current'[q] # None
    BY <1>2 DEF FailExceeded, Continue, IsNext, TypeOK
  <2> QED
    BY <1>2, <2>2, <2>3, <2>4, <2>5, <2>6, <2>7
    DEF FailExceeded, Finish, TypeOK, JobStates, workerVars
<1>3. ASSUME NEW o \in Jobs, StartJob(p, o) PROVE TypeOK'
  <2>1. o \in Born /\ ToVisit(p) \subseteq Born
    BY <1>3, NextIsBorn DEF StartJob
  <2>2. Born' = Born
    BY <1>3, <2>1 DEF StartJob, TypeOK, Born
  <2>3. pc' \in [Polls -> {"idle", "fetched", "running", "retried", "next"}]
    BY <1>3 DEF StartJob, Continue, TypeOK
  <2>4. batch' \in [Polls -> SUBSET Born']
    BY <1>3, <2>1, <2>2 DEF StartJob, Continue, TypeOK
  <2>5. o # None
    BY <2>1, ConstantsAssumption DEF Born, ConstantsAssumption
  <2>6. \A q \in Polls : pc'[q] \in {"running", "retried"} <=> current'[q] # None
    BY <1>3, <2>5 DEF StartJob, Continue, TypeOK
  <2>7. current' \in [Polls -> Born \union {None}]
    BY <1>3, <2>1 DEF StartJob, TypeOK
  <2>8. state' \in [Jobs -> JobStates \union {"unborn"}] /\ starts' \in [Jobs -> Nat]
    BY <1>3 DEF StartJob, TypeOK, JobStates
  <2> QED
    BY <1>3, <2>2, <2>3, <2>4, <2>6, <2>7, <2>8 DEF StartJob, TypeOK, workerVars
<1>4. ASSUME NEW o \in Jobs, ListenerStopsLoop(p, o) PROVE TypeOK'
  <2>1. o \in Born
    BY <1>4, NextIsBorn DEF ListenerStopsLoop
  <2>2. Born' = Born /\ state' \in [Jobs -> JobStates \union {"unborn"}]
    BY <1>4, <2>1 DEF ListenerStopsLoop, TypeOK, Born, JobStates
  <2>3. /\ pc' \in [Polls -> {"idle", "fetched", "running", "retried", "next"}]
        /\ batch' \in [Polls -> SUBSET Born]
        /\ current' \in [Polls -> Born \union {None}]
        /\ \A q \in Polls : pc'[q] \in {"running", "retried"} <=> current'[q] # None
    BY <1>4 DEF ListenerStopsLoop, End, TypeOK
  <2> QED
    BY <1>4, <2>2, <2>3 DEF ListenerStopsLoop, TypeOK, workerVars
<1>5. ASSUME NEW o \in Jobs, EmitFailed(p, o) PROVE TypeOK'
  <2>1. /\ attempt' \in [Jobs -> Nat]
        /\ state' \in [Jobs -> JobStates \union {"unborn"}]
    BY <1>5 DEF EmitFailed, TypeOK, JobStates
  <2>2. o \in Born
    BY <1>5 DEF EmitFailed, TypeOK
  <2>3. Born' = Born
    BY <1>5, <2>2 DEF EmitFailed, TypeOK, Born
  <2>4. /\ pc' \in [Polls -> {"idle", "fetched", "running", "retried", "next"}]
        /\ batch' \in [Polls -> SUBSET Born]
        /\ current' \in [Polls -> Born \union {None}]
        /\ \A q \in Polls : pc'[q] \in {"running", "retried"} <=> current'[q] # None
    BY <1>5 DEF EmitFailed, GoOnOrAbort, TypeOK
  <2>5. UNCHANGED <<jobs, now, due, opts, createdAt, place, workerVars, starts>>
    BY <1>5 DEF EmitFailed
  <2> QED
    BY <2>1, <2>3, <2>4, <2>5 DEF TypeOK, workerVars
<1> QED
  BY <1>1, <1>2, <1>3, <1>4, <1>5 DEF LoopStep

(* The ways an awaited processor settles.                                  *)
LEMMA CurrentIsBorn ==
  ASSUME TypeOK, NEW p \in Polls, pc[p] = "running"
  PROVE  current[p] \in Born
  BY DEF TypeOK

LEMMA RetryLaterTypes ==
  ASSUME TypeOK, NEW p \in Polls, pc[p] = "running", RetryLater(p, current[p]),
         UNCHANGED <<now, opts, createdAt, place, workerVars, starts>>
  PROVE  TypeOK'
<1> DEFINE o == current[p]
<1>1. o \in Born /\ o \in Jobs
  BY CurrentIsBorn DEF Born
<1>2. attempt' \in [Jobs -> Nat]
  <2>1. attempt' = [attempt EXCEPT ![o] = @ + 1]
    BY DEF RetryLater
  <2> HIDE DEF o
  <2> QED
    BY <1>1, <2>1 DEF TypeOK
<1>5. state' \in [Jobs -> JobStates \union {"unborn"}]
  <2>1. state' = [state EXCEPT ![o] = "delayed"]
    BY DEF RetryLater
  <2> HIDE DEF o
  <2> QED
    BY <1>1, <2>1 DEF TypeOK, JobStates
<1>6. due' \in [Jobs -> BOOLEAN]
  <2> DEFINE over == BackoffDelay(opts[o].backoff, attempt[o]) = 0
  <2>1. over \in BOOLEAN
    OBVIOUS
  <2>2. due' = [due EXCEPT ![o] = over]
    BY DEF RetryLater
  <2> HIDE DEF over
  <2> QED
    BY <2>1, <2>2 DEF TypeOK
<1>3. Born' = Born
  BY <1>1 DEF RetryLater, TypeOK, Born
<1>4. /\ pc' \in [Polls -> {"idle", "fetched", "running", "retried", "next"}]
      /\ batch' \in [Polls -> SUBSET Born]
      /\ current' \in [Polls -> Born \union {None}]
      /\ \A q \in Polls : pc'[q] \in {"running", "retried"} <=> current'[q] # None
  BY DEF RetryLater, TypeOK
<1> QED
  BY <1>2, <1>3, <1>4, <1>5, <1>6 DEF RetryLater, TypeOK, workerVars

LEMMA GiveUpTypes ==
  ASSUME TypeOK, NEW p \in Polls, pc[p] = "running", GiveUp(p, current[p]),
         UNCHANGED <<now, opts, createdAt, place, workerVars, starts>>
  PROVE  TypeOK'
<1> DEFINE o == current[p]
<1>1. o \in Born /\ o \in Jobs
  BY CurrentIsBorn DEF Born
<1>2. /\ attempt' \in [Jobs -> Nat]
      /\ state' \in [Jobs -> JobStates \union {"unborn"}]
  BY DEF GiveUp, Finish, TypeOK, JobStates
<1>3. Born' = Born
  BY <1>1 DEF GiveUp, Finish, TypeOK, Born
<1>4. jobs' \subseteq Born
  BY DEF GiveUp, Finish, JobsAfter, TypeOK
<1>5. /\ pc' \in [Polls -> {"idle", "fetched", "running", "retried", "next"}]
      /\ batch' \in [Polls -> SUBSET Born]
      /\ current' \in [Polls -> Born \union {None}]
      /\ \A q \in Polls : pc'[q] \in {"running", "retried"} <=> current'[q] # None
  BY DEF GiveUp, End, TypeOK
<1> QED
  BY <1>2, <1>3, <1>4, <1>5 DEF GiveUp, TypeOK, workerVars

LEMMA SettleTypes ==
  ASSUME TypeOK, NEW p \in Polls, Settle(p)
  PROVE  TypeOK'
<1>1. CASE Complete(p)
  <2> DEFINE o == current[p]
  <2>1. o \in Born
    BY <1>1, CurrentIsBorn DEF Complete
  <2>2. Born' = Born
    BY <1>1, <2>1 DEF Complete, Finish, TypeOK, Born
  <2>3. jobs' \subseteq Born
    BY <1>1 DEF Complete, Finish, JobsAfter, TypeOK
  <2>4. state' \in [Jobs -> JobStates \union {"unborn"}]
    BY <1>1 DEF Complete, Finish, TypeOK, JobStates
  <2>5. /\ pc' \in [Polls -> {"idle", "fetched", "running", "retried", "next"}]
        /\ current' \in [Polls -> Born \union {None}]
        /\ \A q \in Polls : pc'[q] \in {"running", "retried"} <=> current'[q] # None
    BY <1>1 DEF Complete, TypeOK
  <2> QED
    BY <1>1, <2>2, <2>3, <2>4, <2>5 DEF Complete, TypeOK, workerVars
<1>2. CASE ProcessorRejects(p)
  BY <1>2, RetryLaterTypes, GiveUpTypes DEF ProcessorRejects
<1>3. CASE TimeoutFires(p)
  BY <1>3, RetryLaterTypes, GiveUpTypes DEF TimeoutFires
<1> QED
  BY <1>1, <1>2, <1>3 DEF Settle

-----------------------------------------------------------------------------
(* The type invariant of the local driver holds in every reachable state.  *)
THEOREM TypeCorrect == Spec => []TypeOK
<1>1. Init => TypeOK
  BY DEF Init, TypeOK, Born, JobStates
<1>2. ASSUME TypeOK, [Next]_vars PROVE TypeOK'
  <2>1. CASE Application
    BY <1>2, <2>1, AddTypes, CallTypes DEF Application
  <2>2. ASSUME NEW o \in Jobs, DelayElapses(o) PROVE TypeOK'
    BY <1>2, <2>2, CallTypes
  <2>3. ASSUME NEW w \in Workers, Start(w) \/ Tick(w) PROVE TypeOK'
    BY <1>2, <2>3, CallTypes, TickTypes
  <2>4. ASSUME NEW p \in Polls, LoopStep(p) \/ Settle(p) PROVE TypeOK'
    BY <1>2, <2>4, LoopTypes, SettleTypes
  <2>5. CASE UNCHANGED vars
    BY <1>2, <2>5 DEF vars, jobVars, workerVars, pollVars, TypeOK, Born
  <2> QED
    BY <1>2, <2>1, <2>2, <2>3, <2>4, <2>5 DEF Next
<1> QED
  BY <1>1, <1>2, PTL DEF Spec

-----------------------------------------------------------------------------
(* The attempts.  AttemptBound alone is not inductive: what holds it up is *)
(* that every start costs an attempt and that a job only comes back to a   *)
(* state it can be started from with an attempt it has not used.           *)
Spent(o) ==
  /\ starts[o] <= attempt[o]
  /\ state[o] \in {"waiting", "delayed"} => starts[o] < attempt[o]
  /\ opts[o].attempts > 0 => starts[o] <= opts[o].attempts

AttemptInv == \A o \in Born : Spent(o)

(* An unborn job was never started.                                        *)
FreshInv == \A o \in Jobs \ Born : starts[o] = 0

AInv == TypeOK /\ AttemptInv /\ FreshInv

(* A step that starts nothing keeps the invariant if no job comes back to  *)
(* a startable state without a new attempt.                                *)
LEMMA NoStartKeepsAttempts ==
  ASSUME AInv, TypeOK', UNCHANGED <<starts, opts>>, Born' = Born,
         \A x \in Born :
           /\ attempt'[x] >= attempt[x]
           /\ \/ attempt'[x] > attempt[x]
              \/ state'[x] \in {"waiting", "delayed"}
                   => state[x] \in {"waiting", "delayed"}
  PROVE  AInv'
<1>1. ASSUME NEW x \in Born PROVE Spent(x)'
  <2>1. /\ x \in Jobs /\ starts[x] \in Nat /\ attempt[x] \in Nat /\ attempt'[x] \in Nat
    BY <1>1 DEF AInv, TypeOK, Born
  <2> QED
    BY <1>1, <2>1 DEF AInv, AttemptInv, Spent
<1> QED
  BY <1>1 DEF AInv, AttemptInv, FreshInv

LEMMA AddKeepsAttempts ==
  ASSUME AInv, TypeOK', NEW o \in Jobs, NEW op \in Options, NEW t, Add(o, op, t)
  PROVE  AInv'
<1>1. Born' = Born \union {o} /\ o \notin Born
  BY DEF Add, AInv, TypeOK, Born
<1>2. starts' = starts /\ starts[o] = 0
  BY <1>1 DEF Add, AInv, FreshInv
<1>3. Spent(o)'
  BY <1>2, OptionsAssumption DEF Add, AInv, TypeOK, Spent
<1>4. ASSUME NEW x \in Born PROVE Spent(x)'
  BY <1>1, <1>2, <1>4 DEF Add, AInv, AttemptInv, Spent, TypeOK, Born
<1> QED
  BY <1>1, <1>2, <1>3, <1>4 DEF AInv, AttemptInv, FreshInv

LEMMA StartKeepsAttempts ==
  ASSUME AInv, TypeOK', NEW p \in Polls, NEW o \in Jobs, StartJob(p, o)
  PROVE  AInv'
<1>1. o \in Born
  BY NextIsBorn DEF StartJob, AInv
<1>2. Born' = Born
  BY <1>1 DEF StartJob, AInv, TypeOK, Born
<1>3. ~Exceeded(o) /\ Startable(o)
  BY DEF StartJob, IsNext, Stops
<1>4. starts[o] + 1 <= attempt[o]
  BY <1>1, <1>3 DEF Startable, AInv, AttemptInv, Spent, TypeOK
<1>5. opts[o].attempts > 0 => attempt[o] <= opts[o].attempts
  <2>1. opts[o] \in Options /\ attempt[o] \in Nat
    BY <1>1 DEF AInv, TypeOK
  <2>2. opts[o].attempts \in Nat
    BY <2>1, OptionsAssumption
  <2> QED
    BY <1>3, <2>1, <2>2 DEF Exceeded, HasExceeded
<1>6. Spent(o)'
  <2>1. starts'[o] = starts[o] + 1 /\ state'[o] = "active"
    BY DEF StartJob, AInv, TypeOK
  <2>2. /\ starts[o] \in Nat /\ attempt[o] \in Nat
        /\ opts[o] \in Options /\ opts[o].attempts \in Nat
    BY <1>1, OptionsAssumption DEF AInv, TypeOK
  <2> QED
    BY <1>4, <1>5, <2>1, <2>2 DEF Spent, StartJob
<1>7. ASSUME NEW x \in Born, x # o PROVE Spent(x)'
  BY <1>7 DEF StartJob, AInv, AttemptInv, Spent, TypeOK, Born
<1> QED
  BY <1>2, <1>6, <1>7 DEF AInv, AttemptInv, FreshInv, StartJob, TypeOK, Born

LEMMA CallsKeepAttempts ==
  ASSUME AInv, TypeOK',
         \/ \E o \in Jobs : Remove(o) \/ Retry(o) \/ DelayElapses(o)
         \/ \E o \in Jobs, outcome \in {"completed", "failed"} : MoveTo(o, outcome)
         \/ Empty
         \/ \E before, type, limit : Clean(before, type, limit)
         \/ \E w \in Workers : \/ Start(w) \/ Close(w) \/ Tick(w)
                               \/ SetPaused(w, TRUE) \/ SetPaused(w, FALSE)
  PROVE  AInv'
<1> USE DEF AInv
<1>1. \A x \in Born : x \in Jobs /\ attempt[x] \in Nat
  BY DEF TypeOK, Born
<1>2. ASSUME UNCHANGED jobVars, UNCHANGED starts PROVE AInv'
  <2>1. Born' = Born /\ UNCHANGED <<starts, opts, attempt, state>>
    BY <1>2 DEF jobVars, Born
  <2> QED
    BY <1>1, <2>1, NoStartKeepsAttempts
<1>3. ASSUME NEW o \in Jobs, Retry(o) PROVE AInv'
  <2>1. Born' = Born
    BY <1>3, ConstantsAssumption DEF Retry, TypeOK, Born, ConstantsAssumption, JobStates
  <2>2. attempt'[o] = attempt[o] + 1
    BY <1>3 DEF Retry, TypeOK
  <2>3. \A x \in Born : x # o => attempt'[x] = attempt[x] /\ state'[x] = state[x]
    BY <1>3 DEF Retry, TypeOK, Born
  <2> QED
    BY <1>1, <1>3, <2>1, <2>2, <2>3, NoStartKeepsAttempts DEF Retry
<1>4. ASSUME NEW o \in Jobs, DelayElapses(o) PROVE AInv'
  <2>1. Born' = Born /\ UNCHANGED <<starts, opts, attempt, state>>
    BY <1>4 DEF DelayElapses, Born
  <2> QED
    BY <1>1, <2>1, NoStartKeepsAttempts
<1>5. ASSUME NEW o \in Jobs, NEW outcome \in {"completed", "failed"}, MoveTo(o, outcome)
      PROVE  AInv'
  <2>1. Born' = Born
    BY <1>5 DEF MoveTo, Finish, TypeOK, Born
  <2>2. \A x \in Born : state'[x] = state[x] \/ state'[x] \in {"completed", "failed"}
    BY <1>5 DEF MoveTo, Finish, TypeOK, Born
  <2> QED
    BY <1>1, <1>5, <2>1, <2>2, NoStartKeepsAttempts DEF MoveTo
<1> QED
  BY <1>2, <1>3, <1>4, <1>5 DEF Remove, Empty, Clean, Start, Close, Tick, SetPaused

(* Ending a job, and the failures that may follow an emitted 'failed'.     *)
LEMMA FinishKeepsAttempts ==
  ASSUME AInv, TypeOK', NEW o \in Born, NEW outcome \in {"completed", "failed"},
         Finish(o, outcome),
         \/ attempt' = attempt
         \/ attempt' = [attempt EXCEPT ![o] = @ + 1],
         UNCHANGED <<starts, opts>>
  PROVE  AInv'
<1>1. \A x \in Born : x \in Jobs /\ attempt[x] \in Nat /\ attempt'[x] >= attempt[x]
  BY DEF AInv, TypeOK, Born
<1>2. Born' = Born
  BY DEF Finish, AInv, TypeOK, Born
<1>3. \A x \in Born : state'[x] = state[x] \/ state'[x] \in {"completed", "failed"}
  BY DEF Finish, AInv, TypeOK, Born
<1> QED
  BY <1>1, <1>2, <1>3, NoStartKeepsAttempts

LEMMA LoopKeepsAttempts ==
  ASSUME AInv, TypeOK', NEW p \in Polls, LoopStep(p)
  PROVE  AInv'
<1>1. \A x \in Born : x \in Jobs /\ attempt[x] \in Nat
  BY DEF AInv, TypeOK, Born
<1>2. CASE LoopEnds(p)
  <2>1. Born' = Born /\ UNCHANGED <<starts, opts, attempt, state>>
    BY <1>2 DEF LoopEnds, jobVars, Born
  <2> QED
    BY <1>1, <2>1, NoStartKeepsAttempts
<1>3. ASSUME NEW o \in Jobs, FailExceeded(p, o) PROVE AInv'
  <2>1. o \in Born
    BY <1>3, NextIsBorn DEF FailExceeded, AInv
  <2> QED
    BY <1>3, <2>1, FinishKeepsAttempts DEF FailExceeded
<1>4. ASSUME NEW o \in Jobs, StartJob(p, o) PROVE AInv'
  BY <1>4, StartKeepsAttempts
<1>5. ASSUME NEW o \in Jobs, ListenerStopsLoop(p, o) PROVE AInv'
  <2>1. o \in Born
    BY <1>5, NextIsBorn DEF ListenerStopsLoop, AInv
  <2>2. Born' = Born
    BY <1>5, <2>1 DEF ListenerStopsLoop, AInv, TypeOK, Born
  <2>3. \A x \in Born : state'[x] = state[x] \/ state'[x] = "active"
    BY <1>5 DEF ListenerStopsLoop, AInv, TypeOK, Born
  <2> QED
    BY <1>1, <1>5, <2>2, <2>3, NoStartKeepsAttempts DEF ListenerStopsLoop
<1>6. ASSUME NEW o \in Jobs, EmitFailed(p, o) PROVE AInv'
  <2>1. o \in Born
    BY <1>6 DEF EmitFailed, AInv, TypeOK
  <2>2. Born' = Born
    BY <1>6, <2>1 DEF EmitFailed, AInv, TypeOK, Born
  <2>3. \A x \in Born : \/ attempt'[x] = attempt[x] /\ state'[x] = state[x]
                       \/ attempt'[x] > attempt[x]
    BY <1>1, <1>6 DEF EmitFailed, AInv, TypeOK
  <2> QED
    BY <1>1, <1>6, <2>2, <2>3, NoStartKeepsAttempts DEF EmitFailed, AInv, TypeOK
<1> QED
  BY <1>2, <1>3, <1>4, <1>5, <1>6 DEF LoopStep

LEMMA FailureKeepsAttempts ==
  ASSUME AInv, TypeOK', NEW p \in Polls, pc[p] = "running",
         RetryLater(p, current[p]) \/ GiveUp(p, current[p]),
         UNCHANGED <<starts, opts>>
  PROVE  AInv'
<1> DEFINE o == current[p]
<1>1. o \in Born
  BY CurrentIsBorn DEF AInv
<1>2. \A x \in Born : x \in Jobs /\ attempt[x] \in Nat /\ attempt'[x] \in Nat
  BY DEF AInv, TypeOK, Born
<1>3. CASE RetryLater(p, o)
  <2>1. Born' = Born
    BY <1>1, <1>3 DEF RetryLater, AInv, TypeOK, Born
  <2>2. attempt'[o] > attempt[o]
    BY <1>1, <1>2, <1>3 DEF RetryLater, AInv, TypeOK
  <2>3. \A x \in Born : x # o => attempt'[x] = attempt[x] /\ state'[x] = state[x]
    BY <1>2, <1>3 DEF RetryLater, AInv, TypeOK
  <2> QED
    BY <1>2, <2>1, <2>2, <2>3, NoStartKeepsAttempts
<1>4. CASE GiveUp(p, o)
  <2>1. CASE Finish(o, "failed")
    <3>1. attempt' = attempt \/ attempt' = [attempt EXCEPT ![o] = @ + 1]
      BY <1>4 DEF GiveUp
    <3> QED
      BY <1>1, <2>1, <3>1, FinishKeepsAttempts
  <2>2. CASE UNCHANGED <<jobs, state, attempt>>
    <3>1. Born' = Born
      BY <2>2 DEF Born
    <3> QED
      BY <1>2, <2>2, <3>1, NoStartKeepsAttempts
  <2> QED
    BY <1>4, <2>1, <2>2 DEF GiveUp
<1> QED
  BY <1>3, <1>4

LEMMA SettleKeepsAttempts ==
  ASSUME AInv, TypeOK', NEW p \in Polls, Settle(p)
  PROVE  AInv'
<1>1. CASE Complete(p)
  <2>1. current[p] \in Born
    BY <1>1, CurrentIsBorn DEF Complete, AInv
  <2> QED
    BY <1>1, <2>1, FinishKeepsAttempts DEF Complete
<1>2. CASE ProcessorRejects(p) \/ TimeoutFires(p)
  BY <1>2, FailureKeepsAttempts DEF ProcessorRejects, TimeoutFires
<1> QED
  BY <1>1, <1>2 DEF Settle

(* The processor is never called on a job more often than its attempts,    *)
(* whatever the application calls and however the polls overlap.           *)
THEOREM AttemptsAreBounded == Spec => []AttemptBound
<1>1. Init => AttemptInv /\ FreshInv
  BY DEF Init, AttemptInv, FreshInv, Born
<1>2. ASSUME TypeOK, TypeOK', AttemptInv, FreshInv, [Next]_vars
      PROVE  AttemptInv' /\ FreshInv'
  <2> USE DEF AInv
  <2>1. CASE Application
    BY <1>2, <2>1, AddKeepsAttempts, CallsKeepAttempts DEF Application
  <2>2. ASSUME NEW o \in Jobs, DelayElapses(o) PROVE AInv'
    BY <1>2, <2>2, CallsKeepAttempts
  <2>3. ASSUME NEW w \in Workers, Start(w) \/ Tick(w) PROVE AInv'
    BY <1>2, <2>3, CallsKeepAttempts
  <2>4. ASSUME NEW p \in Polls, LoopStep(p) \/ Settle(p) PROVE AInv'
    BY <1>2, <2>4, LoopKeepsAttempts, SettleKeepsAttempts
  <2>5. CASE UNCHANGED vars
    BY <1>2, <2>5 DEF vars, jobVars, AttemptInv, FreshInv, Spent, Born
  <2> QED
    BY <1>2, <2>1, <2>2, <2>3, <2>4, <2>5 DEF Next
<1>3. AttemptInv => AttemptBound
  BY DEF AttemptInv, Spent, AttemptBound
<1> QED
  BY <1>1, <1>2, <1>3, TypeCorrect, PTL DEF Spec

-----------------------------------------------------------------------------
(* Exclusion.  The job a poll awaits is active and has attempts left, so   *)
(* that no other poll's loop starts it or fails it as exceeded.            *)
RunInv ==
  \A p \in Polls :
    pc[p] = "running" => /\ state[current[p]] = "active"
                         /\ ~Exceeded(current[p])

XInv == TypeOK /\ RunInv /\ ExclusiveRun

(* Nobody calls retry() or a moveTo method on an active job; a listener of *)
(* 'failed' might, when another poll has started the job meanwhile.        *)
ActiveLeftAlone ==
  "active" \notin RetryFrom /\ "moveTo" \notin Calls /\ "retry" \notin Listeners

(* A step that begins no run and leaves the jobs of the runs that go on    *)
(* as they are keeps the invariant.                                        *)
LEMMA NoNewRun ==
  ASSUME XInv, TypeOK',
         \A q \in Polls : pc'[q] = "running" =>
           /\ pc[q] = "running"
           /\ current'[q] = current[q]
           /\ state'[current[q]] = state[current[q]]
           /\ attempt'[current[q]] = attempt[current[q]]
           /\ opts'[current[q]] = opts[current[q]]
  PROVE  XInv'
<1>1. RunInv'
  BY DEF XInv, RunInv, Exceeded
<1>2. ExclusiveRun'
  BY DEF XInv, ExclusiveRun
<1> QED
  BY <1>1, <1>2 DEF XInv

(* A job a loop stops at is awaited by no poll.                            *)
LEMMA NextIsNotAwaited ==
  ASSUME XInv, NEW p \in Polls, NEW o, IsNext(p, o)
  PROVE  \A q \in Polls : pc[q] = "running" => current[q] # o
  BY DEF XInv, RunInv, IsNext, Stops, Startable

LEMMA CallsKeepRuns ==
  ASSUME ActiveLeftAlone, XInv, TypeOK',
         \/ Application
         \/ \E o \in Jobs : DelayElapses(o)
         \/ \E w \in Workers : Start(w)
  PROVE  XInv'
<1> DEFINE Awaited == {current[q] : q \in {r \in Polls : pc[r] = "running"}}
<1>1. \A x \in Awaited : x \in Born /\ x \in Jobs /\ state[x] = "active"
  BY DEF XInv, RunInv, TypeOK, Born
<1>2. ASSUME UNCHANGED pollVars,
             \A x \in Awaited : /\ state'[x] = state[x]
                                /\ attempt'[x] = attempt[x]
                                /\ opts'[x] = opts[x]
      PROVE  XInv'
  BY <1>2, NoNewRun DEF pollVars
<1> HIDE DEF Awaited
<1>3. ASSUME NEW o \in Jobs, NEW op \in Options, NEW t, Add(o, op, t) PROVE XInv'
  <2>1. \A x \in Awaited : x # o
    BY <1>1, <1>3 DEF Add, Born
  <2> QED
    BY <1>1, <1>2, <1>3, <2>1 DEF Add, XInv, TypeOK
<1>4. ASSUME NEW o \in Jobs, Retry(o) PROVE XInv'
  <2>1. \A x \in Awaited : x # o
    BY <1>1, <1>4 DEF Retry, ActiveLeftAlone
  <2> QED
    BY <1>1, <1>2, <1>4, <2>1 DEF Retry, XInv, TypeOK
<1>5. ASSUME UNCHANGED pollVars, UNCHANGED <<state, attempt, opts>> PROVE XInv'
  BY <1>2, <1>5
<1> QED
  BY <1>3, <1>4, <1>5
  DEF Application, ActiveLeftAlone, MoveTo, Remove, Empty, Clean, Close, Start,
      SetPaused, DelayElapses, jobVars

LEMMA TickKeepsRuns ==
  ASSUME XInv, TypeOK', NEW w \in Workers, Tick(w)
  PROVE  XInv'
<1>1. PICK s \in Slots : pc' = [pc EXCEPT ![<<w, s>>] = "fetched"]
  BY DEF Tick
<1>2. \A q \in Polls : pc'[q] = "running" => pc[q] = "running"
  BY <1>1 DEF XInv, TypeOK
<1> QED
  BY <1>2, NoNewRun DEF Tick, jobVars

LEMMA LoopKeepsRuns ==
  ASSUME ActiveLeftAlone, XInv, TypeOK', NEW p \in Polls, LoopStep(p)
  PROVE  XInv'
<1>1. CASE LoopEnds(p)
  BY <1>1, NoNewRun DEF LoopEnds, End, XInv, TypeOK, jobVars
<1>2. ASSUME NEW o \in Jobs, FailExceeded(p, o) PROVE XInv'
  <2>1. \A q \in Polls : pc[q] = "running" => current[q] # o /\ current[q] \in Jobs
    BY <1>2, NextIsNotAwaited DEF FailExceeded, XInv, TypeOK, Born
  <2>2. \A x \in Jobs \ {o} : state'[x] = state[x] /\ attempt'[x] = attempt[x]
    BY <1>2 DEF FailExceeded, Finish, XInv, TypeOK
  <2>3. \A q \in Polls : pc'[q] = "running" => pc[q] = "running"
    BY <1>2 DEF FailExceeded, Continue, XInv, TypeOK
  <2> QED
    BY <1>2, <2>1, <2>2, <2>3, NoNewRun DEF FailExceeded
<1>3. ASSUME NEW o \in Jobs, ListenerStopsLoop(p, o) PROVE XInv'
  <2>1. \A q \in Polls : pc[q] = "running" => current[q] # o /\ current[q] \in Jobs
    BY <1>3, NextIsNotAwaited DEF ListenerStopsLoop, XInv, TypeOK, Born
  <2>2. \A x \in Jobs \ {o} : state'[x] = state[x]
    BY <1>3 DEF ListenerStopsLoop, XInv, TypeOK
  <2>3. \A q \in Polls : pc'[q] = "running" =>
          pc[q] = "running" /\ current'[q] = current[q]
    BY <1>3 DEF ListenerStopsLoop, End, XInv, TypeOK
  <2> QED
    BY <1>3, <2>1, <2>2, <2>3, NoNewRun DEF ListenerStopsLoop
<1>4. ASSUME NEW o \in Jobs, StartJob(p, o) PROVE XInv'
  <2>1. \A q \in Polls : pc[q] = "running" => current[q] # o /\ current[q] \in Jobs
    BY <1>4, NextIsNotAwaited DEF StartJob, XInv, TypeOK, Born
  <2>2. /\ state'[o] = "active"
        /\ \A x \in Jobs \ {o} : state'[x] = state[x]
    BY <1>4 DEF StartJob, XInv, TypeOK
  <2>3. /\ current'[p] = o
        /\ \A q \in Polls \ {p} : pc'[q] = pc[q] /\ current'[q] = current[q]
    BY <1>4 DEF StartJob, Continue, XInv, TypeOK
  <2>4. ~Exceeded(o)'
    BY <1>4 DEF StartJob, Exceeded
  <2>5. RunInv'
    BY <1>4, <2>1, <2>2, <2>3, <2>4 DEF RunInv, XInv, StartJob, Exceeded
  <2>6. ExclusiveRun'
    BY <2>1, <2>3 DEF ExclusiveRun, XInv
  <2> QED
    BY <2>5, <2>6 DEF XInv
<1>5. ASSUME NEW o \in Jobs, EmitFailed(p, o) PROVE XInv'
  <2>1. \A q \in Polls : pc'[q] = "running" =>
          pc[q] = "running" /\ current'[q] = current[q]
    BY <1>5 DEF EmitFailed, GoOnOrAbort, XInv, TypeOK
  <2>2. UNCHANGED <<state, attempt, opts>>
    BY <1>5 DEF EmitFailed, ListenerRetries, ActiveLeftAlone
  <2> QED
    BY <2>1, <2>2, NoNewRun
<1> QED
  BY <1>1, <1>2, <1>3, <1>4, <1>5 DEF LoopStep

LEMMA SettleKeepsRuns ==
  ASSUME XInv, TypeOK', NEW p \in Polls, Settle(p)
  PROVE  XInv'
<1> DEFINE o == current[p]
<1>1. pc[p] = "running" /\ o \in Jobs
  BY DEF Settle, Complete, ProcessorRejects, TimeoutFires, XInv, TypeOK, Born
<1>2. \A q \in Polls \ {p} :
        pc[q] = "running" => current[q] # o /\ current[q] \in Jobs
  BY <1>1 DEF XInv, ExclusiveRun, TypeOK, Born
<1>3. opts' = opts
  BY DEF Settle, Complete, ProcessorRejects, TimeoutFires
<1>4. /\ pc'[p] # "running"
      /\ \A q \in Polls \ {p} : pc'[q] = pc[q] /\ current'[q] = current[q]
  BY DEF Settle, Complete, ProcessorRejects, TimeoutFires, RetryLater, GiveUp,
         GoOnOrAbort, End, XInv, TypeOK
<1>5. \A x \in Jobs \ {o} : state'[x] = state[x] /\ attempt'[x] = attempt[x]
  <2>1. CASE Complete(p)
    BY <2>1 DEF Complete, Finish, XInv, TypeOK
  <2>2. CASE RetryLater(p, o)
    BY <2>2 DEF RetryLater, XInv, TypeOK
  <2>3. CASE GiveUp(p, o)
    BY <2>3 DEF GiveUp, Finish, XInv, TypeOK
  <2> QED
    BY <2>1, <2>2, <2>3 DEF Settle, ProcessorRejects, TimeoutFires
<1> QED
  BY <1>2, <1>3, <1>4, <1>5, NoNewRun

LEMMA RunsInductive ==
  ASSUME ActiveLeftAlone
  PROVE  Spec => []XInv
<1>1. Init => RunInv /\ ExclusiveRun
  BY DEF Init, RunInv, ExclusiveRun
<1>2. ASSUME TypeOK, TypeOK', RunInv, ExclusiveRun, [Next]_vars
      PROVE  RunInv' /\ ExclusiveRun'
  <2>1. CASE Application \/ \E o \in Jobs : DelayElapses(o)
    BY <1>2, <2>1, CallsKeepRuns DEF XInv
  <2>2. ASSUME NEW w \in Workers, Start(w) \/ Tick(w) PROVE XInv'
    BY <1>2, <2>2, CallsKeepRuns, TickKeepsRuns DEF XInv
  <2>3. ASSUME NEW p \in Polls, LoopStep(p) \/ Settle(p) PROVE XInv'
    BY <1>2, <2>3, LoopKeepsRuns, SettleKeepsRuns DEF XInv
  <2>4. CASE UNCHANGED vars
    BY <1>2, <2>4 DEF vars, jobVars, pollVars, RunInv, ExclusiveRun, Exceeded
  <2> QED
    BY <1>2, <2>1, <2>2, <2>3, <2>4 DEF Next, XInv
<1> QED
  BY <1>1, <1>2, TypeCorrect, PTL DEF Spec, XInv

(* Overlapping polls never await the processor of the same job, provided   *)
(* that the application leaves active jobs alone.                          *)
THEOREM RunsAreExclusive ==
  ASSUME ActiveLeftAlone
  PROVE  Spec => []ExclusiveRun
<1>1. XInv => ExclusiveRun
  BY DEF XInv
<1> QED
  BY <1>1, RunsInductive, PTL

-----------------------------------------------------------------------------
(* No job the Map holds is hidden from the getters by its removal options. *)
Shown(o) ==
  /\ state[o] = "completed" => ~ShouldRemove(opts[o].removeOnComplete)
  /\ state[o] = "failed" => ~ShouldRemove(opts[o].removeOnFail)

ShownInv == \A o \in jobs : Shown(o)

LEMMA FinishKeepsShown ==
  ASSUME TypeOK, ShownInv, UNCHANGED opts,
         NEW o \in Born, NEW s \in {"completed", "failed"}, Finish(o, s)
  PROVE  ShownInv'
<1>1. /\ o \in Jobs /\ state' = [state EXCEPT ![o] = s]
      /\ o \in jobs => o \in Holders(Id(o))
  BY DEF Finish, Born, Holders
<1>2. jobs' \subseteq jobs
  BY DEF Finish, JobsAfter
<1>3. o \in jobs' => Shown(o)'
  BY <1>1, <1>2 DEF Finish, JobsAfter, Shown, TypeOK
<1>4. \A x \in jobs' \ {o} : Shown(x)'
  BY <1>1, <1>2 DEF ShownInv, Shown, TypeOK, Born
<1> QED
  BY <1>3, <1>4 DEF ShownInv

LEMMA StepKeepsShown ==
  ASSUME TypeOK, ShownInv, [Next]_vars
  PROVE  ShownInv'
<1>1. ASSUME NEW o \in Jobs, NEW op \in Options, NEW t, Add(o, op, t) PROVE ShownInv'
  <2>1. o \notin jobs /\ jobs' \subseteq jobs \union {o} /\ jobs \subseteq Jobs
    BY <1>1 DEF Add, TypeOK, Born
  <2>2. /\ state'[o] \in {"waiting", "delayed"}
        /\ \A x \in Jobs \ {o} : state'[x] = state[x] /\ opts'[x] = opts[x]
    BY <1>1 DEF Add, TypeOK
  <2> QED
    BY <2>1, <2>2 DEF ShownInv, Shown
<1>2. ASSUME jobs' \subseteq jobs, UNCHANGED opts,
             \A x \in jobs : state'[x] \in {state[x], "waiting", "delayed", "active"}
      PROVE  ShownInv'
  BY <1>2 DEF ShownInv, Shown
<1>3. ASSUME NEW p \in Polls, Settle(p) PROVE ShownInv'
  <2>1. current[p] \in Born
    BY <1>3, CurrentIsBorn DEF Settle, Complete, ProcessorRejects, TimeoutFires
  <2>2. opts' = opts
    BY <1>3 DEF Settle, Complete, ProcessorRejects, TimeoutFires
  <2>3. CASE RetryLater(p, current[p])
    BY <1>2, <2>2, <2>3 DEF RetryLater, TypeOK, Born
  <2>4. CASE GiveUp(p, current[p])
    BY <1>2, <2>1, <2>2, <2>4, FinishKeepsShown DEF GiveUp
  <2> QED
    BY <1>3, <2>1, <2>2, <2>3, <2>4, FinishKeepsShown
    DEF Settle, Complete, ProcessorRejects, TimeoutFires
<1>4. ASSUME NEW p \in Polls, LoopStep(p) PROVE ShownInv'
  <2>1. ASSUME NEW o \in Jobs, FailExceeded(p, o) PROVE ShownInv'
    BY <2>1, NextIsBorn, FinishKeepsShown DEF FailExceeded
  <2>2. ASSUME NEW o \in Jobs, StartJob(p, o) \/ ListenerStopsLoop(p, o) PROVE ShownInv'
    BY <1>2, <2>2 DEF StartJob, ListenerStopsLoop, TypeOK, Born
  <2>3. ASSUME NEW o \in Jobs, EmitFailed(p, o) PROVE ShownInv'
    BY <1>2, <2>3 DEF EmitFailed, TypeOK, Born
  <2> QED
    BY <1>2, <1>4, <2>1, <2>2, <2>3 DEF LoopStep, LoopEnds, jobVars
<1>5. ASSUME NEW o \in Jobs, Retry(o) PROVE ShownInv'
  BY <1>2, <1>5 DEF Retry, TypeOK
<1>6. ASSUME NEW o \in Jobs, NEW s \in {"completed", "failed"}, MoveTo(o, s)
      PROVE  ShownInv'
  BY <1>6, FinishKeepsShown DEF MoveTo
<1>7. CASE \/ \E o \in Jobs : Remove(o) \/ DelayElapses(o)
           \/ Empty \/ UNCHANGED vars
           \/ \E before \in 1 .. now + 1, limit \in {0, 1},
                 type \in {JobStates} \union {{s} : s \in JobStates} :
                Clean(before, type, limit)
           \/ \E w \in Workers : \/ Close(w) \/ SetPaused(w, TRUE) \/ SetPaused(w, FALSE)
                                 \/ Start(w) \/ Tick(w)
  BY <1>2, <1>7
  DEF Remove, DelayElapses, Empty, Clean, Close, SetPaused, Start, Tick, jobVars, vars
<1> QED
  BY <1>1, <1>3, <1>4, <1>5, <1>6, <1>7 DEF Next, Application

(* The getters together show every job in the Map, whatever is called.     *)
THEOREM GettersHideNothing == Spec => []GettersCoverTheMap
<1>1. Init => ShownInv
  BY DEF Init, ShownInv
<1>2. TypeOK /\ ShownInv => GettersCoverTheMap
  BY DEF TypeOK, Born, JobStates, ShownInv, Shown, GettersCoverTheMap, InState,
         GetCompleted, GetFailed
<1> QED
  BY <1>1, <1>2, StepKeepsShown, TypeCorrect, PTL DEF Spec
-----------------------------------------------------------------------------
(* The order.  What a fresh poll starts is the first of its slice, so the  *)
(* property is about the sort, the slice and the loop together.            *)
Keys == [priority : Nat, lifo : BOOLEAN, createdAt : Nat, place : Nat]

LEMMA KeysOfTheBorn ==
  ASSUME TypeOK, NEW o \in Born
  PROVE  Key(o) \in Keys
<1>1. o \in Jobs /\ opts[o] \in Options
  BY DEF TypeOK, Born
<1>2. opts[o].priority \in Nat /\ opts[o].lifo \in BOOLEAN
  BY <1>1, OptionsAssumption
<1> QED
  BY <1>1, <1>2 DEF Key, Keys, TypeOK

LEMMA OrderOfKeys ==
  /\ \A a, b \in Keys : ~(VisitedBefore(a, b) /\ VisitedBefore(b, a))
  /\ \A a, b, c \in Keys :
       VisitedBefore(a, b) /\ VisitedBefore(b, c) => VisitedBefore(a, c)
<1>1. \A a, b \in Keys : ~(VisitedBefore(a, b) /\ VisitedBefore(b, a))
  BY DEF Keys, VisitedBefore, GoesFirst
<1>2. \A a, b, c \in Keys :
        VisitedBefore(a, b) /\ VisitedBefore(b, c) => VisitedBefore(a, c)
  BY DEF Keys, VisitedBefore, GoesFirst
<1> QED
  BY <1>1, <1>2

(* A job that outranks another one is visited before it.                   *)
LEMMA OutrankingGoesFirst ==
  ASSUME TypeOK, NEW x \in Born, NEW o \in Born, Outranks(x, o)
  PROVE  Before(x, o)
<1>1. Key(x) \in Keys /\ Key(o) \in Keys
  BY KeysOfTheBorn
<1> QED
  BY <1>1 DEF Keys, Key, Outranks, Before, VisitedBefore, GoesFirst

(* The slice has no gap: what goes before one of its keys is in it too.    *)
LEMMA SliceHasNoGap ==
  ASSUME NEW ks, ks \subseteq Keys, IsFiniteSet(ks),
         NEW k \in FirstKeys(ks, Concurrency), NEW j \in ks, VisitedBefore(j, k)
  PROVE  j \in FirstKeys(ks, Concurrency)
<1> DEFINE Ahead(x) == {y \in ks : VisitedBefore(y, x)}
<1>1. k \in ks /\ Cardinality(Ahead(k)) < Concurrency
  BY DEF FirstKeys
<1>2. Ahead(j) \subseteq Ahead(k) /\ Ahead(k) \subseteq ks
  BY <1>1, OrderOfKeys
<1>3. IsFiniteSet(Ahead(k))
  BY <1>2, FS_Subset
<1>4. IsFiniteSet(Ahead(j)) /\ Cardinality(Ahead(j)) <= Cardinality(Ahead(k))
  BY <1>2, <1>3, FS_Subset
<1>5. Cardinality(Ahead(j)) \in Nat /\ Cardinality(Ahead(k)) \in Nat
  BY <1>3, <1>4, FS_CardinalityType
<1>6. Concurrency \in Nat
  BY ConstantsAssumption DEF ConstantsAssumption
<1>7. Cardinality(Ahead(j)) < Concurrency
  BY <1>1, <1>4, <1>5, <1>6
<1> QED
  BY <1>7 DEF FirstKeys

(* The batch of a poll has finitely many keys.                             *)
LEMMA FinitelyManyKeys ==
  ASSUME NEW S \in SUBSET Jobs
  PROVE  IsFiniteSet({Key(x) : x \in S})
<1> DEFINE T == {Key(x) : x \in S}
           f == [x \in S |-> Key(x)]
<1>1. IsFiniteSet(S)
  BY ConstantsAssumption, FS_Subset DEF ConstantsAssumption
<1>2. f \in Surjection(S, T)
  BY DEF Surjection
<1> HIDE DEF f, T
<1>3. IsFiniteSet(T)
  BY <1>1, <1>2, FS_Surjection
<1> QED
  BY <1>3 DEF T

(* The job a fresh poll stops at first is outranked by none it fetched     *)
(* that is ready to run.                                                   *)
LEMMA NextIsBest ==
  ASSUME TypeOK, NEW p \in Polls, pc[p] = "fetched", NEW o \in Jobs, IsNext(p, o),
         NEW x \in batch[p], due[x], state[x] \in {"waiting", "delayed"}
  PROVE  ~Outranks(x, o)
<1> DEFINE ready == {y \in batch[p] : due[y]}
           ks == {Key(y) : y \in ready}
<1> SUFFICES ASSUME Outranks(x, o) PROVE FALSE
  OBVIOUS
<1>1. /\ batch[p] \subseteq Born /\ x \in Born /\ x \in ready
      /\ ready \in SUBSET Jobs
  BY DEF TypeOK, Born
<1>2. o \in ready /\ Key(o) \in FirstKeys(ks, Concurrency)
  BY DEF IsNext, Stops, ToVisit, Selected
<1>3. o \in Born
  BY <1>1, <1>2
<1>4. VisitedBefore(Key(x), Key(o))
  BY <1>1, <1>3, OutrankingGoesFirst DEF Before
<1>5. ks \subseteq Keys /\ IsFiniteSet(ks)
  BY <1>1, KeysOfTheBorn, FinitelyManyKeys
<1>6. Key(x) \in ks
  BY <1>1
<1>7. Key(x) \in FirstKeys(ks, Concurrency)
  <2> HIDE DEF ks
  <2> QED
    BY <1>2, <1>4, <1>5, <1>6, SliceHasNoGap
<1>8. x \in Stops(p)
  BY <1>1, <1>7 DEF Stops, ToVisit, Selected, Startable
<1>9. Key(x) \in Keys /\ Key(o) \in Keys
  BY <1>1, <1>3, KeysOfTheBorn
<1>10. x # o
  BY <1>4, <1>9, OrderOfKeys
<1>11. VisitedBefore(Key(o), Key(x))
  BY <1>8, <1>10 DEF IsNext, Before
<1> QED
  BY <1>4, <1>9, <1>11, OrderOfKeys

(* The only step that takes a fresh poll into a run starts a job.          *)
LEMMA FreshPollStarts ==
  ASSUME TypeOK, [Next]_vars, NEW p \in Polls,
         pc[p] = "fetched", pc'[p] = "running"
  PROVE  \E o \in Jobs : StartJob(p, o)
<1>1. pc' # pc
  OBVIOUS
<1>2. ASSUME NEW w \in Workers, Tick(w) PROVE FALSE
  BY <1>2 DEF Tick, TypeOK
<1>3. ASSUME NEW q \in Polls, LoopStep(q) PROVE \E o \in Jobs : StartJob(p, o)
  <2>1. \A o \in Jobs : ~EmitFailed(q, o)
    BY DEF EmitFailed, GoOnOrAbort, TypeOK
  <2> QED
    BY <1>3, <2>1 DEF LoopStep, LoopEnds, FailExceeded, ListenerStopsLoop, StartJob,
                      Continue, End, TypeOK
<1>4. ASSUME NEW q \in Polls, Settle(q) PROVE FALSE
  BY <1>4 DEF Settle, Complete, ProcessorRejects, TimeoutFires, RetryLater, GiveUp,
              GoOnOrAbort, End, TypeOK
<1> QED
  BY <1>1, <1>2, <1>3, <1>4
  DEF Next, Application, Add, Remove, Retry, MoveTo, Empty, Clean, Close, SetPaused,
      DelayElapses, Start, vars, pollVars

(* A fresh poll starts one of the best of the jobs it fetched, whatever    *)
(* their priorities and the concurrency, and whatever the application and  *)
(* the other polls did since it fetched them.                              *)
THEOREM BestStartsFirst == Spec => BestFirst
<1>1. ASSUME TypeOK, [Next]_vars, NEW p \in Polls,
             pc[p] = "fetched", pc'[p] = "running",
             NEW x \in batch[p], due[x], state[x] \in {"waiting", "delayed"}
      PROVE  ~Outranks(x, current'[p])
  <2>1. PICK o \in Jobs : StartJob(p, o)
    BY <1>1, FreshPollStarts
  <2>2. current'[p] = o /\ IsNext(p, o)
    BY <1>1, <2>1 DEF StartJob, TypeOK
  <2> QED
    BY <1>1, <2>2, NextIsBest
<1>2. TypeOK /\ [Next]_vars =>
        [\A p \in Polls :
           pc[p] = "fetched" /\ pc'[p] = "running" =>
             \A x \in batch[p] :
               due[x] /\ state[x] \in {"waiting", "delayed"}
                 => ~Outranks(x, current'[p])]_vars
  BY <1>1
<1> QED
  BY <1>2, TypeCorrect, PTL DEF Spec, BestFirst
=============================================================================
