--------------------------- MODULE OciDriverProofs ---------------------------
(***************************************************************************)
(* Theorems about OciDriver, for every number of jobs, messages and        *)
(* overlapping polls: it is type correct, and through every fault it       *)
(* loses no job and puts no attempt too many.                              *)
(***************************************************************************)
EXTENDS OciDriver, TLAPS

Sent == {m \in Messages : status[m] # "unsent"}

Busy == {"running", "putting", "deleting"}

(* The message of a busy poll.                                             *)
LEMMA CurrentIsSent ==
  ASSUME TypeOK, NEW p \in Polls, pc[p] \in Busy
  PROVE  /\ current[p] \in Sent /\ current[p] \in Messages
         /\ jobOf[current[p]] \in Born /\ jobOf[current[p]] \in Jobs
         /\ jobOf[current[p]] # None
  BY ConstantsAssumption DEF TypeOK, Busy, Sent, Born

-----------------------------------------------------------------------------
(* Type correctness.                                                       *)

ServiceTypes ==
  /\ status \in [Messages -> {"unsent", "visible", "hidden", "deleted"}]
  /\ jobOf \in [Messages -> Jobs \union {None}]
  /\ \A m \in Messages : status[m] = "unsent" <=> jobOf[m] = None
  /\ attempt \in [Messages -> Nat]
  /\ due \in [Messages -> BOOLEAN]
  /\ DOMAIN opts = Jobs
  /\ \A j \in Born : opts[j] \in Options

PollTypes ==
  /\ pc \in [Polls -> {"idle", "fetched", "running", "putting", "deleting", "next"}]
  /\ batch \in [Polls -> SUBSET Sent]
  /\ \A p \in Polls :
       IF pc[p] \in Busy
         THEN current[p] \in Messages /\ jobOf[current[p]] # None
         ELSE current[p] = None
  /\ DOMAIN current = Polls
  /\ held \in [Polls -> Nat]

RestTypes ==
  /\ isRunning \in BOOLEAN /\ listening \in BOOLEAN
  /\ removing \in Sent \union {None}
  /\ starts \in [Jobs -> Nat]
  /\ outcomes \in [Jobs -> SUBSET Outcomes]

LEMMA TypeParts == ServiceTypes' /\ PollTypes' /\ RestTypes' => TypeOK'
  BY DEF TypeOK, ServiceTypes, PollTypes, RestTypes, Sent, Busy

(* Most steps put no message, and change at most whether those there are   *)
(* visible, hidden or deleted.                                             *)
NoPut ==
  /\ UNCHANGED <<jobOf, attempt, opts>>
  /\ due' \in [Messages -> BOOLEAN]
  /\ status' \in [Messages -> {"unsent", "visible", "hidden", "deleted"}]
  /\ \A m \in Messages : status'[m] = "unsent" <=> status[m] = "unsent"

LEMMA NoPutKeeps ==
  ASSUME TypeOK, NoPut
  PROVE  Sent' = Sent /\ Born' = Born /\ ServiceTypes'
  BY DEF TypeOK, NoPut, Sent, Born, ServiceTypes

LEMMA DeliverIsNoPut ==
  ASSUME TypeOK, Deliver(Visible), UNCHANGED messageVars
  PROVE  NoPut
  BY DEF TypeOK, Deliver, Visible, messageVars, NoPut

LEMMA DeleteIsNoPut ==
  ASSUME TypeOK, NEW m \in Sent, Delete(m), UNCHANGED messageVars
  PROVE  NoPut
  BY DEF TypeOK, Delete, Sent, messageVars, NoPut

LEMMA StayIsNoPut ==
  ASSUME TypeOK, UNCHANGED <<status, messageVars>>
  PROVE  NoPut
  BY DEF TypeOK, messageVars, NoPut

(* The others put one new message, and leave those there alone.            *)
KnowsOptions(j) ==
  \/ opts' = opts /\ j \in Born
  \/ \E op \in Options : opts' = [opts EXCEPT ![j] = op]

LEMMA PutKeeps ==
  ASSUME TypeOK, NEW m \in Messages, NEW j \in Jobs, NEW n \in Nat,
         NEW ready \in BOOLEAN, Put(m, j, n, ready), KnowsOptions(j)
  PROVE  /\ ServiceTypes' /\ m \notin Sent
         /\ Sent' = Sent \union {m}
         /\ Born' = Born \union {j}
         /\ jobOf'[m] = j
         /\ attempt'[m] = n
         /\ status'[m] = "visible"
         /\ \A x \in Messages \ {m} :
              status'[x] = status[x] /\ jobOf'[x] = jobOf[x] /\ attempt'[x] = attempt[x]
<1>1. /\ m \notin Sent /\ m \in Messages
      /\ jobOf'[m] = j /\ attempt'[m] = n /\ status'[m] = "visible"
      /\ \A x \in Messages \ {m} :
           status'[x] = status[x] /\ jobOf'[x] = jobOf[x] /\ attempt'[x] = attempt[x]
  BY DEF TypeOK, Put, Sent
<1>2. Sent' = Sent \union {m}
  BY <1>1 DEF Sent
<1>3. Born' = Born \union {j}
  BY <1>1, ConstantsAssumption DEF TypeOK, Born, Sent
<1>4. \A x \in Born' : opts'[x] \in Options
  BY <1>3 DEF TypeOK, Born, KnowsOptions
<1>5. ServiceTypes'
  BY <1>1, <1>4, ConstantsAssumption DEF TypeOK, Put, ServiceTypes, KnowsOptions
<1> QED
  BY <1>1, <1>2, <1>3, <1>5

(* Polls that neither end nor move on.                                     *)
LEMMA PollsKept ==
  ASSUME TypeOK, NoPut, UNCHANGED <<pc, batch, current>>, held' \in [Polls -> Nat]
  PROVE  PollTypes'
  BY NoPutKeeps DEF TypeOK, NoPut, PollTypes, Sent, Busy

LEMMA AddPuts ==
  ASSUME TypeOK, NEW j \in Jobs, NEW op \in Options, NEW m \in Messages, Add(j, op, m)
  PROVE  /\ Sent' = Sent \union {m} /\ Born' = Born \union {j}
         /\ jobOf'[m] = j /\ attempt'[m] = 1 /\ status'[m] = "visible" /\ opts'[j] = op
<1>1. PICK ready \in BOOLEAN : Put(m, j, 1, ready)
  BY DEF Add
<1>2. KnowsOptions(j) /\ opts'[j] = op
  BY DEF Add, KnowsOptions, TypeOK
<1>3. /\ Sent' = Sent \union {m} /\ Born' = Born \union {j}
      /\ jobOf'[m] = j /\ attempt'[m] = 1 /\ status'[m] = "visible"
  BY <1>1, <1>2, PutKeeps
<1> QED
  BY <1>2, <1>3

LEMMA AddTypes ==
  ASSUME TypeOK, NEW j \in Jobs, NEW op \in Options, NEW m \in Messages, Add(j, op, m)
  PROVE  TypeOK'
<1>1. Put(m, j, 1, ~op.delay) /\ KnowsOptions(j)
  BY DEF Add, KnowsOptions
<1>2. ServiceTypes' /\ Sent \subseteq Sent' /\ \A x \in Sent : jobOf'[x] = jobOf[x]
  BY <1>1, PutKeeps DEF Sent
<1>3. PollTypes'
  BY <1>2 DEF TypeOK, Add, pollVars, PollTypes, Sent, Busy
<1>4. RestTypes'
  BY <1>2 DEF TypeOK, Add, workerVars, history, RestTypes, Sent
<1> QED
  BY <1>2, <1>3, <1>4, TypeParts

LEMMA CallTypes ==
  ASSUME TypeOK,
         \/ Peek \/ RemoveReturns \/ Start \/ Close \/ Listen \/ UNCHANGED vars
         \/ \E m \in Messages : Remove(m) \/ Reappear(m) \/ DelayElapses(m)
         \/ \E p \in Polls : Retry(p) \/ RemoveOwn(p)
  PROVE  TypeOK'
<1>1. NoPut
  <2>1. CASE RemoveReturns
    BY <2>1, DeleteIsNoPut, StayIsNoPut DEF RemoveReturns, TypeOK, Sent
  <2>2. CASE \E m \in Messages : Reappear(m) \/ DelayElapses(m)
    BY <2>2 DEF Reappear, DelayElapses, TypeOK, NoPut, messageVars
  <2> QED
    BY <2>1, <2>2, DeliverIsNoPut, StayIsNoPut
    DEF Peek, Start, Close, Listen, vars, Remove, Retry, RemoveOwn
<1>2. UNCHANGED <<pc, batch, current>> /\ held' \in [Polls -> Nat]
  BY DEF TypeOK, pollVars, vars, Peek, Start, Close, Listen, Remove, RemoveOwn, RemoveReturns,
         Retry, Reappear, DelayElapses
<1>3. removing' \in Sent \union {None}
  <2>1. ASSUME NEW p \in Polls, RemoveOwn(p) PROVE current[p] \in Sent
    BY <2>1, CurrentIsSent DEF RemoveOwn, Busy
  <2> QED
    BY <2>1 DEF TypeOK, Sent, Visible, vars, Peek, Start, Close, Listen, Remove, RemoveOwn,
                RemoveReturns, Retry, Reappear, DelayElapses
<1>4. UNCHANGED starts /\ isRunning' \in BOOLEAN /\ listening' \in BOOLEAN
  BY DEF TypeOK, workerVars, history, vars, Peek, Start, Close, Listen, Remove, RemoveOwn,
         RemoveReturns, Retry, Reappear, DelayElapses
<1>5. outcomes' \in [Jobs -> SUBSET Outcomes]
  <2>1. CASE RemoveReturns
    BY <2>1 DEF TypeOK, Outcomes, RemoveReturns
  <2> QED
    BY <2>1 DEF TypeOK, history, vars, Peek, Start, Close, Listen, Remove, RemoveOwn,
                Retry, Reappear, DelayElapses
<1> QED
  BY <1>1, <1>2, <1>3, <1>4, <1>5, NoPutKeeps, PollsKept, TypeParts DEF TypeOK, RestTypes

(* A step of one poll, up to what it puts.                                 *)
PollMoves(p) ==
  /\ \/ End(p)
     \/ DoneWithJob(p)
     \/ pc[p] \in Busy /\ \E step \in Busy : pc' = [pc EXCEPT ![p] = step]
          /\ UNCHANGED <<batch, current>> /\ held' \in [Polls -> Nat]
  /\ UNCHANGED <<workerVars, removing>>
  /\ starts' = starts
  /\ outcomes' \in [Jobs -> SUBSET Outcomes]

LEMMA MovesTypes ==
  ASSUME TypeOK, NEW p \in Polls, PollMoves(p), ServiceTypes', Sent \subseteq Sent',
         \A x \in Sent : jobOf'[x] = jobOf[x]
  PROVE  TypeOK'
<1>1. \A q \in Polls : pc[q] \in Busy => current[q] \in Sent
  BY CurrentIsSent
<1>2. /\ pc' \in [Polls -> {"idle", "fetched", "running", "putting", "deleting", "next"}]
      /\ batch' \in [Polls -> SUBSET Sent]
      /\ DOMAIN current' = Polls /\ held' \in [Polls -> Nat]
  BY DEF PollMoves, End, DoneWithJob, TypeOK, Sent, Busy
<1>3. \A q \in Polls : IF pc'[q] \in Busy THEN pc[q] \in Busy /\ current'[q] = current[q]
                                          ELSE current'[q] = None
  BY DEF PollMoves, End, DoneWithJob, TypeOK, Busy
<1>4. PollTypes'
  BY <1>1, <1>2, <1>3, CurrentIsSent DEF PollTypes, Sent
<1>5. RestTypes'
  BY DEF PollMoves, TypeOK, RestTypes, workerVars, Sent
<1> QED
  BY <1>4, <1>5, TypeParts

(* A poll that fails ends, or takes the process with it.                   *)
LEMMA FailingEnds ==
  ASSUME NEW p \in Polls, FetchFails(p) \/ RequeueFails(p) \/ ListenerThrows(p)
  PROVE  (End(p) /\ UNCHANGED <<workerVars, removing>>) \/ ProcessDies
  BY DEF FetchFails, RequeueFails, ListenerThrows, PollFails

LEMMA FailTypes ==
  ASSUME TypeOK, ServiceTypes', Sent \subseteq Sent', \A x \in Sent : jobOf'[x] = jobOf[x],
         UNCHANGED history,
         \/ ProcessDies
         \/ \E p \in Polls : End(p) /\ UNCHANGED <<workerVars, removing>>
  PROVE  TypeOK'
<1>1. CASE ProcessDies
  <2>1. PollTypes' /\ RestTypes'
    BY <1>1 DEF ProcessDies, TypeOK, PollTypes, RestTypes, Busy, history
  <2> QED
    BY <2>1, TypeParts
<1>2. ASSUME NEW p \in Polls, End(p), UNCHANGED <<workerVars, removing>> PROVE TypeOK'
  <2>1. PollMoves(p)
    BY <1>2 DEF PollMoves, TypeOK, history
  <2> QED
    BY <2>1, MovesTypes
<1> QED
  BY <1>1, <1>2

LEMMA LoopTypes ==
  ASSUME TypeOK, NEW p \in Polls,
         Fetch(p) \/ Select(p) \/ \E m \in Messages : StartJob(p, m)
  PROVE  TypeOK'
<1>1. NoPut
  BY DeliverIsNoPut, StayIsNoPut DEF Fetch, Select, StartJob
<1>2. RestTypes'
  <2>1. starts' \in [Jobs -> Nat]
    <3>1. ASSUME NEW m \in Messages, StartJob(p, m) PROVE starts' \in [Jobs -> Nat]
      BY <3>1, ConstantsAssumption DEF StartJob, TypeOK
    <3> QED
      BY <3>1 DEF TypeOK, Fetch, Select, history
  <2> QED
    BY <1>1, <2>1, NoPutKeeps
    DEF TypeOK, RestTypes, Sent, Fetch, Select, StartJob, workerVars, history
<1>3. PollTypes'
  <2>1. CASE Fetch(p)
    BY <1>1, <2>1, NoPutKeeps DEF Fetch, Visible, TypeOK, NoPut, PollTypes, Sent, Busy
  <2>2. CASE Select(p)
    BY <1>1, <2>2, NoPutKeeps DEF Select, TypeOK, NoPut, PollTypes, Sent, Busy
  <2>3. ASSUME NEW m \in Messages, StartJob(p, m) PROVE PollTypes'
    <3>1. m \in Sent /\ jobOf[m] # None
      BY <2>3 DEF StartJob, TypeOK, Sent
    <3> QED
      BY <1>1, <2>3, <3>1, NoPutKeeps DEF StartJob, TypeOK, NoPut, PollTypes, Sent, Busy
  <2> QED
    BY <2>1, <2>2, <2>3
<1> QED
  BY <1>1, <1>2, <1>3, NoPutKeeps, TypeParts

LEMMA DisposeMoves ==
  ASSUME TypeOK, NEW p \in Polls, pc[p] = "running",
         NEW s \in {"completed", "failed"}, Dispose(p, current[p], s),
         UNCHANGED <<workerVars, removing, starts>>
  PROVE  PollMoves(p)
  BY DEF Dispose, PollMoves, Await, TypeOK, Busy, Outcomes

LEMMA PutRetryKeeps ==
  ASSUME TypeOK, NEW p \in Polls, NEW m \in Messages, PutRetry(p, m)
  PROVE  /\ ServiceTypes'
         /\ m \notin Sent /\ Sent' = Sent \union {m} /\ Born' = Born
         /\ jobOf'[m] = jobOf[current[p]] /\ attempt'[m] = held[p]
         /\ status'[m] = "visible"
         /\ \A x \in Messages \ {m} :
              status'[x] = status[x] /\ jobOf'[x] = jobOf[x] /\ attempt'[x] = attempt[x]
<1>1. jobOf[current[p]] \in Jobs /\ jobOf[current[p]] \in Born /\ held[p] \in Nat
  BY CurrentIsSent DEF PutRetry, Busy, TypeOK
<1>2. PICK ready \in BOOLEAN : Put(m, jobOf[current[p]], held[p], ready) /\ opts' = opts
  BY DEF PutRetry
<1> DEFINE j == jobOf[current[p]]
           n == held[p]
<1>3. j \in Jobs /\ j \in Born /\ n \in Nat /\ Put(m, j, n, ready) /\ KnowsOptions(j)
  BY <1>1, <1>2 DEF KnowsOptions
<1> HIDE DEF j, n
<1>4. /\ ServiceTypes'
      /\ m \notin Sent /\ Sent' = Sent \union {m} /\ Born' = Born \union {j}
      /\ jobOf'[m] = j /\ attempt'[m] = n /\ status'[m] = "visible"
      /\ \A x \in Messages \ {m} :
           status'[x] = status[x] /\ jobOf'[x] = jobOf[x] /\ attempt'[x] = attempt[x]
  BY <1>2, <1>3, PutKeeps
<1> QED
  BY <1>3, <1>4 DEF j, n

LEMMA SettleTypes ==
  ASSUME TypeOK, NEW p \in Polls,
         \/ Settle(p) \/ LoopEnds(p) \/ DeleteReturns(p) \/ RequeueFails(p) \/ FetchFails(p)
         \/ \E m \in Messages : Requeue(p, m)
  PROVE  TypeOK'
<1>1. CASE Complete(p) \/ RetryLater(p) \/ GiveUp(p) \/ LoopEnds(p)
  <2>1. PollMoves(p)
    <3>1. CASE Complete(p) \/ GiveUp(p)
      BY <3>1, DisposeMoves DEF Complete, GiveUp
    <3>2. CASE RetryLater(p)
      BY <3>2 DEF RetryLater, PollMoves, TypeOK, Busy, history
    <3> QED
      BY <1>1, <3>1, <3>2 DEF LoopEnds, PollMoves, TypeOK, history
  <2>2. NoPut
    BY <1>1, StayIsNoPut DEF LoopEnds, Complete, GiveUp, RetryLater
  <2> QED
    BY <2>1, <2>2, NoPutKeeps, MovesTypes DEF NoPut
<1>2. CASE DeleteReturns(p)
  <2>1. NoPut
    BY <1>2, CurrentIsSent, DeleteIsNoPut, StayIsNoPut DEF DeleteReturns, Busy
  <2>2. PollMoves(p)
    BY <1>2 DEF DeleteReturns, PollMoves, TypeOK, history
  <2> QED
    BY <2>1, <2>2, NoPutKeeps, MovesTypes DEF NoPut
<1>3. ASSUME NEW m \in Messages, Requeue(p, m) PROVE TypeOK'
  <2>1. PutRetry(p, m) /\ PollMoves(p)
    BY <1>3 DEF Requeue, PutRetry, Await, PollMoves, TypeOK, Busy, history
  <2> QED
    BY <2>1, PutRetryKeeps, MovesTypes DEF Sent
<1>4. CASE FetchFails(p) \/ RequeueFails(p) \/ ListenerThrows(p)
  <2>1. ServiceTypes' /\ Sent \subseteq Sent' /\ \A x \in Sent : jobOf'[x] = jobOf[x]
    <3>1. CASE UNCHANGED <<status, messageVars>>
      BY <3>1, StayIsNoPut, NoPutKeeps DEF messageVars
    <3>2. ASSUME NEW m \in Messages, PutRetry(p, m)
          PROVE  ServiceTypes' /\ Sent \subseteq Sent' /\ \A x \in Sent : jobOf'[x] = jobOf[x]
      BY <3>2, PutRetryKeeps DEF Sent
    <3> QED
      BY <1>4, <3>1, <3>2 DEF FetchFails, RequeueFails, ListenerThrows
  <2>2. UNCHANGED history
    BY <1>4 DEF FetchFails, RequeueFails, ListenerThrows, PutRetry, history
  <2> QED
    BY <1>4, <2>1, <2>2, FailingEnds, FailTypes
<1> QED
  BY <1>1, <1>2, <1>3, <1>4 DEF Settle

(* The driver and the service keep to their types.                         *)
THEOREM OciTypeCorrect == Spec => []TypeOK
<1>1. Init => TypeOK
  <2> SUFFICES ASSUME Init PROVE TypeOK
    OBVIOUS
  <2>1. Born = {} /\ \A m \in Messages : status[m] = "unsent" /\ jobOf[m] = None
    BY ConstantsAssumption DEF Init, Born
  <2> QED
    BY <2>1 DEF Init, TypeOK
<1>2. ASSUME TypeOK, [Next]_vars PROVE TypeOK'
  <2>1. CASE Crash
    BY <1>2, <2>1, StayIsNoPut, NoPutKeeps, FailTypes DEF Crash, messageVars
  <2> QED
    BY <1>2, <2>1, AddTypes, CallTypes, LoopTypes, SettleTypes
    DEF Next, Application, Service, LoopStep
<1> QED
  BY <1>1, <1>2, PTL DEF Spec

(* A step puts nothing, or the message of a new job, or that of a retry.   *)
LEMMA StepsPut ==
  ASSUME TypeOK, [Next]_vars
  PROVE  \/ NoPut
         \/ \E j \in Jobs, op \in Options, x \in Messages : Add(j, op, x)
         \/ \E p \in Polls, x \in Messages :
              PutRetry(p, x) /\ (Requeue(p, x) \/ "put" \in Faults)
<1>1. CASE RemoveReturns
  BY <1>1, DeleteIsNoPut, StayIsNoPut DEF RemoveReturns, TypeOK, Sent
<1>2. CASE \E m \in Messages : Reappear(m) \/ DelayElapses(m)
  BY <1>2 DEF Reappear, DelayElapses, TypeOK, NoPut, messageVars
<1>3. ASSUME NEW p \in Polls, DeleteReturns(p) PROVE NoPut
  BY <1>3, CurrentIsSent, DeleteIsNoPut, StayIsNoPut DEF DeleteReturns, Busy
<1>4. ASSUME \/ Peek \/ Start \/ Close \/ Listen \/ Crash \/ UNCHANGED vars
             \/ \E m \in Messages : Remove(m)
             \/ \E p \in Polls : Retry(p) \/ RemoveOwn(p) \/ Fetch(p) \/ FetchFails(p)
      PROVE  NoPut
  BY <1>4, DeliverIsNoPut, StayIsNoPut
  DEF Peek, Start, Close, Listen, Crash, vars, Remove, Retry, RemoveOwn, Fetch, FetchFails
<1>5. ASSUME NEW p \in Polls, Settle(p) \/ Select(p) \/ LoopEnds(p) \/ \E m \in Messages : StartJob(p, m)
      PROVE  NoPut
  BY <1>5, StayIsNoPut
  DEF Settle, Complete, RetryLater, GiveUp, ListenerThrows, Select, LoopEnds, StartJob
<1>6. ASSUME NEW p \in Polls, RequeueFails(p)
      PROVE  NoPut \/ ("put" \in Faults /\ \E x \in Messages : PutRetry(p, x))
  BY <1>6, StayIsNoPut DEF RequeueFails
<1> QED
  BY <1>1, <1>2, <1>3, <1>4, <1>5, <1>6 DEF Next, Application, Service, LoopStep, Requeue

-----------------------------------------------------------------------------
(* No job is lost, and no message carries too many attempts.               *)

(* Job j is disposed of, or the queue holds a message for it that carries  *)
(* more than n attempts.                                                   *)
Standing(j, n) ==
  \/ outcomes[j] # {}
  \/ \E m \in InQueue : jobOf[m] = j /\ attempt[m] > n

(* A message about to be deleted leaves a later one of its job behind, not *)
(* just another: else two polls could each delete what the other relies on.*)
StandInv ==
  /\ \A j \in Born : Standing(j, 0)
  /\ \A p \in Polls :
       pc[p] = "deleting" => Standing(jobOf[current[p]], attempt[current[p]])

TooMany(j, n) == HasExceeded(opts[j].attempts, n)

(* A retry that is being put carries more attempts than its message, and   *)
(* no more than its job has.                                               *)
HeldInv ==
  /\ \A p \in Polls : pc[p] = "running" => held[p] >= attempt[current[p]]
  /\ \A p \in Polls :
       pc[p] = "putting" => /\ held[p] > attempt[current[p]]
                            /\ ~TooMany(jobOf[current[p]], held[p])

NumberInv == \A m \in Sent : attempt[m] > 0 /\ ~Exceeded(m)

OInv == TypeOK /\ StandInv /\ HeldInv /\ NumberInv

(* What every step does to the messages there are.                         *)
LEMMA SentStay ==
  ASSUME TypeOK, [Next]_vars
  PROVE  \A m \in Sent : /\ m \in Sent' /\ jobOf'[m] = jobOf[m] /\ attempt'[m] = attempt[m]
                         /\ opts'[jobOf[m]] = opts[jobOf[m]] /\ jobOf[m] \in Jobs
<1> SUFFICES ASSUME NEW m \in Sent
             PROVE  /\ m \in Sent' /\ jobOf'[m] = jobOf[m] /\ attempt'[m] = attempt[m]
                    /\ opts'[jobOf[m]] = opts[jobOf[m]] /\ jobOf[m] \in Jobs
  OBVIOUS
<1>1. m \in Messages /\ jobOf[m] \in Born /\ jobOf[m] \in Jobs
  BY DEF TypeOK, Sent, Born
<1>2. ASSUME NoPut
      PROVE  m \in Sent' /\ jobOf'[m] = jobOf[m] /\ attempt'[m] = attempt[m]
             /\ opts'[jobOf[m]] = opts[jobOf[m]]
  BY <1>2, NoPutKeeps DEF NoPut
<1>3. ASSUME NEW j \in Jobs, NEW op \in Options, NEW x \in Messages, Add(j, op, x)
      PROVE  m \in Sent' /\ jobOf'[m] = jobOf[m] /\ attempt'[m] = attempt[m]
             /\ opts'[jobOf[m]] = opts[jobOf[m]]
  <2>1. x # m /\ j # jobOf[m]
    BY <1>1, <1>3 DEF Add, Put, Sent
  <2> QED
    BY <1>1, <1>3, <2>1 DEF Add, Put, TypeOK, Sent
<1>4. ASSUME NEW p \in Polls, NEW x \in Messages, PutRetry(p, x)
      PROVE  m \in Sent' /\ jobOf'[m] = jobOf[m] /\ attempt'[m] = attempt[m]
             /\ opts'[jobOf[m]] = opts[jobOf[m]]
  BY <1>1, <1>4, PutRetryKeeps DEF PutRetry
<1>5. \/ NoPut
      \/ \E j \in Jobs, op \in Options, x \in Messages : Add(j, op, x)
      \/ \E p \in Polls, x \in Messages : PutRetry(p, x)
  BY StepsPut
<1> QED
  BY <1>1, <1>2, <1>3, <1>4, <1>5

(* What a step does to the messages' states.                               *)
LEMMA StatusSteps ==
  ASSUME [Next]_vars
  PROVE  \/ RemoveReturns /\ Delete(removing)
         \/ \E p \in Polls : DeleteReturns(p) /\ Delete(current[p])
         \/ UNCHANGED status
         \/ Deliver(Visible)
         \/ \E x \in Messages :
              /\ status' = [status EXCEPT ![x] = "visible"]
              /\ status[x] = "unsent" \/ Reappear(x)
  BY DEF Next, Application, Service, LoopStep, Settle, Requeue, RequeueFails, PutRetry, Put,
         Add, Peek, Remove, RemoveReturns, Retry, RemoveOwn, Start, Close, Listen, Reappear,
         DelayElapses, Crash, Fetch, FetchFails, Select, LoopEnds, StartJob, Complete,
         RetryLater, GiveUp, ListenerThrows, DeleteReturns, vars

(* One step deletes one message.                                           *)
LEMMA OneDeletes ==
  ASSUME TypeOK, [Next]_vars, NEW m \in InQueue, NEW x \in InQueue, m # x, m \notin InQueue'
  PROVE  x \in InQueue'
<1> USE DEF InQueue
<1>1. ASSUME NEW y, Delete(y) PROVE x \in InQueue'
  BY <1>1 DEF Delete, TypeOK
<1>2. ASSUME UNCHANGED status \/ Deliver(Visible)
             \/ \E y \in Messages : status' = [status EXCEPT ![y] = "visible"]
      PROVE  x \in InQueue'
  BY <1>2 DEF Deliver, TypeOK
<1> QED
  BY <1>1, <1>2, StatusSteps

(* A message leaves the queue when its job is disposed of, or when a poll  *)
(* deletes it.                                                             *)
LEMMA WhatLeaves ==
  ASSUME TypeOK, [Next]_vars, NEW m \in InQueue
  PROVE  \/ m \in InQueue'
         \/ outcomes'[jobOf[m]] # {}
         \/ \E p \in Polls : pc[p] = "deleting" /\ current[p] = m
<1> USE DEF InQueue
<1>1. CASE RemoveReturns
  <2>1. CASE m = removing
    <3>1. jobOf[m] \in Jobs /\ m \in Messages
      BY DEF TypeOK
    <3>2. CASE outcomes' = [outcomes EXCEPT ![jobOf[m]] = @ \union {"removed"}]
      <4>1. outcomes'[jobOf[m]] = outcomes[jobOf[m]] \union {"removed"}
        BY <3>1, <3>2 DEF TypeOK
      <4> QED
        BY <4>1
    <3>3. CASE UNCHANGED status
      BY <3>3
    <3> QED
      BY <1>1, <2>1, <3>2, <3>3 DEF RemoveReturns
  <2>2. CASE m # removing
    BY <1>1, <2>2 DEF RemoveReturns, Delete, TypeOK
  <2> QED
    BY <2>1, <2>2
<1>2. ASSUME NEW p \in Polls, DeleteReturns(p)
      PROVE  m \in InQueue' \/ current[p] = m
  BY <1>2 DEF DeleteReturns, Delete, TypeOK
<1>3. ASSUME UNCHANGED status \/ Deliver(Visible)
             \/ \E x \in Messages : status' = [status EXCEPT ![x] = "visible"]
      PROVE  m \in InQueue'
  BY <1>3 DEF Deliver, TypeOK
<1> QED
  BY <1>1, <1>2, <1>3, StatusSteps DEF DeleteReturns

LEMMA OutcomesStay ==
  ASSUME TypeOK, [Next]_vars, NEW j \in Jobs, outcomes[j] # {}
  PROVE  outcomes'[j] # {}
<1>1. ASSUME NEW i, NEW s, outcomes' = [outcomes EXCEPT ![i] = @ \union {s}]
      PROVE  outcomes'[j] # {}
  BY <1>1 DEF TypeOK
<1> QED
  BY <1>1
  DEF Next, Application, Service, LoopStep, Settle, Requeue, RequeueFails, PutRetry, history,
      Add, Peek, Remove, RemoveReturns, Retry, RemoveOwn, Start, Close, Listen, Reappear,
      DelayElapses, Crash, Fetch, FetchFails, Select, LoopEnds, StartJob, Complete, Dispose,
      RetryLater, GiveUp, ListenerThrows, DeleteReturns, vars

LEMMA StandingStays ==
  ASSUME OInv, [Next]_vars, NEW j \in Born, NEW n \in Nat, Standing(j, n)
  PROVE  Standing(j, n)'
<1> USE DEF OInv
<1>1. CASE outcomes[j] # {}
  BY <1>1, OutcomesStay DEF Standing, TypeOK, Born
<1>2. ASSUME NEW m \in InQueue, jobOf[m] = j, attempt[m] > n PROVE Standing(j, n)'
  <2>1. m \in Sent
    BY DEF InQueue, Sent
  <2>2. CASE m \in InQueue'
    BY <1>2, <2>1, <2>2, SentStay DEF Standing
  <2>3. CASE outcomes'[j] # {}
    BY <2>3 DEF Standing
  <2>4. CASE \E p \in Polls : pc[p] = "deleting" /\ current[p] = m /\ m \notin InQueue'
    <3>1. Standing(j, attempt[m])
      BY <1>2, <2>4 DEF StandInv
    <3>2. CASE outcomes[j] # {}
      BY <3>2, OutcomesStay DEF Standing, TypeOK, Born
    <3>3. ASSUME NEW x \in InQueue, jobOf[x] = j, attempt[x] > attempt[m]
          PROVE  Standing(j, n)'
      <4>1. x \in Sent /\ attempt[x] \in Nat /\ attempt[m] \in Nat
        BY DEF InQueue, Sent, TypeOK
      <4>2. x # m /\ attempt[x] > n
        BY <1>2, <3>3, <4>1
      <4>3. x \in InQueue' \/ outcomes'[j] # {}
        BY <2>4, <3>3, <4>2, WhatLeaves, OneDeletes
      <4> QED
        BY <3>3, <4>1, <4>2, <4>3, SentStay DEF Standing
    <3> QED
      BY <3>1, <3>2, <3>3 DEF Standing
  <2> QED
    BY <1>2, <2>2, <2>3, <2>4, WhatLeaves
<1> QED
  BY <1>1, <1>2 DEF Standing

(* How a poll comes to await something: what it awaited before, or ...     *)
Same(p) == pc'[p] = pc[p] /\ current'[p] = current[p] /\ held'[p] = held[p]

LEMMA PollSteps ==
  ASSUME TypeOK, [Next]_vars, NEW p \in Polls, pc'[p] \in Busy
  PROVE  \/ Same(p)
         \/ Retry(p)
         \/ \E m \in Messages : StartJob(p, m)
         \/ RetryLater(p)
         \/ \E m \in Messages : Requeue(p, m)
         \/ \E s \in {"completed", "failed"} :
              pc[p] = "running" /\ Dispose(p, current[p], s) /\ Await(p, "deleting")
<1>1. CASE Application \/ Service \/ Crash \/ UNCHANGED vars
  BY <1>1
  DEF Application, Service, Crash, ProcessDies, Add, Peek, Remove, RemoveReturns, Retry, RemoveOwn, Start,
      Close, Listen, Reappear, DelayElapses, pollVars, vars, Same, Busy, TypeOK
<1> DEFINE Fails(q) == FetchFails(q) \/ RequeueFails(q) \/ ListenerThrows(q)
<1>0. ASSUME NEW q \in Polls, Fails(q) PROVE Same(p)
  BY <1>0, FailingEnds DEF End, ProcessDies, Same, TypeOK, Busy
<1>2. ASSUME NEW q \in Polls \ {p}, ~Fails(q),
             Fetch(q) \/ FetchFails(q) \/ LoopStep(q) \/ Settle(q)
      PROVE  Same(p)
  BY <1>2
  DEF Fetch, LoopStep, Settle, Select, LoopEnds, StartJob, Requeue, DeleteReturns,
      Complete, RetryLater, GiveUp, Dispose, Await, DoneWithJob, End, pollVars, Same, TypeOK
<1>3. ASSUME Fetch(p) \/ Select(p) \/ LoopEnds(p) \/ DeleteReturns(p)
      PROVE  Same(p)
  BY <1>3
  DEF Fetch, Select, LoopEnds, DeleteReturns, DoneWithJob, End, pollVars, Same, TypeOK, Busy
<1>4. ASSUME NEW s \in {"completed", "failed"}, Dispose(p, current[p], s)
      PROVE  Await(p, "deleting")
  BY <1>4 DEF Dispose, DoneWithJob, TypeOK, Busy
<1> QED
  BY <1>0, <1>1, <1>2, <1>3, <1>4 DEF Next, LoopStep, Settle, Complete, GiveUp

LEMMA StandInductive ==
  ASSUME OInv, TypeOK', [Next]_vars
  PROVE  StandInv'
<1> USE DEF OInv
<1>1. ASSUME NEW j \in Born' PROVE Standing(j, 0)'
  <2>1. CASE j \in Born
    BY <2>1, StandingStays DEF StandInv
  <2>2. CASE j \notin Born
    <3>1. PICK i \in Jobs, op \in Options, x \in Messages : Add(i, op, x)
      BY <2>2, StepsPut, NoPutKeeps, PutRetryKeeps
    <3>2. /\ Born' = Born \union {i} /\ jobOf'[x] = i /\ attempt'[x] = 1
          /\ status'[x] = "visible"
      BY <3>1, AddPuts
    <3> QED
      BY <2>2, <3>2 DEF Standing, InQueue
  <2> QED
    BY <2>1, <2>2
<1>2. ASSUME NEW p \in Polls, pc'[p] = "deleting"
      PROVE  Standing(jobOf[current[p]], attempt[current[p]])'
  <2>1. current'[p] = current[p] /\ pc[p] \in Busy
    BY <1>2, PollSteps
    DEF Same, Retry, StartJob, RetryLater, Requeue, PutRetry, Await, Busy, TypeOK
  <2>2. PICK m \in Sent : m = current[p]
    BY <2>1, CurrentIsSent
  <2>3. PICK j \in Born : j = jobOf[m] /\ j \in Jobs
    BY <2>1, <2>2, CurrentIsSent
  <2>4. PICK n \in Nat : n = attempt[m]
    BY <2>2 DEF TypeOK, Sent
  <2>5. current'[p] = m /\ jobOf'[m] = j /\ attempt'[m] = n
    BY <2>1, <2>2, <2>3, <2>4, SentStay
  <2>6. CASE pc[p] = "deleting"
    BY <2>2, <2>3, <2>4, <2>5, <2>6, StandingStays DEF StandInv, Standing, InQueue
  <2>7. ASSUME NEW x \in Messages, Requeue(p, x)
        PROVE  Standing(jobOf[current[p]], attempt[current[p]])'
    <3>1. jobOf'[x] = j /\ attempt'[x] = held[p] /\ status'[x] = "visible" /\ held[p] > n
      BY <2>2, <2>3, <2>4, <2>7, PutRetryKeeps DEF Requeue, PutRetry, HeldInv
    <3> QED
      BY <2>5, <3>1 DEF Standing, InQueue
  <2>8. ASSUME NEW s \in {"completed", "failed"}, Dispose(p, current[p], s)
        PROVE  Standing(jobOf[current[p]], attempt[current[p]])'
    <3>1. s \in outcomes'[j]
      BY <2>2, <2>3, <2>8 DEF Dispose, TypeOK
    <3> QED
      BY <2>5, <3>1 DEF Standing
  <2> QED
    BY <1>2, <2>6, <2>7, <2>8, PollSteps
    DEF Same, Retry, StartJob, RetryLater, TypeOK, Busy
<1> QED
  BY <1>1, <1>2 DEF StandInv

LEMMA HeldInductive ==
  ASSUME OInv, TypeOK', [Next]_vars
  PROVE  HeldInv'
<1> USE DEF OInv
<1> SUFFICES ASSUME NEW p \in Polls, pc'[p] \in {"running", "putting"}
             PROVE  /\ pc'[p] = "running" => held'[p] >= attempt'[current'[p]]
                    /\ pc'[p] = "putting" =>
                         /\ held'[p] > attempt'[current'[p]]
                         /\ ~TooMany(jobOf[current[p]], held[p])'
  BY DEF HeldInv
<1>1. ASSUME pc[p] \in Busy, current'[p] = current[p]
      PROVE  /\ attempt'[current'[p]] = attempt[current[p]]
             /\ attempt[current[p]] \in Nat /\ held[p] \in Nat
             /\ jobOf'[current'[p]] = jobOf[current[p]]
             /\ opts'[jobOf[current[p]]] = opts[jobOf[current[p]]]
             /\ opts[jobOf[current[p]]].attempts \in Nat
  BY <1>1, CurrentIsSent, SentStay, OptionsAssumption DEF TypeOK
<1>2. CASE Same(p)
  BY <1>1, <1>2 DEF Same, HeldInv, TooMany, Busy
<1>3. CASE Retry(p)
  BY <1>1, <1>3 DEF Retry, HeldInv, Busy, TypeOK
<1>4. ASSUME NEW m \in Messages, StartJob(p, m)
      PROVE  pc'[p] = "running" /\ held'[p] >= attempt'[current'[p]]
  BY <1>4 DEF StartJob, TypeOK, messageVars
<1>5. CASE RetryLater(p)
  <2>1. /\ pc'[p] = "putting" /\ held'[p] = held[p] + 1
        /\ held[p] >= attempt[current[p]]
        /\ MayRetry(opts[jobOf[current[p]]].attempts, held[p])
    BY <1>5 DEF RetryLater, HeldInv, TypeOK
  <2>2. current'[p] = current[p] /\ pc[p] \in Busy
    BY <1>5 DEF RetryLater, Busy
  <2>3. ~HasExceeded(opts[jobOf[current[p]]].attempts, held[p] + 1)
    BY <1>1, <2>1, <2>2 DEF MayRetry, HasExceeded
  <2> QED
    BY <1>1, <2>1, <2>2, <2>3 DEF TooMany
<1> QED
  BY <1>2, <1>3, <1>4, <1>5, PollSteps DEF Requeue, Await, Busy, TypeOK

LEMMA NumbersInductive ==
  ASSUME OInv, TypeOK', [Next]_vars
  PROVE  NumberInv'
<1> USE DEF OInv
<1>1. ASSUME NEW m \in Sent PROVE attempt'[m] > 0 /\ ~Exceeded(m)'
  BY SentStay DEF NumberInv, Exceeded
<1>2. CASE NoPut
  BY <1>1, <1>2, NoPutKeeps DEF NumberInv
<1>3. ASSUME NEW j \in Jobs, NEW op \in Options, NEW x \in Messages, Add(j, op, x)
      PROVE  NumberInv'
  <2>1. Sent' = Sent \union {x} /\ jobOf'[x] = j /\ attempt'[x] = 1 /\ opts'[j] = op
    BY <1>3, AddPuts
  <2>2. ~HasExceeded(op.attempts, 1)
    BY OptionsAssumption DEF HasExceeded
  <2> QED
    BY <1>1, <2>1, <2>2 DEF NumberInv, Exceeded
<1>4. ASSUME NEW p \in Polls, NEW x \in Messages, PutRetry(p, x)
      PROVE  NumberInv'
  <2>1. /\ Sent' = Sent \union {x} /\ jobOf'[x] = jobOf[current[p]] /\ attempt'[x] = held[p]
        /\ opts' = opts /\ pc[p] = "putting"
    BY <1>4, PutRetryKeeps DEF PutRetry
  <2>2. held[p] > 0 /\ ~TooMany(jobOf[current[p]], held[p])
    BY <2>1, CurrentIsSent DEF HeldInv, Busy, TypeOK
  <2> QED
    BY <1>1, <2>1, <2>2 DEF NumberInv, Exceeded, TooMany
<1> QED
  BY <1>2, <1>3, <1>4, StepsPut

LEMMA OciInductive == Spec => []OInv
<1>1. Init => StandInv /\ HeldInv /\ NumberInv
  BY ConstantsAssumption DEF Init, StandInv, HeldInv, NumberInv, Born, Sent
<1>2. ASSUME TypeOK, TypeOK', StandInv, HeldInv, NumberInv, [Next]_vars
      PROVE  StandInv' /\ HeldInv' /\ NumberInv'
  BY <1>2, StandInductive, HeldInductive, NumbersInductive DEF OInv
<1> QED
  BY <1>1, <1>2, OciTypeCorrect, PTL DEF Spec, OInv

(* A job that was added and not disposed of is in the queue, whatever      *)
(* fails, crashes or is delivered twice.                                   *)
THEOREM JobsAreKept == Spec => []NeverLost
<1>1. OInv => NeverLost
  BY DEF OInv, StandInv, Standing, NeverLost
<1> QED
  BY <1>1, OciInductive, PTL

(* No message carries more attempts than its job has.                      *)
THEOREM AttemptsAreNotExceeded == Spec => []NeverExceeded
<1>1. OInv => NeverExceeded
  BY DEF OInv, NumberInv, Sent, InQueue, NeverExceeded
<1> QED
  BY <1>1, OciInductive, PTL

-----------------------------------------------------------------------------
(* One job, one poll.                                                      *)

(* Nothing fails that 'error' is emitted for, or the process survives it:  *)
(* the application listens to 'error', and closes no worker before its end.*)
ErrorsSurvived == Faults = {} \/ (ErrorsHeard /\ "close" \notin Calls)

(* Every put and delete succeeds, the process does not die, and no message *)
(* outlives its 30 seconds in a poll's hands.                              *)
Calm == Faults \subseteq {"get", "throw"} /\ ErrorsSurvived

HeardInv == Faults = {} \/ listening

(* What a poll holds is hidden, or was deleted by a call of remove, and no *)
(* other poll holds it.                                                    *)
HandsInv ==
  /\ \A p \in Polls : current[p] \notin batch[p]
  /\ \A p \in Polls : \A m \in HeldBy(p) : status[m] \in {"hidden", "deleted"}
  /\ \A p, q \in Polls : p # q => HeldBy(p) \cap HeldBy(q) = {}

Live(m) == m \in InQueue \/ \E p \in Polls : m \in HeldBy(p)

Deletes(p, m) == pc[p] = "deleting" /\ current[p] = m

(* Of two messages of one job, one is about to be deleted.                 *)
SingleInv ==
  \A m, x \in Messages :
    Live(m) /\ Live(x) /\ m # x /\ jobOf[m] = jobOf[x]
      => \E p \in Polls : Deletes(p, m) \/ Deletes(p, x)

WInv == TypeOK /\ HeardInv /\ HandsInv /\ SingleInv

LEMMA HeardInductive ==
  ASSUME Calm, HeardInv, [Next]_vars
  PROVE  HeardInv'
<1> SUFFICES ASSUME Faults # {} PROVE listening'
  BY DEF HeardInv
<1>1. listening /\ ~Close
  BY DEF HeardInv, Calm, ErrorsSurvived, Close
<1>2. listening' = listening \/ listening' = TRUE
  BY <1>1
  DEF Next, Application, Service, LoopStep, Settle, Requeue, RequeueFails, Add, Peek, Remove,
      RemoveReturns, Retry, RemoveOwn, Start, Listen, Reappear, DelayElapses, Crash,
      ProcessDies, PollFails, Fetch, FetchFails, Select, LoopEnds, StartJob, Complete,
      RetryLater, GiveUp, ListenerThrows, DeleteReturns, workerVars, vars
<1> QED
  BY <1>1, <1>2

(* What fails ends one poll, and nothing else.                             *)
LEMMA FailingEndsOnePoll ==
  ASSUME Calm, HeardInv, NEW p \in Polls,
         FetchFails(p) \/ RequeueFails(p) \/ ListenerThrows(p)
  PROVE  End(p) /\ UNCHANGED <<workerVars, removing>>
<1>1. listening /\ ErrorsHeard /\ "close" \notin Calls
  BY DEF Calm, HeardInv, ErrorsSurvived, FetchFails, RequeueFails, ListenerThrows
<1> QED
  BY <1>1 DEF FetchFails, RequeueFails, ListenerThrows, PollFails

LEMMA HeldIsSent ==
  ASSUME TypeOK, NEW p \in Polls, NEW m \in HeldBy(p)
  PROVE  m \in Sent /\ m \in Messages
<1>1. pc[p] \in Busy \/ current[p] = None
  BY DEF TypeOK, Busy
<1> QED
  BY <1>1, CurrentIsSent DEF HeldBy, TypeOK, Sent

(* A poll only lets go of what it holds, unless it fetches.                *)
LEMMA HandSteps ==
  ASSUME TypeOK, [Next]_vars, NEW p \in Polls
  PROVE  \/ Fetch(p) /\ HeldBy(p)' = Visible
         \/ HeldBy(p)' \subseteq HeldBy(p)
            /\ (current[p] \notin batch[p] => current'[p] \notin batch'[p])
<1>1. CASE Application \/ Service \/ UNCHANGED vars
  BY <1>1
  DEF Application, Service, Add, Peek, Remove, RemoveReturns, Retry, RemoveOwn, Start,
      Close, Listen, Reappear, DelayElapses, pollVars, vars, HeldBy
<1> DEFINE Fails(q) == FetchFails(q) \/ RequeueFails(q) \/ ListenerThrows(q)
<1>2. ASSUME ProcessDies PROVE HeldBy(p)' = {} /\ current'[p] \notin batch'[p]
  BY <1>2, ConstantsAssumption DEF ProcessDies, HeldBy
<1>3. ASSUME NEW q \in Polls \ {p}, ~ProcessDies,
             Fetch(q) \/ FetchFails(q) \/ LoopStep(q) \/ Settle(q)
      PROVE  HeldBy(p)' = HeldBy(p) /\ batch'[p] = batch[p] /\ current'[p] = current[p]
  <2>1. CASE Fails(q)
    BY <1>3, <2>1, FailingEnds DEF End, HeldBy, TypeOK
  <2> QED
    BY <1>3, <2>1
    DEF Fetch, LoopStep, Settle, Select, LoopEnds, StartJob, Requeue, DeleteReturns, Complete,
        RetryLater, GiveUp, Dispose, Await, DoneWithJob, End, pollVars, HeldBy, TypeOK
<1>4. CASE Fetch(p)
  BY <1>4 DEF Fetch, HeldBy, TypeOK, Busy
<1>5. ASSUME \/ batch'[p] = batch[p] /\ current'[p] \in {current[p], None}
             \/ batch'[p] = {} /\ current'[p] = None
      PROVE  HeldBy(p)' \subseteq HeldBy(p)
             /\ (current[p] \notin batch[p] => current'[p] \notin batch'[p])
  BY <1>5, ConstantsAssumption DEF HeldBy, TypeOK
<1>6. ASSUME Select(p) \/ \E m \in Messages : StartJob(p, m)
      PROVE  HeldBy(p)' \subseteq HeldBy(p) /\ current'[p] \notin batch'[p]
  <2>1. current[p] = None /\ None \notin Messages
    BY <1>6, ConstantsAssumption DEF Select, StartJob, TypeOK, Busy
  <2>2. CASE Select(p)
    BY <2>1, <2>2 DEF Select, HeldBy, TypeOK
  <2>3. ASSUME NEW m \in Messages, StartJob(p, m)
        PROVE  batch'[p] = batch[p] \ {m} /\ current'[p] = m /\ m \in batch[p]
    BY <2>3 DEF StartJob, TypeOK
  <2> QED
    BY <1>6, <2>1, <2>2, <2>3 DEF HeldBy
<1>7. ASSUME \/ FetchFails(p) \/ LoopEnds(p) \/ DeleteReturns(p) \/ RequeueFails(p)
             \/ Settle(p) \/ \E m \in Messages : Requeue(p, m),
             ~ProcessDies
      PROVE  \/ batch'[p] = batch[p] /\ current'[p] \in {current[p], None}
             \/ batch'[p] = {} /\ current'[p] = None
  <2>1. CASE Fails(p)
    BY <1>7, <2>1, FailingEnds DEF End, TypeOK
  <2> QED
    BY <1>7, <2>1
    DEF LoopEnds, DeleteReturns, Settle, Requeue, Complete, RetryLater, GiveUp, Dispose,
        Await, DoneWithJob, End, pollVars, TypeOK
<1> QED
  BY <1>1, <1>2, <1>3, <1>4, <1>5, <1>6, <1>7 DEF Next, LoopStep, Crash

LEMMA HandsInductive ==
  ASSUME Calm, WInv, TypeOK', [Next]_vars
  PROVE  HandsInv'
<1> USE DEF WInv
<1>1. ASSUME NEW p \in Polls, NEW m \in HeldBy(p) PROVE status'[m] \in {"hidden", "deleted"}
  <2>1. m \in Sent /\ m \in Messages /\ status[m] \in {"hidden", "deleted"}
    BY HeldIsSent DEF HandsInv
  <2>2. ~Reappear(m)
    BY DEF Reappear, Calm
  <2>3. ASSUME NEW x \in Messages, status' = [status EXCEPT ![x] = "visible"],
               status[x] = "unsent"
        PROVE  status'[m] = status[m]
    BY <2>1, <2>3 DEF TypeOK
  <2>4. ASSUME NEW x \in Messages, Reappear(x) PROVE status'[m] = status[m]
    <3>1. x # m
      BY <2>2, <2>4
    <3> QED
      BY <2>1, <2>4, <3>1 DEF Reappear, TypeOK
  <2>5. ASSUME NEW x, Delete(x) PROVE status'[m] \in {"hidden", "deleted"}
    BY <2>1, <2>5 DEF Delete, TypeOK
  <2>6. ASSUME Deliver(Visible) PROVE status'[m] \in {"hidden", "deleted"}
    BY <2>1, <2>6 DEF Deliver
  <2> QED
    BY <2>1, <2>3, <2>4, <2>5, <2>6, StatusSteps
<1>2. ASSUME NEW p \in Polls, NEW m \in HeldBy(p)'
      PROVE  status'[m] \in {"hidden", "deleted"}
  BY <1>1, <1>2, HandSteps DEF Fetch, Deliver, Visible
<1>3. ASSUME NEW p \in Polls, NEW q \in Polls, p # q PROVE (HeldBy(p) \cap HeldBy(q))' = {}
  <2>1. ASSUME NEW r \in Polls PROVE HeldBy(r) \cap Visible = {}
    BY DEF HandsInv, Visible
  <2>2. ~(Fetch(p) /\ Fetch(q))
    BY <1>3 DEF Fetch, TypeOK
  <2> QED
    BY <1>3, <2>1, <2>2, HandSteps DEF HandsInv
<1>4. ASSUME NEW p \in Polls PROVE current'[p] \notin batch'[p]
  <2>1. CASE Fetch(p)
    <3>1. current'[p] = None /\ batch'[p] \subseteq Messages
      BY <2>1 DEF Fetch, TypeOK, Visible, Busy
    <3> QED
      BY <3>1, ConstantsAssumption
  <2> QED
    BY <2>1, HandSteps DEF HandsInv
<1> QED
  BY <1>2, <1>3, <1>4 DEF HandsInv

(* A deletion goes through, and the message is gone with it.               *)
LEMMA DeletesStay ==
  ASSUME Calm, WInv, [Next]_vars, NEW p \in Polls, NEW m \in Messages, Deletes(p, m)
  PROVE  Deletes(p, m)' \/ ~Live(m)'
<1> USE DEF WInv
<1>1. CASE DeleteReturns(p)
  <2>1. status'[m] = "deleted" /\ current'[p] = None /\ batch' = batch
        /\ \A q \in Polls \ {p} : current'[q] = current[q]
    BY <1>1 DEF DeleteReturns, Delete, DoneWithJob, Deletes, Calm, TypeOK
  <2>2. m \in HeldBy(p) /\ m \notin batch[p] /\ m # None
    BY ConstantsAssumption DEF Deletes, HeldBy, HandsInv
  <2>3. \A q \in Polls : m \notin HeldBy(q)'
    BY <2>1, <2>2 DEF HandsInv, HeldBy
  <2> QED
    BY <2>1, <2>3 DEF Live, InQueue
<1>0. ASSUME NEW q \in Polls, FetchFails(q) \/ RequeueFails(q) \/ ListenerThrows(q)
      PROVE  q # p /\ End(q)
  BY <1>0, FailingEndsOnePoll DEF FetchFails, RequeueFails, ListenerThrows, Deletes
<1>2. ASSUME NEW q \in Polls \ {p}, Fetch(q) \/ FetchFails(q) \/ LoopStep(q) \/ Settle(q)
      PROVE  pc'[p] = pc[p] /\ current'[p] = current[p]
  BY <1>0, <1>2
  DEF Fetch, LoopStep, Settle, Select, LoopEnds, StartJob, Requeue, DeleteReturns, Complete,
      RetryLater, GiveUp, Dispose, Await, DoneWithJob, End, pollVars, TypeOK
<1>3. CASE Application \/ Service \/ UNCHANGED vars
  BY <1>3
  DEF Application, Service, Add, Peek, Remove, RemoveReturns, Retry, RemoveOwn, Start,
      Close, Listen, Reappear, DelayElapses, pollVars, vars, Deletes, TypeOK
<1>4. ~Crash
  BY DEF Crash, Calm
<1>5. ASSUME Fetch(p) \/ FetchFails(p) \/ LoopStep(p) \/ Settle(p), ~DeleteReturns(p)
      PROVE  Deletes(p, m)'
  BY <1>0, <1>5
  DEF Fetch, LoopStep, Settle, Select, LoopEnds, StartJob, Requeue, PutRetry, Complete,
      RetryLater, GiveUp, Deletes
<1> QED
  BY <1>1, <1>2, <1>3, <1>4, <1>5 DEF Next, Deletes

(* No step revives a message; only a put adds one.                         *)
LEMMA LiveBefore ==
  ASSUME Calm, WInv, [Next]_vars, NEW m \in Sent, Live(m)'
  PROVE  Live(m)
<1> USE DEF WInv
<1>1. CASE m \in InQueue'
  BY <1>1, StatusSteps DEF InQueue, Sent, Deliver, Visible, Delete, Reappear, Live, TypeOK
<1>2. ASSUME NEW p \in Polls, m \in HeldBy(p)' PROVE Live(m)
  BY <1>2, HandSteps DEF Visible, InQueue, Live
<1> QED
  BY <1>1, <1>2 DEF Live

LEMMA SingleInductive ==
  ASSUME Calm, WInv, TypeOK', [Next]_vars
  PROVE  SingleInv'
<1> USE DEF WInv
<1> DEFINE Apart(m, x) == \E p \in Polls : Deletes(p, m)' \/ Deletes(p, x)'
<1>1. ASSUME NEW m \in Sent, NEW x \in Sent, m # x, Live(m)', Live(x)',
             jobOf'[m] = jobOf'[x]
      PROVE  Apart(m, x)
  <2>1. Live(m) /\ Live(x) /\ jobOf[m] = jobOf[x] /\ m \in Messages /\ x \in Messages
    BY <1>1, LiveBefore, SentStay DEF Sent
  <2>2. PICK p \in Polls : Deletes(p, m) \/ Deletes(p, x)
    BY <1>1, <2>1 DEF SingleInv
  <2> QED
    BY <1>1, <2>1, <2>2, DeletesStay
<1>2. ASSUME NEW m \in Messages \ Sent, NEW x \in Sent, m \in Sent', Live(x)',
             jobOf'[m] = jobOf'[x]
      PROVE  Apart(m, x)
  <2>1. x \in Messages /\ Live(x) /\ jobOf'[x] = jobOf[x] /\ jobOf[x] \in Born
    BY <1>2, LiveBefore, SentStay DEF Sent, Born, TypeOK
  <2>2. ASSUME NEW j \in Jobs, NEW op \in Options, NEW y \in Messages, Add(j, op, y)
        PROVE  FALSE
    <3>1. jobOf'[y] = j /\ Sent' = Sent \union {y} /\ j \notin Born
      BY <2>2, AddPuts DEF Add
    <3> QED
      BY <1>2, <2>1, <3>1
  <2>3. PICK p \in Polls, y \in Messages : PutRetry(p, y) /\ Requeue(p, y)
    BY <1>2, <2>2, StepsPut, NoPutKeeps DEF Calm
  <2>4. y = m /\ jobOf[x] = jobOf[current[p]] /\ pc[p] = "putting"
    BY <1>2, <2>1, <2>3, PutRetryKeeps DEF PutRetry
  <2>5. Requeue(p, m)
    BY <2>3, <2>4
  <2>6. pc'[p] = "deleting" /\ current'[p] = current[p]
    BY <2>5 DEF Requeue, Await, TypeOK
  <2>7. CASE x = current[p]
    BY <2>6, <2>7 DEF Deletes
  <2>8. CASE x # current[p]
    <3>1. current[p] \in Messages /\ current[p] \in HeldBy(p) /\ Live(current[p])
      <4>1. current[p] \in Messages
        BY <2>4, CurrentIsSent DEF Busy
      <4>2. current[p] \in HeldBy(p)
        BY <4>1, ConstantsAssumption DEF HeldBy
      <4> QED
        BY <4>1, <4>2 DEF Live
    <3>2. PICK q \in Polls : Deletes(q, x) \/ Deletes(q, current[p])
      BY <2>1, <2>4, <2>8, <3>1 DEF SingleInv
    <3>3. q # p
      BY <2>4, <3>2 DEF Deletes
    <3>4. Deletes(q, x)
      BY <3>1, <3>2, <3>3, ConstantsAssumption DEF Deletes, HandsInv, HeldBy
    <3> QED
      BY <1>2, <2>1, <3>4, DeletesStay
  <2> QED
    BY <2>7, <2>8
<1>3. ASSUME NEW m \in Messages \ Sent, NEW x \in Messages \ Sent, m \in Sent', x \in Sent'
      PROVE  m = x
  BY <1>3, StepsPut, NoPutKeeps, AddPuts, PutRetryKeeps
<1>4. \A m \in Messages : Live(m)' => m \in Sent'
  BY ConstantsAssumption DEF Live, InQueue, HeldBy, Sent, TypeOK
<1> QED
  BY <1>1, <1>2, <1>3, <1>4 DEF SingleInv

LEMMA HandsHold ==
  ASSUME Calm
  PROVE  Spec => []WInv
<1>1. Init => HeardInv /\ HandsInv /\ SingleInv
  BY ConstantsAssumption DEF Init, HeardInv, HandsInv, SingleInv, HeldBy, Live, InQueue
<1>2. ASSUME TypeOK, TypeOK', HeardInv, HandsInv, SingleInv, [Next]_vars
      PROVE  HeardInv' /\ HandsInv' /\ SingleInv'
  BY <1>2, HeardInductive, HandsInductive, SingleInductive DEF WInv
<1> QED
  BY <1>1, <1>2, OciTypeCorrect, PTL DEF Spec, WInv

(* No two polls work on messages of one job, while puts and deletes        *)
(* succeed, processors take less than the 30 seconds of a message, and the *)
(* errors there are, if any, are listened to: one that is not kills the    *)
(* process, perhaps between a put and its delete.                          *)
THEOREM OnePollPerJob ==
  ASSUME Calm
  PROVE  Spec => []OneWorker
<1>1. WInv => OneWorker
  <2> SUFFICES ASSUME WInv, NEW p \in Polls, NEW q \in Polls, p # q,
                      NEW m \in HeldBy(p), NEW x \in HeldBy(q), jobOf[m] = jobOf[x],
                      pc[p] = "deleting" => m \in batch[p],
                      pc[q] = "deleting" => x \in batch[q]
               PROVE  FALSE
    BY DEF OneWorker, WorkedOnBy, HeldBy
  <2> USE DEF WInv
  <2>1. m # x /\ m \in Messages /\ x \in Messages /\ Live(m) /\ Live(x)
    BY HeldIsSent DEF HandsInv, Live
  <2>2. PICK r \in Polls : Deletes(r, m) \/ Deletes(r, x)
    BY <2>1 DEF SingleInv
  <2>3. ASSUME Deletes(r, m) PROVE FALSE
    <3>1. r = p
      BY <2>1, <2>3, ConstantsAssumption DEF Deletes, HandsInv, HeldBy
    <3> QED
      BY <2>3, <3>1 DEF Deletes, HandsInv
  <2>4. ASSUME Deletes(r, x) PROVE FALSE
    <3>1. r = q
      BY <2>1, <2>4, ConstantsAssumption DEF Deletes, HandsInv, HeldBy
    <3> QED
      BY <2>4, <3>1 DEF Deletes, HandsInv
  <2> QED
    BY <2>2, <2>3, <2>4
<1> QED
  BY <1>1, HandsHold, PTL
=============================================================================
