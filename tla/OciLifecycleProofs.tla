-------------------------- MODULE OciLifecycleProofs --------------------------
(***************************************************************************)
(* OciDriver implements JobLifecycle, for every number of jobs, messages   *)
(* and overlapping polls, where the service does what it is asked to and   *)
(* finished jobs are deleted.                                              *)
(***************************************************************************)
EXTENDS OciDriverProofs

(* Failing calls of getMessages are the only faults, and the process       *)
(* survives them; nobody calls job.retry(); removeOnComplete and           *)
(* removeOnFail are set; and the history variable starts counts far enough.*)
Reliable ==
  /\ Faults \subseteq {"get"}
  /\ ErrorsSurvived
  /\ "retry" \notin Calls
  /\ RunCap > 0
  /\ \A op \in Options : /\ ShouldRemove(op.removeOnComplete)
                         /\ ShouldRemove(op.removeOnFail)
                         /\ op.attempts <= RunCap

Final == {"completed", "failed"}

(* The states in which the fate of a poll's job is still to be decided.    *)
Deciding == {"running", "putting"}

(* A message in the queue or in a batch, whose job no poll has in hand.    *)
Waiting(m) == Live(m) /\ \A p \in Polls : current[p] # m

(* Job j is not finished, and n is the number of its next run, or of the   *)
(* one under way.                                                          *)
NextRun(j, n) ==
  /\ outcomes[j] \cap Final = {}
  /\ n = starts[j] + 1 /\ n <= BudgetOf(j)

ThisRun(j, n) ==
  /\ outcomes[j] \cap Final = {}
  /\ n = starts[j] /\ n > 0 /\ n <= BudgetOf(j)

FreshInv == \A j \in Jobs \ Born : starts[j] = 0 /\ outcomes[j] \cap Final = {}

(* The number of attempts a message carries, and the one a job object has  *)
(* in memory, are the job's runs, counted.                                 *)
CountInv ==
  /\ \A m \in Messages : Waiting(m) => NextRun(jobOf[m], attempt[m])
  /\ \A p \in Polls : pc[p] = "putting" => NextRun(jobOf[current[p]], held[p])
  /\ \A p \in Polls : pc[p] = "running" => ThisRun(jobOf[current[p]], held[p])

LInv == WInv /\ FreshInv /\ CountInv

LEMMA ReliableIsCalm == Reliable => Calm
  BY DEF Reliable, Calm

-----------------------------------------------------------------------------
(* One message of a job matters at a time.                                 *)

(* A live message nobody is about to delete is the only one of its job.    *)
LEMMA OneMessage ==
  ASSUME WInv, NEW m \in Messages, NEW x \in Messages, Live(m), Live(x),
         jobOf[m] = jobOf[x], \A p \in Polls : ~Deletes(p, m) /\ ~Deletes(p, x)
  PROVE  m = x
  BY DEF WInv, SingleInv

LEMMA WaitingIsOpen ==
  ASSUME NEW m, Waiting(m)
  PROVE  Live(m) /\ \A p \in Polls : ~Deletes(p, m)
  BY DEF Waiting, Deletes

LEMMA DecidingIsOpen ==
  ASSUME WInv, NEW p \in Polls, pc[p] \in Deciding
  PROVE  /\ current[p] \in Messages /\ current[p] \in Sent /\ Live(current[p])
         /\ jobOf[current[p]] \in Jobs /\ jobOf[current[p]] \in Born
         /\ \A q \in Polls : ~Deletes(q, current[p])
         /\ \A q \in Polls \ {p} : current[q] # current[p]
<1>1. /\ current[p] \in Messages /\ current[p] \in Sent
      /\ jobOf[current[p]] \in Jobs /\ jobOf[current[p]] \in Born
  BY CurrentIsSent DEF WInv, Deciding, Busy
<1>2. current[p] \in HeldBy(p)
  BY <1>1, ConstantsAssumption DEF HeldBy
<1>3. \A q \in Polls \ {p} : current[q] # current[p]
  BY <1>1, <1>2, ConstantsAssumption DEF WInv, HandsInv, HeldBy
<1> QED
  BY <1>1, <1>2, <1>3 DEF Live, Deletes, Deciding

(* While a poll has a job in hand, no other poll has it, and no message    *)
(* of it waits ...                                                         *)
LEMMA AloneInHand ==
  ASSUME WInv, NEW p \in Polls, pc[p] \in Deciding
  PROVE  /\ \A q \in Polls \ {p} :
              pc[q] \in Deciding => jobOf[current[q]] # jobOf[current[p]]
         /\ \A m \in Messages : Waiting(m) => jobOf[m] # jobOf[current[p]]
<1>1. ASSUME NEW q \in Polls \ {p}, pc[q] \in Deciding
      PROVE  jobOf[current[q]] # jobOf[current[p]]
  BY <1>1, DecidingIsOpen, OneMessage
<1>2. ASSUME NEW m \in Messages, Waiting(m) PROVE jobOf[m] # jobOf[current[p]]
  <2>1. m # current[p]
    BY <1>2 DEF Waiting
  <2> QED
    BY <1>2, <2>1, DecidingIsOpen, WaitingIsOpen, OneMessage
<1> QED
  BY <1>1, <1>2

(* ... and while one of its messages waits, it is the only one.            *)
LEMMA AloneWaiting ==
  ASSUME WInv, NEW m \in Messages, Waiting(m)
  PROVE  /\ \A p \in Polls : pc[p] \in Deciding => jobOf[current[p]] # jobOf[m]
         /\ \A x \in Messages : Waiting(x) /\ x # m => jobOf[x] # jobOf[m]
  BY AloneInHand, WaitingIsOpen, OneMessage

-----------------------------------------------------------------------------
(* The steps, by what they do to the jobs.                                 *)

(* Nothing, except that messages come and go.                              *)
Rest ==
  /\ UNCHANGED <<jobOf, attempt, opts, starts>>
  /\ \A j \in Jobs : outcomes'[j] \cap Final = outcomes[j] \cap Final
  /\ \A p \in Polls : pc[p] \in Deciding \/ pc'[p] \in Deciding => Same(p)
  /\ \A p \in Polls, m \in Messages :
       current[p] = m => current'[p] = m \/ Deletes(p, m)

(* Poll p disposes of its job.                                             *)
Disposes(p, outcome) ==
  /\ pc[p] = "running" /\ pc'[p] = "deleting" /\ current' = current
  /\ \A q \in Polls \ {p} : Same(q)
  /\ outcomes' = [outcomes EXCEPT ![jobOf[current[p]]] = @ \union {outcome}]
  /\ UNCHANGED <<status, jobOf, attempt, opts, starts>>

LEMMA ApplicationRests ==
  ASSUME Reliable, TypeOK, Application \/ Service \/ Crash \/ UNCHANGED vars
  PROVE  \/ Rest
         \/ \E j \in Jobs, op \in Options, m \in Messages : Add(j, op, m)
<1>1. ASSUME UNCHANGED <<jobOf, attempt, opts, pc, current, held, starts, outcomes>>
      PROVE  Rest
  BY <1>1 DEF Rest, Same
<1>2. CASE RemoveReturns
  <2>1. \A j \in Jobs : outcomes'[j] \cap Final = outcomes[j] \cap Final
    <3>1. CASE outcomes' = outcomes
      BY <3>1
    <3>2. CASE outcomes' = [outcomes EXCEPT ![jobOf[removing]] = @ \union {"removed"}]
      BY <3>2 DEF TypeOK, Final
    <3> QED
      BY <1>2, <3>1, <3>2 DEF RemoveReturns
  <2> QED
    BY <1>2, <2>1 DEF RemoveReturns, Rest, Same, messageVars, pollVars
<1>3. ~Crash /\ \A p \in Polls : ~Retry(p)
  BY DEF Crash, Retry, Reliable
<1> QED
  BY <1>1, <1>2, <1>3
  DEF Application, Service, Peek, Remove, RemoveOwn, Start, Close, Listen, Reappear, DelayElapses,
      messageVars, pollVars, history, vars

LEMMA DisposeDisposes ==
  ASSUME Reliable, TypeOK, NEW p \in Polls, pc[p] = "running",
         NEW outcome \in {"completed", "failed"}, Dispose(p, current[p], outcome),
         UNCHANGED <<status, messageVars, starts>>
  PROVE  Disposes(p, outcome)
<1>1. jobOf[current[p]] \in Born
  BY CurrentIsSent DEF Busy
<1>2. opts[jobOf[current[p]]] \in Options
  BY <1>1 DEF TypeOK
<1>3. Await(p, "deleting") /\ outcomes' = [outcomes EXCEPT ![jobOf[current[p]]] = @ \union {outcome}]
  BY <1>2 DEF Dispose, Reliable
<1> QED
  BY <1>3 DEF Await, Disposes, Same, TypeOK, messageVars

LEMMA PollRests ==
  ASSUME Reliable, TypeOK, HeardInv, NEW p \in Polls,
         Fetch(p) \/ FetchFails(p) \/ LoopStep(p) \/ Settle(p)
  PROVE  \/ Rest
         \/ \E m \in Messages : StartJob(p, m) \/ Requeue(p, m)
         \/ Disposes(p, "completed")
         \/ Disposes(p, "failed") /\ ~MayRetry(opts[jobOf[current[p]]].attempts, held[p])
         \/ RetryLater(p)
<1>1. ASSUME Fetch(p) \/ FetchFails(p) \/ Select(p) \/ LoopEnds(p) PROVE Rest
  <2>0. FetchFails(p) => End(p)
    BY ReliableIsCalm, FailingEndsOnePoll
  <2>1. pc[p] \notin Busy /\ pc'[p] \notin Busy /\ current[p] = None
    BY <1>1, <2>0 DEF Fetch, FetchFails, Select, LoopEnds, End, Busy, TypeOK, pollVars
  <2>2. /\ UNCHANGED <<jobOf, attempt, opts, starts, outcomes>>
        /\ \A q \in Polls \ {p} : Same(q)
    BY <1>1, <2>0 DEF Fetch, FetchFails, Select, LoopEnds, End, TypeOK, Same, pollVars,
                messageVars, history
  <2> QED
    BY <2>1, <2>2, ConstantsAssumption DEF Rest, Same, Busy, Deciding
<1>2. ASSUME DeleteReturns(p) PROVE Rest
  <2>1. /\ pc[p] = "deleting" /\ pc'[p] = "next" /\ \A q \in Polls \ {p} : Same(q)
        /\ UNCHANGED <<jobOf, attempt, opts, starts, outcomes>>
    BY <1>2 DEF DeleteReturns, DoneWithJob, TypeOK, Same, messageVars, history
  <2> QED
    BY <2>1 DEF Rest, Same, Deciding, Deletes
<1>3. ~RequeueFails(p) /\ ~ListenerThrows(p)
  BY DEF RequeueFails, ListenerThrows, Reliable
<1>4. CASE Complete(p)
  BY <1>4, DisposeDisposes DEF Complete
<1>5. CASE GiveUp(p)
  BY <1>5, DisposeDisposes DEF GiveUp
<1> QED
  BY <1>1, <1>2, <1>3, <1>4, <1>5 DEF LoopStep, Settle

LEMMA StepKinds ==
  ASSUME Reliable, TypeOK, HeardInv, [Next]_vars
  PROVE  \/ Rest
         \/ \E j \in Jobs, op \in Options, m \in Messages : Add(j, op, m)
         \/ \E p \in Polls :
              \/ \E m \in Messages : StartJob(p, m) \/ Requeue(p, m)
              \/ Disposes(p, "completed")
              \/ Disposes(p, "failed") /\ ~MayRetry(opts[jobOf[current[p]]].attempts, held[p])
              \/ RetryLater(p)
  BY ApplicationRests, PollRests DEF Next

-----------------------------------------------------------------------------
(* The runs are counted.                                                   *)

(* A message that waits after a step that put none waited before it, if    *)
(* the polls let go of what they delete only.                              *)
LEMMA WaitedBefore ==
  ASSUME Calm, WInv, [Next]_vars, NEW m \in Sent, m \in Messages, Waiting(m)',
         \A p \in Polls : current[p] = m => current'[p] = m \/ Deletes(p, m)
  PROVE  Waiting(m)
<1>1. Live(m) /\ Live(m)' /\ \A p \in Polls : current'[p] # m
  BY LiveBefore DEF Waiting
<1>2. ASSUME NEW p \in Polls, current[p] = m PROVE FALSE
  <2>1. Deletes(p, m)
    BY <1>1, <1>2
  <2>2. Deletes(p, m)'
    BY <1>1, <2>1, DeletesStay
  <2> QED
    BY <1>1, <2>2 DEF Deletes
<1> QED
  BY <1>1, <1>2 DEF Waiting

LEMMA LiveIsSent ==
  ASSUME TypeOK, NEW m \in Messages, Live(m)
  PROVE  m \in Sent /\ jobOf[m] \in Born /\ jobOf[m] \in Jobs
<1>1. m \in Sent
  BY HeldIsSent DEF Live, InQueue, Sent
<1> QED
  BY <1>1 DEF Sent, Born, TypeOK

LEMMA LiveIsSentNext ==
  ASSUME TypeOK', NEW m \in Messages, Live(m)'
  PROVE  m \in Sent'
  BY ConstantsAssumption DEF Live, InQueue, HeldBy, Sent, TypeOK

(* The numbers of a job with a message.                                    *)
LEMMA JobNumbers ==
  ASSUME TypeOK, NEW j \in Born
  PROVE  /\ j \in Jobs /\ starts[j] \in Nat
         /\ opts[j] \in Options /\ opts[j].attempts \in Nat
         /\ BudgetOf(j) = IF opts[j].attempts > 0 THEN opts[j].attempts ELSE 1
  BY OptionsAssumption DEF TypeOK, Born, BudgetOf

(* A job that a step neither starts, nor finishes, nor adds.               *)
Untouched(j) ==
  /\ starts'[j] = starts[j] /\ outcomes'[j] \cap Final = outcomes[j] \cap Final
  /\ BudgetOf(j)' = BudgetOf(j)

LEMMA UntouchedCounts ==
  ASSUME NEW j, Untouched(j), NEW n
  PROVE  /\ NextRun(j, n) => NextRun(j, n)'
         /\ ThisRun(j, n) => ThisRun(j, n)'
  BY DEF Untouched, NextRun, ThisRun

LEMMA RestCounts ==
  ASSUME Calm, LInv, TypeOK', [Next]_vars, Rest
  PROVE  CountInv' /\ FreshInv'
<1> USE DEF LInv, WInv
<1>1. Born' = Born /\ Sent' = Sent
  BY DEF Rest, Born, Sent, TypeOK
<1>2. \A j \in Jobs : Untouched(j)
  BY <1>1 DEF Rest, Untouched, BudgetOf
<1>3. ASSUME NEW m \in Messages, Waiting(m)' PROVE NextRun(jobOf[m], attempt[m])'
  <2>1. m \in Sent
    BY <1>1, <1>3, LiveIsSentNext DEF Waiting
  <2>2. Waiting(m)
    BY <1>3, <2>1, WaitedBefore DEF Rest
  <2>3. jobOf[m] \in Jobs /\ NextRun(jobOf[m], attempt[m])
    BY <2>2, LiveIsSent DEF Waiting, CountInv
  <2> QED
    BY <1>2, <2>3, UntouchedCounts DEF Rest
<1>4. ASSUME NEW p \in Polls, pc'[p] \in Deciding
      PROVE  /\ pc'[p] = "putting" => NextRun(jobOf[current[p]], held[p])'
             /\ pc'[p] = "running" => ThisRun(jobOf[current[p]], held[p])'
  <2>1. Same(p) /\ pc[p] \in Deciding
    BY <1>4 DEF Rest, Same
  <2>2. jobOf[current[p]] \in Jobs
    BY <2>1, DecidingIsOpen
  <2> QED
    BY <1>2, <2>1, <2>2, UntouchedCounts DEF Rest, Same, CountInv, Deciding
<1>5. FreshInv'
  BY <1>1 DEF Rest, FreshInv
<1> QED
  BY <1>3, <1>4, <1>5 DEF CountInv, Deciding

LEMMA AddCounts ==
  ASSUME Calm, LInv, TypeOK', [Next]_vars,
         NEW j \in Jobs, NEW op \in Options, NEW m \in Messages, Add(j, op, m)
  PROVE  CountInv' /\ FreshInv'
<1> USE DEF LInv, WInv
<1>1. /\ Sent' = Sent \union {m} /\ Born' = Born \union {j} /\ j \notin Born /\ m \notin Sent
      /\ jobOf'[m] = j /\ attempt'[m] = 1 /\ opts'[j] = op
  BY AddPuts DEF Add, Put, Sent
<1>2. starts' = starts /\ outcomes' = outcomes /\ UNCHANGED pollVars
  BY DEF Add, history
<1>3. \A i \in Jobs \ {j} : Untouched(i)
  BY <1>1, <1>2 DEF Add, Untouched, BudgetOf, TypeOK
<1>4. NextRun(j, 1)'
  <2>1. 1 <= BudgetOf(j)'
    BY <1>1, OptionsAssumption DEF BudgetOf
  <2> QED
    BY <1>1, <1>2, <2>1 DEF NextRun, FreshInv
<1>5. ASSUME NEW x \in Messages, Waiting(x)' PROVE NextRun(jobOf[x], attempt[x])'
  <2>1. CASE x = m
    BY <1>1, <1>4, <2>1
  <2>2. CASE x # m
    <3>1. x \in Sent
      BY <1>1, <1>5, <2>2, LiveIsSentNext DEF Waiting
    <3>2. Waiting(x)
      BY <1>2, <1>5, <3>1, WaitedBefore DEF pollVars
    <3>3. /\ NextRun(jobOf[x], attempt[x]) /\ jobOf[x] \in Jobs \ {j}
          /\ jobOf'[x] = jobOf[x] /\ attempt'[x] = attempt[x]
      BY <1>1, <3>1, <3>2, LiveIsSent, SentStay DEF Waiting, CountInv
    <3> QED
      BY <1>3, <3>3, UntouchedCounts
  <2> QED
    BY <2>1, <2>2
<1>6. ASSUME NEW p \in Polls, pc'[p] \in Deciding
      PROVE  /\ pc'[p] = "putting" => NextRun(jobOf[current[p]], held[p])'
             /\ pc'[p] = "running" => ThisRun(jobOf[current[p]], held[p])'
  <2>1. pc[p] \in Deciding /\ pc' = pc /\ current' = current /\ held' = held
    BY <1>2, <1>6 DEF pollVars
  <2>2. /\ jobOf[current[p]] \in Jobs \ {j}
        /\ jobOf'[current[p]] = jobOf[current[p]]
    BY <1>1, <2>1, DecidingIsOpen, SentStay
  <2> QED
    BY <1>3, <2>1, <2>2, UntouchedCounts DEF CountInv, Deciding
<1>7. FreshInv'
  BY <1>1, <1>2 DEF FreshInv
<1> QED
  BY <1>5, <1>6, <1>7 DEF CountInv, Deciding

(* A step of poll p, which has message m in hand after it or had it before *)
(* it, leaves the others alone.                                            *)
LEMMA OthersCount ==
  ASSUME LInv, [Next]_vars, NEW p \in Polls, NEW j \in Jobs,
         UNCHANGED <<jobOf, attempt>>,
         \A i \in Jobs \ {j} : Untouched(i),
         \A q \in Polls \ {p} : Same(q),
         \A q \in Polls \ {p} : pc[q] \in Deciding => jobOf[current[q]] # j
  PROVE  \A q \in Polls \ {p} :
           /\ pc'[q] = "putting" => NextRun(jobOf[current[q]], held[q])'
           /\ pc'[q] = "running" => ThisRun(jobOf[current[q]], held[q])'
<1> SUFFICES ASSUME NEW q \in Polls \ {p}, pc'[q] \in Deciding
             PROVE  /\ pc'[q] = "putting" => NextRun(jobOf[current[q]], held[q])'
                    /\ pc'[q] = "running" => ThisRun(jobOf[current[q]], held[q])'
  BY DEF Deciding
<1>1. pc[q] \in Deciding /\ Same(q)
  BY DEF Same
<1>2. jobOf[current[q]] \in Jobs \ {j}
  BY <1>1, DecidingIsOpen DEF LInv
<1> QED
  BY <1>1, <1>2, UntouchedCounts DEF Same, LInv, CountInv, Deciding

(* A message a poll starts has waited, and its job is counted.             *)
LEMMA StartedWaits ==
  ASSUME Reliable, LInv, NEW p \in Polls, NEW m \in Messages, StartJob(p, m)
  PROVE  /\ Waiting(m) /\ jobOf[m] \in Born /\ jobOf[m] \in Jobs
         /\ NextRun(jobOf[m], attempt[m])
         /\ starts' = [starts EXCEPT ![jobOf[m]] = @ + 1]
<1> USE DEF LInv, WInv
<1> DEFINE j == jobOf[m]
<1>1. pc[p] = "next" /\ m \in batch[p] /\ current[p] = None
  BY DEF StartJob, TypeOK, Busy
<1>2. Waiting(m)
  <2>1. Live(m) /\ m \in HeldBy(p)
    BY <1>1 DEF Live, HeldBy
  <2>2. \A q \in Polls : current[q] # m
    BY <1>1, <2>1, ConstantsAssumption DEF HandsInv, HeldBy
  <2> QED
    BY <2>1, <2>2 DEF Waiting
<1>3. j \in Born /\ j \in Jobs /\ NextRun(j, attempt[m])
  BY <1>2, LiveIsSent DEF Waiting, CountInv
<1>4. starts[j] < RunCap
  <2>1. attempt[m] = starts[j] + 1 /\ attempt[m] <= BudgetOf(j)
    BY <1>3 DEF NextRun
  <2>2. BudgetOf(j) <= RunCap
    BY <1>3, JobNumbers, ConstantsAssumption DEF Reliable
  <2> QED
    BY <1>3, <2>1, <2>2, JobNumbers, ConstantsAssumption
<1>5. starts' = [starts EXCEPT ![j] = @ + 1]
  BY <1>3, <1>4 DEF StartJob, TypeOK
<1> QED
  BY <1>2, <1>3, <1>5

LEMMA StartCounts ==
  ASSUME Reliable, LInv, TypeOK', [Next]_vars,
         NEW p \in Polls, NEW m \in Messages, StartJob(p, m)
  PROVE  CountInv' /\ FreshInv'
<1> USE DEF LInv, WInv
<1> DEFINE j == jobOf[m]
<1>1. /\ pc[p] = "next" /\ current[p] = None
      /\ pc'[p] = "running" /\ current'[p] = m /\ held'[p] = attempt[m]
      /\ \A q \in Polls \ {p} : Same(q)
      /\ UNCHANGED <<jobOf, attempt, opts, outcomes>>
  BY DEF StartJob, Same, TypeOK, Busy, messageVars
<1>2. Waiting(m)
  BY StartedWaits
<1>3. j \in Born /\ j \in Jobs /\ NextRun(j, attempt[m])
  BY StartedWaits
<1>5. starts' = [starts EXCEPT ![j] = @ + 1]
  BY StartedWaits
<1>6. Born' = Born /\ Sent' = Sent
  BY <1>1 DEF Born, Sent, TypeOK
<1>7. /\ \A i \in Jobs : BudgetOf(i)' = BudgetOf(i)
      /\ \A i \in Jobs \ {j} : Untouched(i)
  BY <1>1, <1>5, <1>6 DEF Untouched, BudgetOf, TypeOK
<1>8. ThisRun(j, attempt[m])'
  <2>1. starts'[j] = starts[j] + 1 /\ starts[j] \in Nat
    BY <1>3, <1>5, JobNumbers DEF TypeOK
  <2> QED
    BY <1>1, <1>3, <1>7, <2>1 DEF NextRun, ThisRun
<1>9. ASSUME NEW x \in Messages, Waiting(x)' PROVE NextRun(jobOf[x], attempt[x])'
  <2>1. x \in Sent /\ x # m
    BY <1>1, <1>6, <1>9, LiveIsSentNext DEF Waiting
  <2>2. \A q \in Polls : current[q] # x
    BY <1>1, <1>9, ConstantsAssumption DEF Waiting, Same
  <2>3. Waiting(x)
    BY <1>9, <2>1, <2>2, WaitedBefore, ReliableIsCalm
  <2>4. jobOf[x] \in Jobs \ {j} /\ NextRun(jobOf[x], attempt[x])
    BY <1>2, <2>1, <2>3, AloneWaiting, LiveIsSent DEF Waiting, CountInv
  <2> QED
    BY <1>1, <1>7, <2>4, UntouchedCounts
<1>10. \A q \in Polls \ {p} : pc[q] \in Deciding => jobOf[current[q]] # j
  BY <1>2, AloneWaiting
<1>11. \A q \in Polls \ {p} :
         /\ pc'[q] = "putting" => NextRun(jobOf[current[q]], held[q])'
         /\ pc'[q] = "running" => ThisRun(jobOf[current[q]], held[q])'
  BY <1>1, <1>3, <1>7, <1>10, OthersCount
<1>12. FreshInv'
  BY <1>1, <1>3, <1>5, <1>6 DEF FreshInv, TypeOK
<1> QED
  BY <1>1, <1>8, <1>9, <1>11, <1>12 DEF CountInv

(* A step of poll p that keeps its message in hand and puts none.          *)
LEMMA InHandCounts ==
  ASSUME Calm, LInv, TypeOK', [Next]_vars, NEW p \in Polls, pc[p] \in Deciding,
         UNCHANGED <<jobOf, attempt, opts, starts, current>>,
         \A q \in Polls \ {p} : Same(q),
         \A i \in Jobs \ {jobOf[current[p]]} : Untouched(i)
  PROVE  /\ \A m \in Messages : Waiting(m)' => NextRun(jobOf[m], attempt[m])'
         /\ \A q \in Polls \ {p} :
              /\ pc'[q] = "putting" => NextRun(jobOf[current[q]], held[q])'
              /\ pc'[q] = "running" => ThisRun(jobOf[current[q]], held[q])'
         /\ FreshInv'
<1> USE DEF LInv, WInv
<1> DEFINE j == jobOf[current[p]]
<1>1. Born' = Born /\ Sent' = Sent /\ j \in Born /\ j \in Jobs
  BY DecidingIsOpen DEF Born, Sent, TypeOK
<1>2. ASSUME NEW m \in Messages, Waiting(m)' PROVE NextRun(jobOf[m], attempt[m])'
  <2>1. m \in Sent
    BY <1>1, <1>2, LiveIsSentNext DEF Waiting
  <2>2. Waiting(m)
    BY <1>2, <2>1, WaitedBefore
  <2>3. jobOf[m] \in Jobs \ {j} /\ NextRun(jobOf[m], attempt[m])
    BY <2>2, AloneInHand, LiveIsSent DEF Waiting, CountInv
  <2> QED
    BY <2>3, UntouchedCounts
<1>3. \A q \in Polls \ {p} : pc[q] \in Deciding => jobOf[current[q]] # j
  BY AloneInHand
<1>4. \A q \in Polls \ {p} :
        /\ pc'[q] = "putting" => NextRun(jobOf[current[q]], held[q])'
        /\ pc'[q] = "running" => ThisRun(jobOf[current[q]], held[q])'
  BY <1>1, <1>3, OthersCount
<1>5. FreshInv'
  BY <1>1 DEF FreshInv, Untouched
<1> QED
  BY <1>2, <1>4, <1>5

LEMMA DisposeCounts ==
  ASSUME Calm, LInv, TypeOK', [Next]_vars,
         NEW p \in Polls, NEW outcome \in Final, Disposes(p, outcome)
  PROVE  CountInv' /\ FreshInv'
<1> USE DEF LInv, WInv
<1>1. pc[p] \in Deciding /\ pc'[p] \notin Deciding
  BY DEF Disposes, Deciding
<1>2. \A i \in Jobs \ {jobOf[current[p]]} : Untouched(i)
  BY DEF Disposes, Untouched, BudgetOf, Born, TypeOK
<1> QED
  BY <1>1, <1>2, InHandCounts DEF Disposes, CountInv, Deciding

LEMMA RetryCounts ==
  ASSUME Calm, LInv, TypeOK', [Next]_vars, NEW p \in Polls, RetryLater(p)
  PROVE  CountInv' /\ FreshInv'
<1> USE DEF LInv, WInv
<1> DEFINE j == jobOf[current[p]]
<1>1. /\ pc[p] = "running" /\ pc'[p] = "putting" /\ held'[p] = held[p] + 1
      /\ \A q \in Polls \ {p} : Same(q)
      /\ UNCHANGED <<jobOf, attempt, opts, starts, outcomes, current>>
      /\ MayRetry(opts[j].attempts, held[p])
  BY DEF RetryLater, Same, TypeOK, messageVars, history
<1>2. \A i \in Jobs : Untouched(i)
  BY <1>1 DEF Untouched, BudgetOf, Born
<1>3. j \in Born /\ j \in Jobs /\ ThisRun(j, held[p])
  BY <1>1, DecidingIsOpen DEF CountInv, Deciding
<1>4. NextRun(j, held[p] + 1)
  <2>1. held[p] + 1 <= BudgetOf(j)
    BY <1>1, <1>3, JobNumbers DEF MayRetry, TypeOK
  <2> QED
    BY <1>3, <2>1 DEF ThisRun, NextRun
<1>5. NextRun(jobOf[current[p]], held[p])'
  BY <1>1, <1>2, <1>3, <1>4, UntouchedCounts
<1> QED
  BY <1>1, <1>2, <1>5, InHandCounts DEF CountInv, Deciding

LEMMA RequeueCounts ==
  ASSUME Calm, LInv, TypeOK', [Next]_vars,
         NEW p \in Polls, NEW m \in Messages, Requeue(p, m)
  PROVE  CountInv' /\ FreshInv'
<1> USE DEF LInv, WInv
<1> DEFINE j == jobOf[current[p]]
<1>1. /\ pc[p] = "putting" /\ pc'[p] = "deleting" /\ current' = current
      /\ \A q \in Polls \ {p} : Same(q)
      /\ UNCHANGED <<opts, starts, outcomes>>
  BY DEF Requeue, PutRetry, Await, Same, TypeOK, history
<1>2. /\ Sent' = Sent \union {m} /\ m \notin Sent
      /\ jobOf'[m] = j /\ attempt'[m] = held[p]
  <2>1. PutRetry(p, m)
    BY DEF Requeue
  <2> QED
    BY <2>1, PutRetryKeeps
<1>3. j \in Born /\ j \in Jobs /\ NextRun(j, held[p])
  BY <1>1, DecidingIsOpen DEF CountInv, Deciding
<1>4. Born' = Born
  BY <1>3, PutRetryKeeps DEF Requeue
<1>5. \A i \in Jobs : Untouched(i)
  BY <1>1, <1>4 DEF Untouched, BudgetOf
<1>6. ASSUME NEW x \in Messages, Waiting(x)' PROVE NextRun(jobOf[x], attempt[x])'
  <2>1. CASE x = m
    BY <1>2, <1>3, <1>5, <2>1, UntouchedCounts
  <2>2. CASE x # m
    <3>1. x \in Sent
      BY <1>2, <1>6, <2>2, LiveIsSentNext DEF Waiting
    <3>2. Waiting(x)
      BY <1>1, <1>6, <3>1, WaitedBefore
    <3>3. /\ NextRun(jobOf[x], attempt[x]) /\ jobOf[x] \in Jobs
          /\ jobOf'[x] = jobOf[x] /\ attempt'[x] = attempt[x]
      BY <3>1, <3>2, LiveIsSent, SentStay DEF Waiting, CountInv
    <3> QED
      BY <1>5, <3>3, UntouchedCounts
  <2> QED
    BY <2>1, <2>2
<1>7. ASSUME NEW q \in Polls, pc'[q] \in Deciding
      PROVE  /\ pc'[q] = "putting" => NextRun(jobOf[current[q]], held[q])'
             /\ pc'[q] = "running" => ThisRun(jobOf[current[q]], held[q])'
  <2>1. q # p /\ Same(q) /\ pc[q] \in Deciding
    BY <1>1, <1>7 DEF Same, Deciding
  <2>2. jobOf[current[q]] \in Jobs /\ jobOf'[current[q]] = jobOf[current[q]]
    BY <2>1, DecidingIsOpen, SentStay
  <2> QED
    BY <1>5, <2>1, <2>2, UntouchedCounts DEF Same, CountInv, Deciding
<1>8. FreshInv'
  BY <1>1, <1>4 DEF FreshInv
<1> QED
  BY <1>6, <1>7, <1>8 DEF CountInv, Deciding

LEMMA CountsHold ==
  ASSUME Reliable
  PROVE  Spec => []LInv
<1>1. Calm
  BY ReliableIsCalm
<1>2. Init => FreshInv /\ CountInv
  BY ConstantsAssumption
  DEF Init, FreshInv, CountInv, Waiting, Live, InQueue, HeldBy, Born
<1>3. ASSUME LInv, TypeOK', [Next]_vars
      PROVE  FreshInv' /\ CountInv'
  BY <1>1, <1>3, StepKinds, RestCounts, AddCounts, StartCounts, DisposeCounts, RetryCounts,
     RequeueCounts
  DEF LInv, WInv, Final
<1>4. WInv => TypeOK
  BY DEF WInv
<1> QED
  BY <1>1, <1>2, <1>3, <1>4, HandsHold, PTL DEF Spec, LInv

-----------------------------------------------------------------------------
(* The driver implements JobLifecycle.                                     *)

RunningJob(j) == \E p \in Polls : pc[p] = "running" /\ jobOf[current[p]] = j

(* A job no step concerns keeps its status.                                *)
LEMMA StatusStays ==
  ASSUME NEW j, j \in Born' <=> j \in Born,
         outcomes'[j] \cap Final = outcomes[j] \cap Final,
         RunningJob(j)' <=> RunningJob(j)
  PROVE  StatusOf(j)' = StatusOf(j)
<1>1. \A s \in Final : s \in outcomes'[j] <=> s \in outcomes[j]
  OBVIOUS
<1> QED
  BY <1>1 DEF StatusOf, RunningJob, Final

LEMMA RunningStays ==
  ASSUME WInv, [Next]_vars, NEW j,
         \A p \in Polls :
           \/ Same(p)
           \/ /\ pc[p] = "running" => jobOf[current[p]] # j
              /\ pc'[p] = "running" => jobOf'[current'[p]] # j
  PROVE  RunningJob(j)' <=> RunningJob(j)
<1>1. ASSUME NEW p \in Polls, pc[p] = "running", Same(p)
      PROVE  jobOf'[current'[p]] = jobOf[current[p]]
  BY <1>1, DecidingIsOpen, SentStay DEF Same, Deciding, WInv
<1>2. RunningJob(j)' => RunningJob(j)
  BY <1>1 DEF RunningJob, Same
<1>3. RunningJob(j) => RunningJob(j)'
  BY <1>1 DEF RunningJob, Same
<1> QED
  BY <1>2, <1>3

LEMMA RestStutters ==
  ASSUME LInv, TypeOK', [Next]_vars, Rest
  PROVE  UNCHANGED Lifecycle!vars
<1>1. Born' = Born
  BY DEF Rest, Born
<1>2. ASSUME NEW j \in Jobs
      PROVE  StatusOf(j)' = StatusOf(j) /\ BudgetOf(j)' = BudgetOf(j)
  <2>1. RunningJob(j)' <=> RunningJob(j)
    BY RunningStays DEF Rest, Deciding, LInv
  <2> QED
    BY <1>1, <2>1, StatusStays DEF Rest, BudgetOf
<1> QED
  BY <1>2 DEF Lifecycle!vars, Rest

LEMMA RequeueStutters ==
  ASSUME LInv, TypeOK', [Next]_vars,
         NEW p \in Polls, NEW m \in Messages, Requeue(p, m)
  PROVE  UNCHANGED Lifecycle!vars
<1> USE DEF LInv, WInv
<1>1. /\ pc[p] = "putting" /\ pc'[p] = "deleting"
      /\ \A q \in Polls \ {p} : Same(q)
      /\ UNCHANGED <<opts, starts, outcomes>>
  BY DEF Requeue, PutRetry, Await, Same, TypeOK, history
<1>2. Born' = Born
  BY <1>1, DecidingIsOpen, PutRetryKeeps DEF Requeue, Deciding
<1>3. ASSUME NEW j \in Jobs
      PROVE  StatusOf(j)' = StatusOf(j) /\ BudgetOf(j)' = BudgetOf(j)
  <2>1. RunningJob(j)' <=> RunningJob(j)
    BY <1>1, RunningStays
  <2> QED
    BY <1>1, <1>2, <2>1, StatusStays DEF BudgetOf
<1> QED
  BY <1>1, <1>3 DEF Lifecycle!vars

LEMMA AddSubmits ==
  ASSUME LInv, TypeOK', [Next]_vars,
         NEW j \in Jobs, NEW op \in Options, NEW m \in Messages, Add(j, op, m)
  PROVE  Lifecycle!Submit(j)
<1> USE DEF LInv, WInv
<1>1. /\ Born' = Born \union {j} /\ j \notin Born /\ jobOf'[m] = j /\ opts'[j] = op
      /\ UNCHANGED <<pc, current, held, starts, outcomes>>
  BY AddPuts DEF Add, pollVars, history
<1>2. ASSUME NEW i \in Jobs \ {j}
      PROVE  StatusOf(i)' = StatusOf(i) /\ BudgetOf(i)' = BudgetOf(i)
  <2>1. RunningJob(i)' <=> RunningJob(i)
    BY <1>1, RunningStays DEF Same
  <2>2. opts'[i] = opts[i]
    BY DEF Add, TypeOK
  <2> QED
    BY <1>1, <2>1, <2>2, StatusStays DEF BudgetOf
<1>3. StatusOf(j) = "new"
  BY <1>1 DEF StatusOf
<1>4. StatusOf(j)' = "ready"
  <2>1. ~RunningJob(j)'
    <3>1. ASSUME NEW p \in Polls, pc[p] = "running" PROVE jobOf'[current[p]] # j
      BY <1>1, <3>1, DecidingIsOpen, SentStay DEF Deciding
    <3> QED
      BY <1>1, <3>1 DEF RunningJob
  <2>2. outcomes'[j] \cap Final = {}
    BY <1>1 DEF FreshInv
  <2> QED
    BY <1>1, <2>1, <2>2 DEF StatusOf, RunningJob, Final
<1>5. BudgetOf(j)' \in Nat \ {0}
  BY <1>1, OptionsAssumption DEF BudgetOf
<1> QED
  BY <1>1, <1>2, <1>3, <1>4, <1>5 DEF Lifecycle!Submit, Lifecycle!Becomes

LEMMA StartRuns ==
  ASSUME Reliable, LInv, TypeOK', [Next]_vars,
         NEW p \in Polls, NEW m \in Messages, StartJob(p, m)
  PROVE  Lifecycle!Run(jobOf[m])
<1> USE DEF LInv, WInv
<1> DEFINE j == jobOf[m]
<1>1. /\ pc[p] = "next" /\ m \in batch[p] /\ current[p] = None
      /\ pc'[p] = "running" /\ current'[p] = m
      /\ \A q \in Polls \ {p} : Same(q)
      /\ UNCHANGED <<jobOf, attempt, opts, outcomes>>
  BY DEF StartJob, Same, TypeOK, Busy, messageVars
<1>2. Waiting(m) /\ j \in Jobs /\ j \in Born /\ NextRun(j, attempt[m])
  BY StartedWaits
<1>3. starts' = [starts EXCEPT ![j] = @ + 1]
  BY StartedWaits
<1>4. Born' = Born
  BY <1>1 DEF Born
<1>5. \A i \in Jobs : BudgetOf(i)' = BudgetOf(i)
  BY <1>1, <1>4 DEF BudgetOf
<1>6. ASSUME NEW i \in Jobs \ {j} PROVE StatusOf(i)' = StatusOf(i)
  <2>1. RunningJob(i)' <=> RunningJob(i)
    BY <1>1, RunningStays
  <2> QED
    BY <1>1, <1>4, <2>1, StatusStays
<1>7. StatusOf(j) = "ready"
  <2>1. ~RunningJob(j)
    BY <1>2, AloneWaiting DEF RunningJob, Deciding
  <2> QED
    BY <1>2, <2>1 DEF StatusOf, RunningJob, NextRun, Final
<1>8. StatusOf(j)' = "running"
  <2>1. RunningJob(j)'
    BY <1>1 DEF RunningJob
  <2> QED
    BY <1>1, <1>2, <1>4, <2>1 DEF StatusOf, RunningJob, NextRun, Final
<1>9. starts[j] < BudgetOf(j)
  BY <1>2, JobNumbers DEF NextRun
<1>10. StatusOf(jobOf[m])' = "running" /\ jobOf' = jobOf
  BY <1>1, <1>8
<1>11. [i \in Jobs |-> StatusOf(i)]'
         = [[i \in Jobs |-> StatusOf(i)] EXCEPT ![j] = "running"]
  BY <1>2, <1>6, <1>8, <1>10
<1> QED
  BY <1>2, <1>3, <1>5, <1>7, <1>9, <1>11 DEF Lifecycle!Run, Lifecycle!Becomes

(* The run of poll p ends, and the job becomes what s says.                *)
LEMMA RunEnds ==
  ASSUME Reliable, LInv, TypeOK', [Next]_vars, NEW p \in Polls,
         pc[p] = "running", pc'[p] # "running",
         \A q \in Polls \ {p} : Same(q),
         UNCHANGED <<jobOf, opts, starts, current>>,
         \A i \in Jobs \ {jobOf[current[p]]} : outcomes'[i] = outcomes[i]
  PROVE  /\ jobOf[current[p]] \in Jobs /\ jobOf[current[p]] \in Born
         /\ StatusOf(jobOf[current[p]]) = "running"
         /\ StatusOf(jobOf[current[p]])' =
              IF "completed" \in outcomes'[jobOf[current[p]]] THEN "completed"
              ELSE IF "failed" \in outcomes'[jobOf[current[p]]] THEN "failed"
              ELSE "ready"
         /\ \A i \in Jobs \ {jobOf[current[p]]} : StatusOf(i)' = StatusOf(i)
         /\ \A i \in Jobs : BudgetOf(i)' = BudgetOf(i)
         /\ ThisRun(jobOf[current[p]], held[p])
<1> USE DEF LInv, WInv
<1> DEFINE j == jobOf[current[p]]
<1>1. j \in Jobs /\ j \in Born /\ ThisRun(j, held[p])
  BY DecidingIsOpen DEF Deciding, CountInv
<1>2. Born' = Born
  BY DEF Born
<1>3. StatusOf(j) = "running"
  BY <1>1 DEF StatusOf, ThisRun, Final
<1>4. ~RunningJob(j)'
  BY AloneInHand DEF RunningJob, Deciding, Same
<1>5. ASSUME NEW i \in Jobs \ {j} PROVE StatusOf(i)' = StatusOf(i)
  <2>1. RunningJob(i)' <=> RunningJob(i)
    BY RunningStays
  <2> QED
    BY <1>2, <2>1, StatusStays
<1> QED
  BY <1>1, <1>2, <1>3, <1>4, <1>5 DEF StatusOf, BudgetOf, RunningJob

LEMMA RunsEndAsPromised ==
  ASSUME Reliable, LInv, TypeOK', [Next]_vars, NEW p \in Polls
  PROVE  /\ Disposes(p, "completed") => Lifecycle!Complete(jobOf[current[p]])
         /\ Disposes(p, "failed")
            /\ ~MayRetry(opts[jobOf[current[p]]].attempts, held[p])
              => Lifecycle!Fail(jobOf[current[p]])
         /\ RetryLater(p) => Lifecycle!TryAgain(jobOf[current[p]])
<1> USE DEF LInv, WInv
<1> DEFINE j == jobOf[current[p]]
<1>1. ASSUME Disposes(p, "completed") PROVE Lifecycle!Complete(j)
  <2>1. "completed" \in outcomes'[j] /\ \A i \in Jobs \ {j} : outcomes'[i] = outcomes[i]
    BY <1>1, CurrentIsSent DEF Disposes, TypeOK, Busy
  <2> QED
    BY <1>1, <2>1, RunEnds DEF Disposes, Lifecycle!Complete, Lifecycle!Becomes
<1>2. ASSUME Disposes(p, "failed"), ~MayRetry(opts[j].attempts, held[p])
      PROVE  Lifecycle!Fail(j)
  <2>1. /\ outcomes'[j] = outcomes[j] \union {"failed"}
        /\ \A i \in Jobs \ {j} : outcomes'[i] = outcomes[i]
    BY <1>2, CurrentIsSent DEF Disposes, TypeOK, Busy
  <2>2. j \in Born /\ ThisRun(j, held[p])
    BY <1>2, <2>1, RunEnds DEF Disposes
  <2>3. starts[j] = BudgetOf(j)
    BY <1>2, <2>2, JobNumbers DEF ThisRun, MayRetry
  <2>4. "completed" \notin outcomes'[j]
    BY <2>1, <2>2 DEF ThisRun, Final
  <2> QED
    BY <1>2, <2>1, <2>3, <2>4, RunEnds DEF Disposes, Lifecycle!Fail, Lifecycle!Becomes
<1>3. ASSUME RetryLater(p) PROVE Lifecycle!TryAgain(j)
  <2>1. /\ pc[p] = "running" /\ pc'[p] = "putting"
        /\ \A q \in Polls \ {p} : Same(q)
        /\ UNCHANGED <<jobOf, opts, starts, outcomes, current>>
        /\ MayRetry(opts[j].attempts, held[p])
    BY <1>3 DEF RetryLater, Same, TypeOK, messageVars, history
  <2>2. j \in Born /\ ThisRun(j, held[p])
    BY <2>1, RunEnds
  <2>3. starts[j] < BudgetOf(j)
    BY <2>1, <2>2, JobNumbers DEF ThisRun, MayRetry
  <2>4. StatusOf(j)' = "ready"
    BY <2>1, <2>2, RunEnds DEF ThisRun, Final
  <2> QED
    BY <2>1, <2>3, <2>4, RunEnds DEF Lifecycle!TryAgain, Lifecycle!Becomes
<1> QED
  BY <1>1, <1>2, <1>3

(* The driver keeps the promise of JobLifecycle about every job, as long   *)
(* as the service does what it is asked to, no processor takes longer than *)
(* a message stays hidden, and finished jobs are deleted: it runs at most  *)
(* as often as its budget, fails only with the budget used up, and is      *)
(* final then.  Calls of getJob, remove and close, and jobs that remove    *)
(* themselves while they run, do not change that.                          *)
THEOREM OciImplementsLifecycle ==
  ASSUME Reliable
  PROVE  Spec => LifecycleSpec
<1>1. Init => Lifecycle!Init
  BY ConstantsAssumption DEF Init, Lifecycle!Init, StatusOf, BudgetOf, Born
<1>2. ASSUME LInv, TypeOK', [Next]_vars
      PROVE  [Lifecycle!Next]_Lifecycle!vars
  <2>1. ASSUME NEW p \in Polls, pc[p] = "running" PROVE jobOf[current[p]] \in Jobs
    BY <1>2, <2>1, DecidingIsOpen DEF Deciding, LInv
  <2>2. ASSUME NEW p \in Polls, NEW m \in Messages, StartJob(p, m) PROVE jobOf[m] \in Jobs
    BY <1>2, <2>2, StartedWaits
  <2> QED
    BY <1>2, <2>1, <2>2, StepKinds, RestStutters, RequeueStutters, AddSubmits, StartRuns,
       RunsEndAsPromised
    DEF Lifecycle!Next, Disposes, RetryLater, LInv, WInv
<1>3. LInv => TypeOK
  BY DEF LInv, WInv
<1> QED
  BY <1>1, <1>2, <1>3, CountsHold, PTL DEF Spec, LifecycleSpec, Lifecycle!Spec
=============================================================================
