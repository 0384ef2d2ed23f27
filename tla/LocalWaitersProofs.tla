------------------------- MODULE LocalWaitersProofs -------------------------
(***************************************************************************)
(* What a caller of waitUntilFinished is told, for every set of jobs,      *)
(* workers, slots and waiters and every value of the other constants.      *)
(***************************************************************************)
EXTENDS LocalWaiters, LocalDriverProofs

(* Nobody but the worker calls moveToFailed.                               *)
OnlyWorkersMove == "moveTo" \notin Calls

(* A job in state "failed" has no attempt left.  FailureIsFinal looks at   *)
(* the state at any time, so it needs this of all failed jobs, and the     *)
(* attempts of a failed job only grow.                                     *)
UsedUp(o) == state[o] = "failed" => opts[o].attempts <= attempt[o]

FailedInv == \A o \in Born : UsedUp(o)

WaitInv == waitsFor \in [Waiters -> Jobs \union {None}]

-----------------------------------------------------------------------------
(* A step that fails no job keeps the invariant: options stay and attempts *)
(* do not shrink.                                                          *)
LEMMA NoFailureKeepsUsedUp ==
  ASSUME TypeOK, TypeOK', FailedInv, Born' = Born, opts' = opts,
         \A x \in Born : /\ attempt'[x] >= attempt[x]
                         /\ state'[x] = "failed" => state[x] = "failed"
  PROVE  FailedInv'
<1>1. ASSUME NEW x \in Born PROVE UsedUp(x)'
  <2>1. /\ attempt[x] \in Nat /\ attempt'[x] \in Nat
        /\ opts[x] \in Options /\ opts[x].attempts \in Nat
    BY OptionsAssumption DEF TypeOK, Born
  <2> QED
    BY <1>1, <2>1 DEF FailedInv, UsedUp
<1> QED
  BY <1>1 DEF FailedInv

(* A step that fails a job which has used its attempts keeps it too.       *)
LEMMA FailureKeepsUsedUp ==
  ASSUME TypeOK, TypeOK', FailedInv, UNCHANGED opts,
         NEW o \in Born, Finish(o, "failed"),
         opts[o].attempts <= attempt[o],
         \/ attempt' = attempt
         \/ attempt' = [attempt EXCEPT ![o] = @ + 1]
  PROVE  FailedInv'
<1>1. Born' = Born
  BY DEF Finish, TypeOK, Born
<1>2. /\ \A x \in Born : attempt[x] \in Nat /\ attempt'[x] >= attempt[x]
      /\ \A x \in Born : opts[x] \in Options /\ opts[x].attempts \in Nat
  BY OptionsAssumption DEF TypeOK, Born
<1>3. UsedUp(o)'
  BY <1>2 DEF UsedUp, TypeOK
<1>4. ASSUME NEW x \in Born \ {o} PROVE UsedUp(x)'
  <2>1. state'[x] = state[x] /\ attempt'[x] = attempt[x]
    BY DEF Finish, TypeOK, Born
  <2> QED
    BY <2>1 DEF FailedInv, UsedUp
<1> QED
  BY <1>1, <1>3, <1>4 DEF FailedInv

(* The worker fails a job only when it has used its attempts ...           *)
LEMMA ExceededIsUsedUp ==
  ASSUME TypeOK, NEW o \in Born, Exceeded(o)
  PROVE  opts[o].attempts <= attempt[o]
<1>1. attempt[o] \in Nat /\ opts[o] \in Options /\ opts[o].attempts \in Nat
  BY OptionsAssumption DEF TypeOK, Born
<1> QED
  BY <1>1 DEF Exceeded, HasExceeded

LEMMA NoRetryIsUsedUp ==
  ASSUME TypeOK, NEW o \in Born, ~MayRetry(opts[o].attempts, attempt[o])
  PROVE  opts[o].attempts <= attempt[o]
<1>1. attempt[o] \in Nat /\ opts[o] \in Options /\ opts[o].attempts \in Nat
  BY OptionsAssumption DEF TypeOK, Born
<1> QED
  BY <1>1 DEF MayRetry

LEMMA LoopKeepsUsedUp ==
  ASSUME TypeOK, TypeOK', FailedInv, NEW p \in Polls, LoopStep(p)
  PROVE  FailedInv'
<1>1. ASSUME NEW o \in Jobs, FailExceeded(p, o) PROVE FailedInv'
  <2>1. o \in Born
    BY <1>1, NextIsBorn DEF FailExceeded
  <2> QED
    BY <1>1, <2>1, ExceededIsUsedUp, FailureKeepsUsedUp DEF FailExceeded
<1>2. ASSUME NEW o \in Jobs, StartJob(p, o) \/ ListenerStopsLoop(p, o)
      PROVE  FailedInv'
  <2>1. o \in Born
    BY <1>2, NextIsBorn DEF StartJob, ListenerStopsLoop
  <2>2. /\ Born' = Born /\ UNCHANGED <<attempt, opts>>
        /\ \A x \in Born : state'[x] \in {state[x], "active"}
    BY <1>2, <2>1 DEF StartJob, ListenerStopsLoop, TypeOK, Born
  <2> QED
    BY <2>2, NoFailureKeepsUsedUp DEF TypeOK, Born
<1>3. CASE LoopEnds(p)
  BY <1>3 DEF LoopEnds, jobVars, FailedInv, UsedUp, Born
<1>4. ASSUME NEW o \in Jobs, EmitFailed(p, o) PROVE FailedInv'
  <2>1. o \in Born /\ \A x \in Born : x \in Jobs /\ attempt[x] \in Nat
    BY <1>4 DEF EmitFailed, TypeOK, Born
  <2>2. opts' = opts
    BY <1>4 DEF EmitFailed
  <2>3. /\ Born' = Born
        /\ \A x \in Born : /\ attempt'[x] >= attempt[x]
                           /\ state'[x] \in {state[x], "waiting"}
    BY <1>4, <2>1 DEF EmitFailed, TypeOK, Born
  <2> QED
    BY <2>1, <2>2, <2>3, NoFailureKeepsUsedUp
<1> QED
  BY <1>1, <1>2, <1>3, <1>4 DEF LoopStep

LEMMA SettleKeepsUsedUp ==
  ASSUME TypeOK, TypeOK', FailedInv, NEW p \in Polls, Settle(p)
  PROVE  FailedInv'
<1> DEFINE o == current[p]
<1>1. o \in Born /\ o \in Jobs /\ opts' = opts
  BY CurrentIsBorn DEF Settle, Complete, ProcessorRejects, TimeoutFires, Born
<1>2. \A x \in Born : x \in Jobs /\ attempt[x] \in Nat
  BY DEF TypeOK, Born
<1>3. CASE Complete(p)
  <2>1. /\ Born' = Born /\ attempt' = attempt
        /\ \A x \in Born : state'[x] \in {state[x], "completed"}
    BY <1>1, <1>3 DEF Complete, Finish, TypeOK, Born
  <2> QED
    BY <1>1, <1>2, <2>1, NoFailureKeepsUsedUp
<1>4. CASE RetryLater(p, o)
  <2>1. /\ Born' = Born
        /\ \A x \in Born : /\ attempt'[x] >= attempt[x]
                           /\ state'[x] \in {state[x], "delayed", "waiting"}
    BY <1>1, <1>2, <1>4 DEF RetryLater, TypeOK, Born
  <2> QED
    BY <1>1, <2>1, NoFailureKeepsUsedUp
<1>5. CASE GiveUp(p, o)
  <2>1. opts[o].attempts <= attempt[o]
    BY <1>1, <1>5, NoRetryIsUsedUp DEF GiveUp
  <2>2. CASE UNCHANGED <<jobs, state, attempt>>
    BY <1>1, <2>2 DEF FailedInv, UsedUp, Born
  <2>3. CASE Finish(o, "failed")
    BY <1>1, <1>5, <2>1, <2>3, FailureKeepsUsedUp DEF GiveUp
  <2> QED
    BY <1>5, <2>2, <2>3 DEF GiveUp
<1> QED
  BY <1>3, <1>4, <1>5 DEF Settle, ProcessorRejects, TimeoutFires

LEMMA StepKeepsUsedUp ==
  ASSUME OnlyWorkersMove, TypeOK, TypeOK', FailedInv, [Next]_vars
  PROVE  FailedInv'
<1>1. \A x \in Born : x \in Jobs /\ attempt[x] \in Nat
  BY DEF TypeOK, Born
<1>2. ASSUME NEW o \in Jobs, NEW op \in Options, NEW t, Add(o, op, t)
      PROVE  FailedInv'
  <2>1. Born' = Born \union {o} /\ o \notin Born /\ state'[o] # "failed"
    BY <1>2 DEF Add, TypeOK, Born
  <2>2. \A x \in Born : /\ state'[x] = state[x] /\ opts'[x] = opts[x]
                        /\ attempt'[x] = attempt[x]
    BY <1>2, <2>1 DEF Add, TypeOK, Born
  <2> QED
    BY <2>1, <2>2 DEF FailedInv, UsedUp
<1>3. ASSUME NEW o \in Jobs, Retry(o) PROVE FailedInv'
  <2>1. Born' = Born
    BY <1>3, ConstantsAssumption DEF Retry, TypeOK, Born, ConstantsAssumption, JobStates
  <2>2. \A x \in Born : /\ attempt'[x] >= attempt[x]
                        /\ state'[x] \in {state[x], "waiting"}
    BY <1>1, <1>3 DEF Retry, TypeOK
  <2> QED
    BY <1>3, <2>1, <2>2, NoFailureKeepsUsedUp DEF Retry
<1>4. ASSUME UNCHANGED <<state, attempt, opts>> PROVE FailedInv'
  BY <1>4 DEF FailedInv, UsedUp, Born
<1>5. ASSUME NEW p \in Polls, LoopStep(p) \/ Settle(p) PROVE FailedInv'
  BY <1>5, LoopKeepsUsedUp, SettleKeepsUsedUp
<1>6. CASE \/ \E o \in Jobs : Remove(o) \/ DelayElapses(o)
           \/ Empty \/ UNCHANGED vars
           \/ \E before \in 1 .. now + 1, limit \in {0, 1},
                 type \in {JobStates} \union {{s} : s \in JobStates} :
                Clean(before, type, limit)
           \/ \E w \in Workers : \/ Close(w) \/ SetPaused(w, TRUE) \/ SetPaused(w, FALSE)
                                 \/ Start(w) \/ Tick(w)
  BY <1>4, <1>6
  DEF Remove, DelayElapses, Empty, Clean, Close, SetPaused, Start, Tick, jobVars, vars
<1> QED
  BY <1>2, <1>3, <1>5, <1>6 DEF Next, Application, MoveTo, OnlyWorkersMove

-----------------------------------------------------------------------------
(* The waiters leave the driver alone.                                     *)
LEMMA WaitersOnlyLook ==
  SpecW => Spec
<1>1. InitW => Init
  BY DEF InitW
<1>2. [NextW]_allVars => [Next]_vars
  BY DEF NextW, allVars, WaitUntilFinished, LookAgain, WaitTimesOut, Return
<1> QED
  BY <1>1, <1>2, PTL DEF SpecW, Spec

LEMMA WaitersWaitForJobs ==
  SpecW => []WaitInv
<1>1. InitW => WaitInv
  BY DEF InitW, WaitInv
<1>2. WaitInv /\ [NextW]_allVars => WaitInv'
  BY DEF WaitInv, NextW, allVars, WaitUntilFinished, LookAgain, WaitTimesOut, Return,
         Born
<1> QED
  BY <1>1, <1>2, PTL DEF SpecW

(* A failed job has used its attempts, at any time.                        *)
LEMMA FailedAreUsedUp ==
  ASSUME OnlyWorkersMove
  PROVE  Spec => []FailedInv
<1>1. Init => FailedInv
  BY DEF Init, FailedInv, Born
<1> QED
  BY <1>1, StepKeepsUsedUp, TypeCorrect, PTL DEF Spec

(* No waiter is told that its job failed while the worker still means to   *)
(* try again: whatever polls overlap, however often anybody calls retry(), *)
(* in whatever state and from whatever listener, whoever times out.        *)
THEOREM WaitersHearTheEnd ==
  ASSUME OnlyWorkersMove
  PROVE  SpecW => FailureIsFinal
<1>1. ASSUME FailedInv, WaitInv, [NextW]_allVars, NEW v \in Waiters,
             waitsFor[v] # None, waitsFor'[v] = None, state[waitsFor[v]] = "failed"
      PROVE  opts[waitsFor[v]].attempts <= attempt[waitsFor[v]]
  <2>1. waitsFor[v] \in Born
    BY <1>1 DEF WaitInv, Born
  <2> QED
    BY <1>1, <2>1 DEF FailedInv, UsedUp
<1>2. FailedInv /\ WaitInv /\ [NextW]_allVars =>
        [\A v \in Waiters :
           LET o == waitsFor[v] IN
           o # None /\ waitsFor'[v] = None /\ state[o] = "failed"
             => opts[o].attempts <= attempt[o]]_allVars
  BY <1>1
<1> QED
  BY <1>2, WaitersOnlyLook, WaitersWaitForJobs, FailedAreUsedUp, PTL
  DEF SpecW, FailureIsFinal
=============================================================================
