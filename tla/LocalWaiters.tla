---------------------------- MODULE LocalWaiters ----------------------------
(***************************************************************************)
(* LocalDriver with callers of job.waitUntilFinished().                    *)
(*                                                                         *)
(* A waiter looks at the job object's state, sleeps 100 ms and looks       *)
(* again.  Nobody wakes it: what it is told is what the job's state        *)
(* happens to be when it looks, between any two steps of the polls.        *)
(*                                                                         *)
(* Source: drivers/local/local-queue-job.adapter.ts.                       *)
(***************************************************************************)
EXTENDS LocalDriver

CONSTANT Waiters  \* calls of waitUntilFinished that may be pending at once

VARIABLE waitsFor  \* the job a pending call waits for, or None

allVars == <<vars, waitsFor>>

InitW == Init /\ waitsFor = [v \in Waiters |-> None]

Finished(o) == state[o] \in {"completed", "failed"}

(* job.waitUntilFinished(timeout) of a job that is not finished: one that  *)
(* is gets its answer in the same step, and no waiter comes about.         *)
WaitUntilFinished(v, o) ==
  /\ waitsFor[v] = None
  /\ o \in Born /\ ~Finished(o)
  /\ waitsFor' = [waitsFor EXCEPT ![v] = o]
  /\ UNCHANGED vars

Return(v) == waitsFor' = [waitsFor EXCEPT ![v] = None] /\ UNCHANGED vars

(* Mutant: the loop waits for completion only.                             *)
LookAgainForCompletion(v) ==
  /\ waitsFor[v] # None
  /\ state[waitsFor[v]] = "completed"
  /\ Return(v)

(* 100 ms later: the job is found finished.  The caller gets its value, or *)
(* its error, depending on its state.                                      *)
LookAgain(v) ==
  /\ waitsFor[v] # None
  /\ Finished(waitsFor[v])
  /\ Return(v)

(* It is not, and the call was given a timeout, which is over.  (Which     *)
(* calls were given one is left open; nothing forces this step.)           *)
WaitTimesOut(v) ==
  /\ waitsFor[v] # None
  /\ ~Finished(waitsFor[v])
  /\ Return(v)

-----------------------------------------------------------------------------
NextW ==
  \/ Next /\ UNCHANGED waitsFor
  \/ \E v \in Waiters, o \in Jobs : WaitUntilFinished(v, o)
  \/ \E v \in Waiters : LookAgain(v) \/ WaitTimesOut(v)

SpecW == InitW /\ [][NextW]_allVars

(* The timer of a waiter's loop runs again and again.                      *)
FairSpecW ==
  SpecW /\ Fairness /\ \A v \in Waiters : WF_allVars(LookAgain(v))

-----------------------------------------------------------------------------
(* Every call of waitUntilFinished returns, without a timeout, if some     *)
(* worker is left running.  No pause, close or restart of the workers, no  *)
(* timeout of a processor and no retry leaves it waiting.                  *)
WaiterReturns ==
  (\E w \in Workers : <>[]Works(w)) =>
    \A v \in Waiters : waitsFor[v] # None ~> waitsFor[v] = None

(* A waiter is never told that its job failed while the job has an attempt *)
(* left: between the processor's rejection and the retry the job is in no  *)
(* state a waiter takes for the end.                                       *)
FailureIsFinal ==
  [][\A v \in Waiters :
       LET o == waitsFor[v] IN
       o # None /\ waitsFor'[v] = None /\ state[o] = "failed"
         => opts[o].attempts <= attempt[o]]_allVars
=============================================================================
