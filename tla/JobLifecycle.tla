--------------------------- MODULE JobLifecycle ---------------------------
(***************************************************************************)
(* What a driver promises about every job, whoever polls it: it runs one   *)
(* at a time and at most as often as its budget of attempts; it completes  *)
(* after a run; it fails only after a run that used the budget up; and it  *)
(* is final then.                                                          *)
(*                                                                         *)
(* Source: the states of LocalJobData and the options `attempts` of        *)
(* drivers/base/base-job.adapter.ts.                                       *)
(***************************************************************************)
EXTENDS Naturals

CONSTANT Jobs

VARIABLES
  status,   \* "new", "ready", "running", "completed" or "failed"
  runs,     \* how often the processor was called
  budget    \* how often it may be called: `attempts`, or once

vars == <<status, runs, budget>>

Init ==
  /\ status = [o \in Jobs |-> "new"]
  /\ runs = [o \in Jobs |-> 0]
  /\ budget = [o \in Jobs |-> 1]

Becomes(o, s) == status' = [status EXCEPT ![o] = s]

Submit(o) ==
  /\ status[o] = "new"
  /\ Becomes(o, "ready")
  /\ budget'[o] \in Nat \ {0}
  /\ budget' = [budget EXCEPT ![o] = budget'[o]]
  /\ UNCHANGED runs

Run(o) ==
  /\ status[o] = "ready"
  /\ runs[o] < budget[o]
  /\ Becomes(o, "running")
  /\ runs' = [runs EXCEPT ![o] = @ + 1]
  /\ UNCHANGED budget

(* The run failed and another one is allowed.                              *)
TryAgain(o) ==
  /\ status[o] = "running"
  /\ runs[o] < budget[o]
  /\ Becomes(o, "ready")
  /\ UNCHANGED <<runs, budget>>

Complete(o) ==
  /\ status[o] = "running"
  /\ Becomes(o, "completed")
  /\ UNCHANGED <<runs, budget>>

(* The last run the budget allows failed.                                  *)
Fail(o) ==
  /\ status[o] = "running"
  /\ runs[o] = budget[o]
  /\ Becomes(o, "failed")
  /\ UNCHANGED <<runs, budget>>

Next ==
  \E o \in Jobs : Submit(o) \/ Run(o) \/ TryAgain(o) \/ Complete(o) \/ Fail(o)

Spec == Init /\ [][Next]_vars
=============================================================================
