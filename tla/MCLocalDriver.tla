--------------------------- MODULE MCLocalDriver ---------------------------
(***************************************************************************)
(* Small instances of LocalDriver: the option records of each run.         *)
(***************************************************************************)
EXTENDS LocalDriverClaims, TLC

CONSTANTS j1, j2, j3, idA

Symmetry == Permutations(Jobs)

(* Removal options: absent (keep), true, and a number.                     *)
Keep     == [kind |-> "undefined", value |-> 0]
Removed  == [kind |-> "boolean", value |-> 1]
KeepFive == [kind |-> "number", value |-> 5]

NoBackoff == [type |-> "undefined", delay |-> 0]
Fixed     == [type |-> "fixed", delay |-> 1]

(* No option given.  9 stands for the default priority, the lowest.        *)
Plain == [jobId |-> AutoId, priority |-> 9, lifo |-> FALSE, attempts |-> 0,
          delay |-> FALSE, timeout |-> FALSE, backoff |-> NoBackoff,
          removeOnComplete |-> Keep, removeOnFail |-> Keep]

Retried == [Plain EXCEPT !.attempts = 2, !.backoff = Fixed, !.timeout = TRUE]

(* Overlapping polls and retries, jobs kept and jobs removed, and every    *)
(* kind of precedence between two jobs.                                    *)
PollingOptions ==
  {Retried, [Retried EXCEPT !.lifo = TRUE, !.removeOnComplete = Removed],
   [Plain EXCEPT !.priority = 1, !.delay = TRUE]}

(* Two attempts, removed when it fails; one attempt, under an id of the    *)
(* application's choosing, removed when it completes.                      *)
CallOptions ==
  {[Retried EXCEPT !.removeOnFail = KeepFive, !.timeout = FALSE],
   [Retried EXCEPT !.jobId = idA, !.attempts = 1, !.removeOnComplete = Removed]}

(* Jobs that leave the Map when they end, whatever their processor does.   *)
LiveOptions ==
  {[Retried EXCEPT !.removeOnComplete = Removed, !.removeOnFail = KeepFive],
   [Plain EXCEPT !.priority = 1, !.delay = TRUE,
                 !.removeOnComplete = Removed, !.removeOnFail = Removed]}

(* The options of the quoted claims.                                       *)
NamedOptions == {[Plain EXCEPT !.jobId = idA]}

(* The demo's defaultJobOptions (with two attempts instead of three).      *)
Demo == [Retried EXCEPT !.timeout = FALSE, !.removeOnComplete = Removed,
                        !.removeOnFail = [kind |-> "boolean", value |-> 0]]

DemoOptions == {Demo}
=============================================================================
