-------------------------- MODULE OciDriverClaims --------------------------
(***************************************************************************)
(* What the repository's documentation and tests say of the queue and the  *)
(* OCI driver does not do, as formulas over OciDriver.                     *)
(***************************************************************************)
EXTENDS OciDriver

(* interfaces/queue-hub-job-opts.interface.ts:68, of `attempts`: "The      *)
(* total number of attempts to try the job until it completes."            *)
(* The code: a message that failed for good stays as well, unless          *)
(* removeOnFail is set, and its last attempt is made again and again.      *)
RunsWithinAttempts ==
  \A j \in Born : opts[j].attempts > 0 => starts[j] <= opts[j].attempts
=============================================================================
