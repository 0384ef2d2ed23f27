------------------------- MODULE LocalDriverClaims -------------------------
(***************************************************************************)
(* What the repository's documentation, demo and tests say of the queue    *)
(* and the local driver does not do.  Each property is the sentence quoted *)
(* above it, read as a formula over LocalDriver; the run that checks it    *)
(* ends in a counterexample.                                               *)
(***************************************************************************)
EXTENDS LocalDriver

(* interfaces/queue-hub-job-opts.interface.ts:90: "If you attempt to add a *)
(* job with an id that already exists, it will not be added."              *)
(* The code: add replaces the object the Map holds under the id.           *)
DuplicateIsNotAdded ==
  [][\A o \in Jobs :
       state[o] = "unborn" /\ o \in jobs' => Holders(Id(o)') = {}]_vars

(* demo/src/job-opts-demo/job-opts-demo.service.ts:160: of three jobs      *)
(* added with the demo's options, `expectedOrder: lifo ? '3, 2, 1' :       *)
(* '1, 2, 3'`: each is run.                                                *)
(* The code: a job that failed before (the demo sets removeOnFail to       *)
(* false) stays in the Map, sorts before them in every later poll and is   *)
(* all a poll of concurrency 1 looks at: the others never start.           *)
EveryJobStarts ==
  (\E w \in Workers : <>[]Works(w)) =>
    \A o \in Jobs : o \in Born ~> starts[o] > 0
=============================================================================
