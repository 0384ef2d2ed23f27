------------------------- MODULE MCWorkerLifecycle -------------------------
(***************************************************************************)
(* Two small applications in one process, one after the other.  The first  *)
(* registers two queues, the second one asynchronously, under another      *)
(* configuration, with options that name another queue and a file among    *)
(* its processors; the second application registers a queue of the first   *)
(* name under another configuration, with another OCID.  Both have workers *)
(* of their own, and a @Processor class of that name.                      *)
(***************************************************************************)
EXTENDS WorkerLifecycleClaims

CONSTANTS r1, r2, r3, p1, c1, c2, qA, qB, i1, i2

Queue(name, key, id, callbacks) ==
  [name |-> name, given |-> name, async |-> FALSE, configKey |-> key,
   queueId |-> id, endpoint |-> TRUE, compartment |-> FALSE,
   processors |-> callbacks]

(* Of an async registration the options need not name the queue.           *)
Async(reg, given) == [reg EXCEPT !.async = TRUE, !.given = given]

ApplicationQueues ==
  [r \in Registrations |->
     CASE r = r1 -> Queue(qA, Default, i1, {c1})
       [] r = r2 -> Async(Queue(qA, "other", i1, {c1, c2}), qB)
       [] r = r3 -> Async(Queue(qA, "other", i2, {c1}), Undefined)]

ApplicationOf == [r \in Registrations |-> IF r = r3 THEN 2 ELSE 1]

ApplicationProcessors == [p \in Processors |-> qA]

Oci   == [driver |-> "oci-queue", localMode |-> FALSE, connection |-> "withCompartment"]
Local == [driver |-> Undefined, localMode |-> TRUE, connection |-> Undefined]

(* Local by default and OCI under the other key, where the file is refused *)
(* then; the other way round; and nothing under the other key.             *)
LocalFirst == [k \in {Default, "other"} |-> IF k = Default THEN Local ELSE Oci]
OciFirst   == [k \in {Default, "other"} |-> IF k = Default THEN Oci ELSE Local]
OnlyOci    == [k \in {Default} |-> Oci]

AllConfigurations == {LocalFirst, OciFirst, OnlyOci}
OneConfiguration == {LocalFirst}
=============================================================================
