--------------------------- MODULE MCQueueEvents ---------------------------
(***************************************************************************)
(* A class with and without a handler of 'waiting' and of 'error',         *)
(* registered twice, under configurations that give its queue and its      *)
(* events every pair of drivers.                                           *)
(***************************************************************************)
EXTENDS QueueEvents

CONSTANTS qA, i1, l1

QueueA ==
  [name |-> qA, given |-> qA, async |-> FALSE, configKey |-> "other",
   queueId |-> i1, endpoint |-> TRUE, compartment |-> FALSE, processors |-> {}]

Config(driver, local) ==
  [driver |-> driver, localMode |-> local, connection |-> "withCompartment"]

(* Queue and events: both OCI; an OCI queue with silent events; a local    *)
(* queue polled by an OCI object; both local.                              *)
Both(default, other) ==
  [k \in {Default, "other"} |-> IF k = Default THEN default ELSE other]

FourConfigurations ==
  { Both(Config("oci-queue", FALSE), Config(Undefined, FALSE)),
    Both(Config("local", FALSE), Config("oci-queue", FALSE)),
    Both(Config(Undefined, TRUE), Config(Undefined, TRUE)),
    Both(Config("local", TRUE), Config("local", FALSE)) }

SomeHandlers == {Events, {"active", "error"}, {"waiting", "active"}}
=============================================================================
