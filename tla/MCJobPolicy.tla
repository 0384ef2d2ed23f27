---------------------------- MODULE MCJobPolicy ----------------------------
(***************************************************************************)
(* The pure decisions of JobPolicy over bounded inputs: a batch of keys is *)
(* built up one place at a time, with the option values varied alongside.  *)
(***************************************************************************)
EXTENDS JobPolicy

CONSTANTS
  MaxKeys, MaxPriority, MaxTime,  \* bounds on a batch and on its keys
  MaxConcurrency,                 \* bound on the worker option
  MaxDelay, MaxRetries            \* bounds on the waits of one job's retries

ASSUME BoundsAssumption ==
  {MaxKeys, MaxPriority, MaxTime, MaxConcurrency, MaxDelay, MaxRetries} \subseteq Nat

VARIABLES keys, concurrency, backoff

vars == <<keys, concurrency, backoff>>

KeysAt(place) ==
  [priority : 1 .. MaxPriority, lifo : BOOLEAN, createdAt : 0 .. MaxTime,
   place : {place}]

Init ==
  /\ keys = {}
  /\ concurrency \in 1 .. MaxConcurrency
  /\ backoff \in [type : BackoffTypes, delay : 0 .. MaxDelay]

Next ==
  /\ Cardinality(keys) < MaxKeys
  /\ \E k \in KeysAt(Cardinality(keys) + 1) : keys' = keys \union {k}
  /\ UNCHANGED <<concurrency, backoff>>

Spec == Init /\ [][Next]_vars

(* No batch makes the comparator of sortJobsByPriority contradict itself,  *)
(* lifo and other jobs mixed or not.                                       *)
OrderIsTotal == StrictTotalOrderOn(keys) /\ ConsistentComparatorOn(keys)

(* What a poll takes is as many jobs as it may, and none of those it       *)
(* leaves has a better priority than one it takes.                         *)
SliceIsBest ==
  LET taken == FirstKeys(keys, concurrency) IN
  /\ Cardinality(taken) =
       IF Cardinality(keys) < concurrency THEN Cardinality(keys) ELSE concurrency
  /\ \A k \in taken, j \in keys \ taken :
       /\ k.priority <= j.priority
       /\ k.priority = j.priority /\ j.lifo => k.lifo /\ k.createdAt >= j.createdAt

(* The first retry waits the option's delay; an exponential backoff then   *)
(* doubles, and every other kind stays.                                    *)
BackoffSeries ==
  LET wait(n) == BackoffDelay(backoff, n) IN
  /\ wait(1) = IF backoff.type = "undefined" THEN 0 ELSE backoff.delay
  /\ \A n \in 1 .. MaxRetries :
       wait(n + 1) = IF backoff.type = "exponential" THEN 2 * wait(n) ELSE wait(n)
=============================================================================
