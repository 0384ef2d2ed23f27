----------------------------- MODULE JobPolicy -----------------------------
(***************************************************************************)
(* The decisions the base classes of every driver take from a job's        *)
(* options, without state of their own: when a job has used its attempts,  *)
(* how long a retry waits, whether a finished job leaves the queue, and in *)
(* which order a poll visits the jobs it fetched.                          *)
(*                                                                         *)
(* Source: drivers/base/base-job.adapter.ts, base-worker.adapter.ts.       *)
(***************************************************************************)
EXTENDS Naturals, FiniteSets

-----------------------------------------------------------------------------
(* Option values.  A TypeScript union is a record tagged with its kind, so *)
(* that the model can tell `true` from 1 and an absent option from 0.      *)

RemovalKinds == {"undefined", "boolean", "number"}

RemovalOption == [kind : RemovalKinds, value : Nat]

BackoffTypes == {"undefined", "number", "fixed", "exponential", "other"}

BackoffOption == [type : BackoffTypes, delay : Nat]

-----------------------------------------------------------------------------
(* shouldRemoveOnComplete and shouldRemoveOnFail: `true`, or any positive  *)
(* number.                                                                 *)
ShouldRemove(option) ==
  \/ option.kind = "boolean" /\ option.value = 1
  \/ option.kind = "number" /\ option.value > 0

(* hasExceededMaxAttempts: an absent (0) maximum is never exceeded.        *)
HasExceeded(maxAttempts, currentAttempt) ==
  maxAttempts > 0 /\ currentAttempt > maxAttempts

(* Mutants: the attempt that failed is compared, not the next one; < for   *)
(* <= in the comparison.                                                   *)
MayRetryOnceMore(maxAttempts, currentAttempt) ==
  maxAttempts > 0 /\ currentAttempt <= maxAttempts

MayRetryOnceLess(maxAttempts, currentAttempt) ==
  maxAttempts > 0 /\ currentAttempt + 1 < maxAttempts

(* The test of the worker's catch block: another attempt is still allowed. *)
MayRetry(maxAttempts, currentAttempt) ==
  maxAttempts > 0 /\ currentAttempt + 1 <= maxAttempts

(* Mutant: the exponent starts at 1.                                       *)
BackoffDelayDoubledAtOnce(backoff, attempt) ==
  CASE backoff.type = "undefined"   -> 0
    [] backoff.type = "exponential" -> backoff.delay * 2 ^ attempt
    [] OTHER                        -> backoff.delay

(* calculateBackoffDelay, in the units of the option's delay.              *)
BackoffDelay(backoff, attempt) ==
  CASE backoff.type = "undefined"   -> 0
    [] backoff.type = "exponential" -> backoff.delay * 2 ^ (attempt - 1)
    [] OTHER                        -> backoff.delay

-----------------------------------------------------------------------------
(* Mutants: lifo asked of the first job only; the larger priority first.   *)
GoesFirstByOwnLifo(a, b) ==
  \/ a.priority < b.priority
  \/ a.priority = b.priority /\ (a.lifo \/ a.createdAt < b.createdAt)

GoesFirstIfLarger(a, b) ==
  \/ a.priority > b.priority
  \/ /\ a.priority = b.priority
     /\ (a.lifo /\ ~b.lifo) \/ a.createdAt < b.createdAt

(* The comparator of sortJobsByPriority on two keys, records with fields   *)
(* priority, lifo and createdAt: TRUE when it returns a negative number,   *)
(* so that the first job goes first whatever their places were.            *)
GoesFirst(a, b) ==
  \/ a.priority < b.priority
  \/ /\ a.priority = b.priority
     /\ \/ a.lifo /\ b.lifo /\ a.createdAt > b.createdAt
        \/ a.lifo /\ ~b.lifo
        \/ ~a.lifo /\ ~b.lifo /\ a.createdAt < b.createdAt

(* Array.prototype.sort is stable: jobs the comparator calls equal keep    *)
(* the order of their places in the queue.                                 *)
VisitedBefore(a, b) ==
  \/ GoesFirst(a, b)
  \/ ~GoesFirst(b, a) /\ a.place < b.place

(* sortJobsByPriority(...).slice(0, concurrency): the first `concurrency`  *)
(* of the keys of some jobs.                                               *)
FirstKeys(keys, concurrency) ==
  {k \in keys : Cardinality({j \in keys : VisitedBefore(j, k)}) < concurrency}

-----------------------------------------------------------------------------
(* The order is one: on keys of distinct places it is total, irreflexive   *)
(* and transitive, so that what Array.prototype.sort returns is determined *)
(* by the jobs and not by the algorithm the engine uses.                   *)
StrictTotalOrderOn(keys) ==
  /\ \A a, b \in keys :
       /\ ~(VisitedBefore(a, b) /\ VisitedBefore(b, a))
       /\ a # b => VisitedBefore(a, b) \/ VisitedBefore(b, a)
  /\ \A a, b, c \in keys :
       VisitedBefore(a, b) /\ VisitedBefore(b, c) => VisitedBefore(a, c)

(* The comparator alone never contradicts itself either: "not before" is   *)
(* transitive, as Array.prototype.sort demands of it.                      *)
ConsistentComparatorOn(keys) ==
  \A a, b, c \in keys :
    ~GoesFirst(b, a) /\ ~GoesFirst(c, b) => ~GoesFirst(c, a)
=============================================================================
