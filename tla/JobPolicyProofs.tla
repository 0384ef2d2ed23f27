-------------------------- MODULE JobPolicyProofs --------------------------
(***************************************************************************)
(* Theorems about the pure decisions of JobPolicy, for all numbers, and    *)
(* the invariants of MCJobPolicy for every value of its bounds.            *)
(***************************************************************************)
EXTENDS MCJobPolicy, FiniteSetTheorems, TLAPS

Keys == [priority : Nat, lifo : BOOLEAN, createdAt : Nat, place : Nat]

(* Some jobs of one queue: no two are at the same place.                   *)
Batch(ks) ==
  /\ IsFiniteSet(ks)
  /\ ks \subseteq Keys
  /\ \A a, b \in ks : a.place = b.place => a = b

(* The jobs a sorted batch has before a job of it.                         *)
Ahead(ks, k) == {j \in ks : VisitedBefore(j, k)}

-----------------------------------------------------------------------------
(* The order.                                                              *)

(* The comparator of sortJobsByPriority, made stable by the places in the  *)
(* queue, orders every set of jobs totally: the slice a poll takes is      *)
(* determined, and every loop has one next job.                            *)
THEOREM VisitOrderIsTotal ==
  ASSUME NEW ks, ks \subseteq Keys,
         \A a, b \in ks : a.place = b.place => a = b
  PROVE  StrictTotalOrderOn(ks)
<1>1. \A a, b \in Keys : ~(VisitedBefore(a, b) /\ VisitedBefore(b, a))
  BY DEF Keys, VisitedBefore, GoesFirst
<1>2. \A a, b \in Keys :
        a.place # b.place => VisitedBefore(a, b) \/ VisitedBefore(b, a)
  BY DEF Keys, VisitedBefore, GoesFirst
<1>3. \A a, b, c \in Keys :
        VisitedBefore(a, b) /\ VisitedBefore(b, c) => VisitedBefore(a, c)
  BY DEF Keys, VisitedBefore, GoesFirst
<1> QED
  BY <1>1, <1>2, <1>3 DEF StrictTotalOrderOn

(* The comparator is a consistent one: its "not before" is transitive, so  *)
(* Array.prototype.sort may be given it.                                   *)
THEOREM ComparatorIsConsistent ==
  ASSUME NEW ks, ks \subseteq Keys
  PROVE  ConsistentComparatorOn(ks)
<1>1. \A a, b, c \in Keys :
        ~GoesFirst(b, a) /\ ~GoesFirst(c, b) => ~GoesFirst(c, a)
  BY DEF Keys, GoesFirst
<1> QED
  BY <1>1 DEF ConsistentComparatorOn

-----------------------------------------------------------------------------
(* The slice.                                                              *)

(* A job's rank, the number of jobs ahead of it, is less than the size of  *)
(* its batch ...                                                           *)
LEMMA RankIsBounded ==
  ASSUME NEW ks, Batch(ks), NEW k \in ks
  PROVE  /\ IsFiniteSet(Ahead(ks, k))
         /\ Cardinality(Ahead(ks, k)) \in 0 .. Cardinality(ks) - 1
<1>1. k \notin Ahead(ks, k)
  BY VisitOrderIsTotal DEF Batch, Ahead, StrictTotalOrderOn
<1>2. /\ Ahead(ks, k) \in SUBSET ks
      /\ Ahead(ks, k) # ks
  BY <1>1 DEF Ahead
<1>3. IsFiniteSet(ks)
  BY DEF Batch
<1>4. /\ IsFiniteSet(Ahead(ks, k))
      /\ Cardinality(Ahead(ks, k)) <= Cardinality(ks)
      /\ Cardinality(Ahead(ks, k)) # Cardinality(ks)
  BY <1>2, <1>3, FS_Subset
<1>5. Cardinality(ks) \in Nat /\ Cardinality(Ahead(ks, k)) \in Nat
  BY <1>3, <1>4, FS_CardinalityType
<1> QED
  BY <1>4, <1>5

(* ... and grows along the order.                                          *)
LEMMA RankGrows ==
  ASSUME NEW ks, Batch(ks), NEW a \in ks, NEW b \in ks, VisitedBefore(a, b)
  PROVE  Cardinality(Ahead(ks, a)) < Cardinality(Ahead(ks, b))
<1>1. StrictTotalOrderOn(ks)
  BY VisitOrderIsTotal DEF Batch
<1>2. Ahead(ks, a) \in SUBSET Ahead(ks, b)
  BY <1>1 DEF Ahead, StrictTotalOrderOn
<1>3. a \in Ahead(ks, b) /\ a \notin Ahead(ks, a)
  BY <1>1 DEF Ahead, StrictTotalOrderOn
<1>4. IsFiniteSet(Ahead(ks, b))
  BY RankIsBounded
<1>5. /\ Cardinality(Ahead(ks, a)) <= Cardinality(Ahead(ks, b))
      /\ Cardinality(Ahead(ks, a)) # Cardinality(Ahead(ks, b))
  BY <1>2, <1>3, <1>4, FS_Subset
<1>6. Cardinality(Ahead(ks, a)) \in Nat /\ Cardinality(Ahead(ks, b)) \in Nat
  BY RankIsBounded
<1> QED
  BY <1>5, <1>6

(* The ranks of a batch are the numbers below its size, each taken once.   *)
LEMMA RanksNumberTheBatch ==
  ASSUME NEW ks, Batch(ks)
  PROVE  [k \in ks |-> Cardinality(Ahead(ks, k))]
           \in Bijection(ks, 0 .. Cardinality(ks) - 1)
<1> DEFINE n    == Cardinality(ks)
           rank == [k \in ks |-> Cardinality(Ahead(ks, k))]
<1>1. IsFiniteSet(ks) /\ n \in Nat
  BY FS_CardinalityType DEF Batch
<1>2. IsFiniteSet(0 .. n - 1) /\ Cardinality(0 .. n - 1) = n
  BY <1>1, FS_Interval
<1>3. rank \in [ks -> 0 .. n - 1]
  BY RankIsBounded
<1>4. ASSUME NEW a \in ks, NEW b \in ks, rank[a] = rank[b]
      PROVE  a = b
  <2>1. SUFFICES ASSUME a # b PROVE FALSE
    OBVIOUS
  <2>2. VisitedBefore(a, b) \/ VisitedBefore(b, a)
    BY <2>1, VisitOrderIsTotal DEF Batch, StrictTotalOrderOn
  <2>3. rank[a] < rank[b] \/ rank[b] < rank[a]
    BY <2>2, RankGrows
  <2> QED
    BY <1>1, <1>3, <1>4, <2>3
<1>5. rank \in Injection(ks, 0 .. n - 1)
  BY <1>3, <1>4 DEF Injection, IsInjective
<1>6. rank \in Surjection(ks, 0 .. n - 1)
  BY <1>1, <1>2, <1>5, FS_Injection
<1> QED
  BY <1>5, <1>6 DEF Bijection

(* slice(0, concurrency) of the sorted jobs: as many jobs as there are and *)
(* as may be, and each goes before every job it leaves.                    *)
THEOREM SliceTakesTheFirst ==
  ASSUME NEW ks, Batch(ks), NEW c \in Nat
  PROVE  /\ Cardinality(FirstKeys(ks, c)) =
              IF Cardinality(ks) < c THEN Cardinality(ks) ELSE c
         /\ \A k \in FirstKeys(ks, c), j \in ks \ FirstKeys(ks, c) :
              VisitedBefore(k, j)
<1> DEFINE n     == Cardinality(ks)
           size  == IF n < c THEN n ELSE c
           taken == FirstKeys(ks, c)
           rank  == [k \in ks |-> Cardinality(Ahead(ks, k))]
           place == [k \in taken |-> rank[k]]
<1>1. n \in Nat
  BY FS_CardinalityType DEF Batch
<1>2. rank \in Bijection(ks, 0 .. n - 1)
  BY RanksNumberTheBatch
<1>3. taken = {k \in ks : rank[k] < c}
  BY DEF FirstKeys, Ahead
<1>4. place \in Bijection(taken, 0 .. size - 1)
  <2>1. rank \in [ks -> 0 .. n - 1]
    BY <1>2 DEF Bijection, Injection
  <2>2. place \in [taken -> 0 .. size - 1]
    BY <1>1, <1>3, <2>1
  <2>3. \A a, b \in taken : place[a] = place[b] => a = b
    BY <1>2, <1>3 DEF Bijection, Injection, IsInjective
  <2>4. \A i \in 0 .. size - 1 : \E k \in taken : place[k] = i
    <3> SUFFICES ASSUME NEW i \in 0 .. size - 1
                 PROVE  \E k \in taken : place[k] = i
      OBVIOUS
    <3>1. i \in 0 .. n - 1 /\ i < c
      BY <1>1
    <3>2. PICK k \in ks : rank[k] = i
      BY <1>2, <3>1 DEF Bijection, Surjection
    <3> QED
      BY <1>3, <3>1, <3>2
  <2> QED
    BY <2>2, <2>3, <2>4 DEF Bijection, Injection, IsInjective, Surjection
<1>5. IsFiniteSet(taken)
  BY <1>3, FS_Subset DEF Batch
<1>6. Cardinality(taken) = size
  <2>1. IsFiniteSet(0 .. size - 1) /\ Cardinality(0 .. size - 1) = size
    <3>1. size \in Nat
      BY <1>1
    <3> HIDE DEF size
    <3>2. IsFiniteSet(0 .. size - 1)
          /\ Cardinality(0 .. size - 1) = IF 0 > size - 1 THEN 0 ELSE size - 1 - 0 + 1
      BY <3>1, FS_Interval
    <3> QED
      BY <3>1, <3>2
  <2>2. ExistsBijection(taken, 0 .. size - 1)
    BY <1>4 DEF ExistsBijection
  <2> QED
    BY <1>5, <2>1, <2>2, FS_Bijection
<1>7. ASSUME NEW k \in taken, NEW j \in ks \ taken
      PROVE  VisitedBefore(k, j)
  <2>1. k \in ks /\ j \in ks /\ k # j
    BY <1>3
  <2>2. VisitedBefore(k, j) \/ VisitedBefore(j, k)
    BY <2>1, VisitOrderIsTotal DEF Batch, StrictTotalOrderOn
  <2>3. VisitedBefore(j, k) => rank[j] < rank[k]
    BY <2>1, RankGrows
  <2>4. rank[k] \in Nat /\ rank[j] \in Nat
    BY <1>1, <1>2, <2>1 DEF Bijection, Injection
  <2>5. rank[k] < c /\ ~(rank[j] < c)
    BY <1>3, <2>1
  <2> QED
    BY <2>2, <2>3, <2>4, <2>5
<1> QED
  BY <1>6, <1>7

-----------------------------------------------------------------------------
(* The waits.                                                              *)

(* A set of n + 1 elements has the subsets of n of them twice: with and    *)
(* without the other one.  (The provers know powers of literals only.)     *)
LEMMA PowersDouble ==
  ASSUME NEW n \in Nat
  PROVE  2 ^ n \in Nat /\ 2 ^ (n + 1) = 2 * 2 ^ n
<1> DEFINE old  == SUBSET (1 .. n)
           more == {u \in SUBSET (1 .. n + 1) : n + 1 \in u}
           add  == [u \in old |-> u \union {n + 1}]
<1>1. IsFiniteSet(1 .. n) /\ Cardinality(1 .. n) = n
  BY FS_Interval
<1>2. IsFiniteSet(1 .. n + 1) /\ Cardinality(1 .. n + 1) = n + 1
  <2>1. IsFiniteSet(1 .. n + 1)
        /\ Cardinality(1 .. n + 1) = IF 1 > n + 1 THEN 0 ELSE n + 1 - 1 + 1
    BY FS_Interval
  <2> QED
    BY <2>1
<1>3. IsFiniteSet(old) /\ Cardinality(old) = 2 ^ n
  BY <1>1, FS_SUBSET
<1>4. /\ IsFiniteSet(SUBSET (1 .. n + 1))
      /\ Cardinality(SUBSET (1 .. n + 1)) = 2 ^ (n + 1)
  BY <1>2, FS_SUBSET
<1>5. 2 ^ n \in Nat
  BY <1>3, FS_CardinalityType
<1>6. add \in Bijection(old, more)
  <2>1. \A u \in old : n + 1 \notin u
    OBVIOUS
  <2>2. add \in [old -> more]
    <3>1. \A u \in old : u \union {n + 1} \in more
      OBVIOUS
    <3> QED
      BY <3>1
  <2>3. \A u, v \in old : add[u] = add[v] => u = v
    <3> SUFFICES ASSUME NEW u \in old, NEW v \in old, add[u] = add[v]
                 PROVE  u = v
      OBVIOUS
    <3>1. u \union {n + 1} = v \union {n + 1}
      OBVIOUS
    <3> QED
      BY <2>1, <3>1
  <2>4. \A w \in more : \E u \in old : add[u] = w
    <3> SUFFICES ASSUME NEW w \in more
                 PROVE  \E u \in old : add[u] = w
      OBVIOUS
    <3>1. w \ {n + 1} \in old
      <4> SUFFICES ASSUME NEW x \in w \ {n + 1}
                   PROVE  x \in 1 .. n
        OBVIOUS
      <4> QED
        OBVIOUS
    <3>2. (w \ {n + 1}) \union {n + 1} = w
      OBVIOUS
    <3> QED
      BY <3>1, <3>2
  <2> QED
    BY <2>2, <2>3, <2>4 DEF Bijection, Injection, IsInjective, Surjection
<1>7. IsFiniteSet(more) /\ Cardinality(more) = 2 ^ n
  <2> HIDE DEF add, more, old
  <2> QED
    BY <1>3, <1>6, FS_Bijection DEF ExistsBijection
<1>8. old \intersect more = {} /\ old \union more = SUBSET (1 .. n + 1)
  <2>1. old \intersect more = {}
    OBVIOUS
  <2>2. \A u \in SUBSET (1 .. n + 1) : n + 1 \notin u => u \in old
    <3> SUFFICES ASSUME NEW u \in SUBSET (1 .. n + 1), n + 1 \notin u, NEW x \in u
                 PROVE  x \in 1 .. n
      OBVIOUS
    <3> QED
      OBVIOUS
  <2>3. old \subseteq SUBSET (1 .. n + 1)
    OBVIOUS
  <2> QED
    BY <2>1, <2>2, <2>3
<1>9. Cardinality(old \union more) =
        Cardinality(old) + Cardinality(more) - Cardinality(old \intersect more)
  BY <1>3, <1>7, FS_Union
<1>10. Cardinality(old \intersect more) = 0
  BY <1>8, FS_EmptySet
<1>11. Cardinality(old \union more) = 2 ^ (n + 1)
  BY <1>4, <1>8
<1> HIDE DEF old, more
<1> QED
  BY <1>3, <1>5, <1>7, <1>9, <1>10, <1>11

(* calculateBackoffDelay, retry by retry: the first waits the option's     *)
(* delay, and the next as long again, or twice as long if exponential.     *)
THEOREM BackoffGrows ==
  ASSUME NEW option \in BackoffOption, NEW n \in Nat \ {0}
  PROVE  /\ BackoffDelay(option, 1) =
              IF option.type = "undefined" THEN 0 ELSE option.delay
         /\ BackoffDelay(option, n + 1) =
              IF option.type = "exponential" THEN 2 * BackoffDelay(option, n)
                                             ELSE BackoffDelay(option, n)
<1>1. /\ option.type \in BackoffTypes
      /\ option.delay \in Nat
  BY DEF BackoffOption
<1>2. BackoffDelay(option, 1) =
        IF option.type = "undefined" THEN 0 ELSE option.delay
  <2>1. 2 ^ (1 - 1) = 1
    OBVIOUS
  <2>2. option.delay * 1 = option.delay
    BY <1>1
  <2> QED
    BY <2>1, <2>2 DEF BackoffDelay
<1>3. CASE option.type = "exponential"
  <2> DEFINE p == 2 ^ (n - 1)
  <2>1. n - 1 \in Nat /\ n - 1 + 1 = n /\ n + 1 - 1 = n
    OBVIOUS
  <2>2. p \in Nat /\ 2 ^ n = 2 * p
    BY <2>1, PowersDouble
  <2>3. BackoffDelay(option, n) = option.delay * p
    BY <1>3 DEF BackoffDelay
  <2>4. BackoffDelay(option, n + 1) = option.delay * 2 ^ n
    BY <1>3, <2>1 DEF BackoffDelay
  <2>5. option.delay * (2 * p) = 2 * (option.delay * p)
    <3> HIDE DEF p
    <3> QED
      BY <1>1, <2>2
  <2> QED
    BY <1>2, <1>3, <2>2, <2>3, <2>4, <2>5
<1>4. CASE option.type # "exponential"
  BY <1>2, <1>4 DEF BackoffDelay
<1> QED
  BY <1>3, <1>4

-----------------------------------------------------------------------------
(* The state machine of the bounded check.                                 *)

(* What Next keeps: the places of a batch are numbered as they are filled. *)
BatchInv ==
  /\ Batch(keys)
  /\ \A k \in keys : k.place <= Cardinality(keys)
  /\ concurrency \in Nat
  /\ backoff \in BackoffOption

LEMMA BatchInvHolds == Spec => []BatchInv
<1>1. Init => BatchInv
  <2> SUFFICES ASSUME Init PROVE BatchInv
    OBVIOUS
  <2>1. IsFiniteSet({})
    BY FS_EmptySet
  <2>2. keys = {} /\ concurrency \in Nat
    BY BoundsAssumption DEF Init
  <2>3. backoff \in BackoffOption
    BY BoundsAssumption DEF Init, BackoffOption
  <2> QED
    BY <2>1, <2>2, <2>3 DEF BatchInv, Batch
<1>2. BatchInv /\ [Next]_vars => BatchInv'
  <2> SUFFICES ASSUME BatchInv, [Next]_vars PROVE BatchInv'
    OBVIOUS
  <2>1. CASE Next
    <3> DEFINE n == Cardinality(keys)
    <3>1. PICK k \in KeysAt(n + 1) : keys' = keys \union {k}
      BY <2>1 DEF Next
    <3>2. IsFiniteSet(keys) /\ n \in Nat
      BY FS_CardinalityType DEF BatchInv, Batch
    <3>3. k \in Keys /\ k.place = n + 1
      BY <3>2, BoundsAssumption DEF KeysAt, Keys
    <3>4. \A a \in keys : a.place \in Nat /\ a.place <= n
      BY DEF BatchInv, Batch, Keys
    <3>5. k \notin keys
      BY <3>2, <3>3, <3>4
    <3>6. IsFiniteSet(keys') /\ Cardinality(keys') = n + 1
      BY <3>1, <3>2, <3>5, FS_AddElement
    <3>7. keys' \subseteq Keys
      BY <3>1, <3>3 DEF BatchInv, Batch
    <3>8. \A a, b \in keys' : a.place = b.place => a = b
      BY <3>1, <3>2, <3>3, <3>4 DEF BatchInv, Batch
    <3>9. \A a \in keys' : a.place <= n + 1
      BY <3>1, <3>2, <3>3, <3>4
    <3> QED
      BY <2>1, <3>6, <3>7, <3>8, <3>9 DEF BatchInv, Batch, Next
  <2>2. CASE UNCHANGED vars
    BY <2>2 DEF vars, BatchInv, Batch
  <2> QED
    BY <2>1, <2>2
<1> QED
  BY <1>1, <1>2, PTL DEF Spec

(* No batch of any size makes the comparator of sortJobsByPriority         *)
(* contradict itself or leaves two jobs unordered.                         *)
THEOREM OrderStaysTotal == Spec => []OrderIsTotal
<1>1. BatchInv => OrderIsTotal
  BY VisitOrderIsTotal, ComparatorIsConsistent DEF BatchInv, Batch, OrderIsTotal
<1> QED
  BY <1>1, BatchInvHolds, PTL

(* What a poll takes of any batch is as much as it may take, and the best  *)
(* of it.                                                                  *)
THEOREM SliceStaysBest == Spec => []SliceIsBest
<1>1. BatchInv => SliceIsBest
  <2> SUFFICES ASSUME BatchInv PROVE SliceIsBest
    OBVIOUS
  <2> DEFINE taken == FirstKeys(keys, concurrency)
  <2>1. Batch(keys) /\ concurrency \in Nat
    BY DEF BatchInv
  <2>2. /\ Cardinality(taken) =
             IF Cardinality(keys) < concurrency THEN Cardinality(keys)
                                                ELSE concurrency
        /\ \A k \in taken, j \in keys \ taken : VisitedBefore(k, j)
    BY <2>1, SliceTakesTheFirst
  <2>3. ASSUME NEW k \in taken, NEW j \in keys \ taken
        PROVE  /\ k.priority <= j.priority
               /\ k.priority = j.priority /\ j.lifo =>
                    k.lifo /\ k.createdAt >= j.createdAt
    <3>1. VisitedBefore(k, j)
      BY <2>2, <2>3
    <3>2. k \in Keys /\ j \in Keys
      BY <2>1 DEF Batch, FirstKeys
    <3> HIDE DEF taken
    <3> QED
      BY <3>1, <3>2 DEF VisitedBefore, GoesFirst, Keys
  <2> QED
    BY <2>2, <2>3 DEF SliceIsBest
<1> QED
  BY <1>1, BatchInvHolds, PTL

(* The waits of a job's retries, however many it has.                      *)
THEOREM BackoffStaysASeries == Spec => []BackoffSeries
<1>1. BatchInv => BackoffSeries
  <2> SUFFICES ASSUME BatchInv PROVE BackoffSeries
    OBVIOUS
  <2>1. backoff \in BackoffOption
    BY DEF BatchInv
  <2>2. \A n \in 1 .. MaxRetries : n \in Nat \ {0}
    BY BoundsAssumption
  <2> QED
    BY <2>1, <2>2, BackoffGrows DEF BackoffSeries
<1> QED
  BY <1>1, BatchInvHolds, PTL
=============================================================================
