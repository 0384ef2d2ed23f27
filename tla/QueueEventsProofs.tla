------------------------- MODULE QueueEventsProofs -------------------------
(***************************************************************************)
(* Theorems about QueueEvents, for any classes, configurations and number  *)
(* of overlapping polls.                                                   *)
(***************************************************************************)
EXTENDS QueueEvents, TLAPS

(* The object of a host is one of the last registration.                   *)
HostInv == \A l \in Listeners : queueEvents[l] = registered

(* Nothing happens to the objects of a registration before it.             *)
FutureInv ==
  \A o \in Objects : o[2] > registered =>
    /\ o \notin polling \union closed
    /\ \A s \in Slots : pc[o][s] = "idle"

(* What was closed has no listeners and no interval; what is open has the  *)
(* listeners of its class.                                                 *)
ClosedInv ==
  \A o \in Objects : o[2] <= registered =>
    handlers[o] = IF o \in closed THEN {} ELSE handles[o[1]]

IntervalInv == polling \intersect closed = {}

(* A hook that has run has closed the object of its class.                 *)
HookInv ==
  phase = "stopping" =>
    \A l \in Listeners \ hooks : Held(l) \intersect polling = {}

EInv == TypeOK /\ HostInv /\ FutureInv /\ ClosedInv /\ IntervalInv /\ HookInv

LEMMA HeldAreObjects ==
  ASSUME TypeOK, NEW l \in Listeners
  PROVE  Held(l) \subseteq Objects
  BY ConstantsAssumption DEF TypeOK, Held, Objects, ConstantsAssumption

LEMMA HeldIsRegistered ==
  ASSUME EInv, NEW l \in Listeners
  PROVE  \A o \in Held(l) : o[2] <= registered
  BY ConstantsAssumption DEF EInv, TypeOK, HostInv, Held, ConstantsAssumption

LEMMA CloseKeeps ==
  ASSUME EInv, NEW l \in Listeners, Close(Held(l)),
         UNCHANGED <<application, registered, queueEvents>>
  PROVE  /\ polling' \subseteq polling
         /\ closed' = closed \union Held(l)
         /\ closed' \subseteq Objects
         /\ handlers' \in [Objects -> SUBSET Events]
         /\ HostInv'
         /\ ClosedInv'
         /\ IntervalInv'
         /\ Held(l)' \intersect polling' = {}
         /\ \A o \in Objects : o[2] > registered => o \notin polling' \union closed'
<1>1. Held(l) \subseteq Objects /\ \A o \in Held(l) : o[2] <= registered
  BY HeldAreObjects, HeldIsRegistered DEF EInv
<1>2. registered \in Nat /\ \A o \in Objects : o[2] \in Nat
  BY ConstantsAssumption DEF EInv, TypeOK, Objects, ConstantsAssumption
<1>3. handlers' \in [Objects -> SUBSET Events]
  BY DEF EInv, TypeOK, Close
<1>4. ClosedInv'
  BY <1>1 DEF EInv, TypeOK, ClosedInv, Close, application
<1>5. polling' \subseteq polling /\ closed' = closed \union Held(l) /\ closed' \subseteq Objects
  BY <1>1 DEF EInv, TypeOK, Close
<1>6. HostInv' /\ IntervalInv' /\ Held(l)' \intersect polling' = {}
  BY DEF EInv, HostInv, IntervalInv, Close, Held
<1>7. \A o \in Objects : o[2] > registered => o \notin polling' \union closed'
  BY <1>1, <1>2, <1>5 DEF EInv, FutureInv
<1> QED
  BY <1>3, <1>4, <1>5, <1>6, <1>7

(* A poll that ends leaves the others alone.                               *)
LEMMA PollEndsTypes ==
  ASSUME TypeOK, NEW o \in Objects, NEW s \in Slots, PollEnds(o, s)
  PROVE  /\ pc' \in [Objects -> [Slots -> {"idle", "waiting", "active"}]]
         /\ waiting' \in [Objects -> [Slots -> BOOLEAN]]
         /\ \A u \in Objects, t \in Slots : pc[u][t] = "idle" => pc'[u][t] = "idle"
<1>1. /\ pc' = [pc EXCEPT ![o] = [pc[o] EXCEPT ![s] = "idle"]]
      /\ waiting' = [waiting EXCEPT ![o] = [waiting[o] EXCEPT ![s] = FALSE]]
  BY DEF PollEnds
<1>2. /\ [pc[o] EXCEPT ![s] = "idle"] \in [Slots -> {"idle", "waiting", "active"}]
      /\ [waiting[o] EXCEPT ![s] = FALSE] \in [Slots -> BOOLEAN]
  BY DEF TypeOK
<1>3. /\ pc' \in [Objects -> [Slots -> {"idle", "waiting", "active"}]]
      /\ waiting' \in [Objects -> [Slots -> BOOLEAN]]
  BY <1>1, <1>2 DEF TypeOK
<1>4. \A u \in Objects, t \in Slots : pc[u][t] = "idle" => pc'[u][t] = "idle"
  BY <1>1 DEF TypeOK
<1> QED
  BY <1>3, <1>4

LEMMA EventsInductive == Spec => []EInv
<1>1. Init => EInv
  BY ConstantsAssumption
  DEF Init, EInv, TypeOK, HostInv, FutureInv, ClosedInv, IntervalInv, HookInv, Objects,
      ConstantsAssumption
<1>2. ASSUME EInv, [Next]_vars PROVE EInv'
  <2> USE <1>2
  <2> USE DEF application, pollVars
  <2>0. /\ registered \in Nat /\ RegisterCap \in Nat /\ FailureCap \in Nat
        /\ \A o \in Objects : o = <<o[1], o[2]>> /\ o[1] \in Listeners /\ o[2] \in Nat
    BY ConstantsAssumption DEF EInv, TypeOK, Objects, ConstantsAssumption
  <2>h. \A l \in Listeners : handles[l] \subseteq Events
    BY ConstantsAssumption DEF EInv, TypeOK, ConstantsAssumption
  <2>1. CASE RegisterQueueEventListeners
    <3> DEFINE made == {<<l, registered + 1>> : l \in Listeners}
    <3>1. made \subseteq Objects /\ registered' = registered + 1
          /\ registered' \in 0 .. RegisterCap
      BY <2>0, <2>1 DEF RegisterQueueEventListeners, Objects, EInv, TypeOK
    <3>2. \A o \in Objects : o \in made <=> o[2] = registered + 1
      BY <2>0
    <3>3. handlers' = [o \in Objects |-> IF o \in made THEN handles[o[1]] ELSE handlers[o]]
      BY <2>1 DEF RegisterQueueEventListeners
    <3>4. TypeOK'
      <4>1. handlers' \in [Objects -> SUBSET Events]
        BY <2>0, <2>h, <3>3 DEF EInv, TypeOK
      <4> QED
        BY <2>0, <2>1, <3>1, <4>1 DEF RegisterQueueEventListeners, EInv, TypeOK
    <3>5. FutureInv'
      BY <2>0, <2>1, <3>1, <3>2 DEF RegisterQueueEventListeners, EInv, FutureInv
    <3>6. ClosedInv'
      <4> SUFFICES ASSUME NEW o \in Objects, o[2] <= registered + 1
                   PROVE  handlers'[o] = IF o \in closed THEN {} ELSE handles[o[1]]
        BY <2>1, <3>1 DEF RegisterQueueEventListeners, ClosedInv
      <4>1. CASE o \in made
        BY <2>0, <3>2, <3>3, <4>1 DEF EInv, FutureInv
      <4>2. CASE o \notin made
        BY <2>0, <3>2, <3>3, <4>2 DEF EInv, ClosedInv
      <4> QED
        BY <4>1, <4>2
    <3>7. IntervalInv'
      BY <2>0, <2>1, <3>1, <3>2
      DEF RegisterQueueEventListeners, EInv, IntervalInv, FutureInv
    <3>8. HostInv' /\ HookInv'
      BY <2>1 DEF RegisterQueueEventListeners, EInv, HostInv, HookInv
    <3> QED
      BY <3>4, <3>5, <3>6, <3>7, <3>8 DEF EInv
  <2>2. ASSUME NEW l \in Listeners, CloseEvents(l) PROVE EInv'
    <3>1. HookInv'
      BY <2>2, CloseKeeps DEF CloseEvents, EInv, HookInv, Held
    <3> QED
      BY <2>2, <3>1, CloseKeeps DEF CloseEvents, EInv, TypeOK, FutureInv
  <2>3. ASSUME NEW l \in Listeners, HostShutdown(l) PROVE EInv'
    <3>1. HookInv'
      BY <2>3, CloseKeeps DEF HostShutdown, EInv, HookInv, Held
    <3> QED
      BY <2>3, <3>1, CloseKeeps DEF HostShutdown, EInv, TypeOK, FutureInv
  <2>4. CASE BeginShutdown
    BY <2>4
    DEF BeginShutdown, EInv, TypeOK, HostInv, FutureInv, ClosedInv, IntervalInv, HookInv
  <2>5. CASE QueueChanges
    BY <2>5
    DEF QueueChanges, EInv, TypeOK, HostInv, FutureInv, ClosedInv, IntervalInv, HookInv,
        Held
  <2>6. ASSUME NEW o \in Objects, NEW s \in Slots, Tick(o, s) PROVE EInv'
    <3>1. o[2] <= registered
      BY <2>0, <2>6 DEF Tick, EInv, FutureInv
    <3> QED
      BY <2>0, <2>6, <3>1
      DEF Tick, EInv, TypeOK, HostInv, FutureInv, ClosedInv, IntervalInv, HookInv, Held
  <2>7. ASSUME NEW o \in Objects, NEW s \in Slots, WaitingCounted(o, s) PROVE EInv'
    <3>1. o[2] <= registered
      BY <2>0, <2>7 DEF WaitingCounted, EInv, FutureInv
    <3>2. TypeOK'
      BY <2>7 DEF WaitingCounted, EInv, TypeOK
    <3> QED
      BY <2>0, <2>7, <3>1, <3>2
      DEF WaitingCounted, EInv, TypeOK, HostInv, FutureInv, ClosedInv, IntervalInv, HookInv,
          Held
  <2>8. ASSUME NEW o \in Objects, NEW s \in Slots, ActiveCounted(o, s) PROVE EInv'
    <3>1. CallsOf(o, Counted(o, s) \intersect handlers[o]) \subseteq Objects \X Events
      BY DEF CallsOf, EInv, TypeOK
    <3> QED
      BY <2>8, <3>1, PollEndsTypes
      DEF ActiveCounted, EInv, TypeOK, HostInv, FutureInv, ClosedInv, IntervalInv,
          HookInv, Held
  <2>9. ASSUME NEW o \in Objects, NEW s \in Slots, NEW e \in Events, HandlerCloses(o, s, e)
        PROVE  EInv'
    <3>1. /\ o[1] \in Listeners /\ Close(Held(o[1]))
          /\ UNCHANGED <<application, registered, queueEvents>>
      BY <2>0, <2>9 DEF HandlerCloses
    <3>2. HookInv'
      BY <2>9, <3>1, CloseKeeps DEF HandlerCloses, EInv, HookInv, Held
    <3>3. delivered' \subseteq Objects \X Events
      BY <2>9 DEF HandlerCloses, CallsOf, EInv, TypeOK
    <3>4. PollEnds(o, s) /\ UNCHANGED <<application, registered, queueEvents, counts,
                                       failures, hooks, phase>>
      BY <2>9 DEF HandlerCloses
    <3>5. TypeOK'
      BY <3>1, <3>3, <3>4, CloseKeeps, PollEndsTypes DEF EInv, TypeOK
    <3>6. FutureInv'
      BY <3>1, <3>4, CloseKeeps, PollEndsTypes DEF EInv, FutureInv
    <3> QED
      BY <3>1, <3>2, <3>5, <3>6, CloseKeeps DEF EInv
  <2>10. ASSUME NEW o \in Objects, NEW s \in Slots, NEW es \in SUBSET Events,
                PollEnds(o, s), EmitError(o, es), pc[o][s] # "idle",
                UNCHANGED <<polling, handlers, closed>>,
                failures' \in 0 .. FailureCap
         PROVE  EInv'
    <3>1. delivered' \subseteq Objects \X Events
      BY <2>10 DEF EmitError, CallsOf, EInv, TypeOK
    <3> QED
      BY <2>10, <3>1, PollEndsTypes
      DEF EmitError, EInv, TypeOK, HostInv, FutureInv, ClosedInv, IntervalInv,
          HookInv, Held
  <2>11. ASSUME NEW o \in Objects, NEW s \in Slots, NEW e \in Events,
                NEW os \in {{}, Held(o[1])}, HandlerThrows(o, s, e, os)
         PROVE  EInv'
    <3> DEFINE es == IF e = "waiting" THEN {e} ELSE Counted(o, s) \intersect handlers[o]
    <3>1. /\ es \in SUBSET Events /\ failures' \in 0 .. FailureCap
          /\ PollEnds(o, s) /\ EmitError(o, es) /\ pc[o][s] # "idle" /\ Close(os)
      BY <2>11 DEF HandlerThrows, EInv, TypeOK
    <3> HIDE DEF es
    <3>2. CASE os = {}
      <4>1. UNCHANGED <<polling, handlers, closed>>
        BY <3>1, <3>2 DEF Close, EInv, TypeOK
      <4> QED
        BY <2>10, <3>1, <4>1
    <3>3. CASE os = Held(o[1])
      <4>1. /\ o[1] \in Listeners /\ Close(Held(o[1]))
            /\ UNCHANGED <<application, registered, queueEvents, counts, hooks>>
            /\ phase' \in {phase, "crashed"}
        BY <2>0, <3>1, <3>3 DEF EmitError
      <4>2. HookInv'
        BY <2>11, <4>1, CloseKeeps DEF HandlerThrows, Alive, EInv, HookInv, Held
      <4>3. handlers' \in [Objects -> SUBSET Events]
        BY <4>1, CloseKeeps
      <4>4. delivered' \subseteq Objects \X Events
        BY <3>1, <4>3 DEF EmitError, CallsOf
      <4>5. TypeOK'
        BY <3>1, <4>1, <4>4, CloseKeeps, PollEndsTypes DEF EInv, TypeOK
      <4>6. FutureInv'
        BY <3>1, <4>1, CloseKeeps, PollEndsTypes DEF EInv, FutureInv
      <4> QED
        BY <4>1, <4>2, <4>5, <4>6, CloseKeeps DEF EInv
    <3> QED
      BY <3>2, <3>3
  <2>12. ASSUME NEW o \in Objects, NEW s \in Slots, StatsFails(o, s) PROVE EInv'
    BY <2>0, <2>10, <2>12 DEF StatsFails, EInv, TypeOK
  <2>14. ASSUME NEW o \in Objects, NEW s \in Slots, NEW e \in Events,
                HandlerRejects(o, s, e)
         PROVE  EInv'
    <3>1. CallsOf(o, Counted(o, s) \intersect handlers[o]) \subseteq Objects \X Events
      BY DEF CallsOf, EInv, TypeOK
    <3> QED
      BY <2>14, <3>1, PollEndsTypes
      DEF HandlerRejects, EInv, TypeOK, HostInv, FutureInv, ClosedInv, IntervalInv,
          HookInv, Held
  <2>13. CASE UNCHANGED vars
    BY <2>13
    DEF vars, EInv, TypeOK, HostInv, FutureInv, ClosedInv, IntervalInv, HookInv, Held
  <2> QED
    BY <2>1, <2>2, <2>3, <2>4, <2>5, <2>6, <2>7, <2>8, <2>9, <2>11, <2>12, <2>13,
       <2>14 DEF Next
<1> QED
  BY <1>1, <1>2, PTL DEF Spec

(* The events of a queue are type correct.                                 *)
THEOREM EventsTypeCorrect == Spec => []TypeOK
<1>1. EInv => TypeOK
  BY DEF EInv
<1> QED
  BY <1>1, EventsInductive, PTL

(* An object that was closed calls no handler, whatever polls of it were   *)
(* under way.                                                              *)
THEOREM ClosedStaysSilent == Spec => ClosedIsSilent
<1>1. ASSUME EInv, Next
      PROVE  \A o \in closed, e \in Events : <<o, e>> \notin delivered'
  <2> SUFFICES ASSUME NEW o \in closed, NEW e \in Events, <<o, e>> \in delivered'
               PROVE  FALSE
    OBVIOUS
  <2>1. o \in Objects /\ handlers[o] = {}
    BY <1>1, ConstantsAssumption
    DEF EInv, TypeOK, ClosedInv, FutureInv, Objects, ConstantsAssumption
  <2>2. PICK u \in Objects, s \in Slots :
          \/ ActiveCounted(u, s)
          \/ StatsFails(u, s)
          \/ \E d \in Events :
               \/ HandlerCloses(u, s, d)
               \/ HandlerRejects(u, s, d)
               \/ \E os \in {{}, Held(u[1])} : HandlerThrows(u, s, d, os)
    BY <1>1
    DEF Next, RegisterQueueEventListeners, BeginShutdown, QueueChanges, CloseEvents,
        HostShutdown, Tick, WaitingCounted
  <2>3. u = o
    BY <2>2
    DEF ActiveCounted, StatsFails, HandlerCloses, HandlerRejects, HandlerThrows, EmitError,
        CallsOf
  <2>4. StatsFails(o, s)
    BY <2>1, <2>2, <2>3
    DEF ActiveCounted, HandlerCloses, HandlerRejects, HandlerThrows, CallsOf
  <2> QED
    BY <2>1, <2>4 DEF StatsFails, EmitError, CallsOf
<1> QED
  BY <1>1, EventsInductive, PTL DEF Spec, ClosedIsSilent

(* Why nobody survives what an object reports.                             *)
Unheard(o) ==
  \/ "error" \notin handlers'[o]
  \/ "error" \in Throwing
  \/ \E e \in Rejecting : <<o, e>> \in delivered'

(* The poll of o ends, and the process with it.                            *)
Ends(o, s) ==
  /\ PollEnds(o, s) /\ pc[o][s] # "idle"
  /\ UNCHANGED <<config, handles, registered>>
  /\ Unheard(o)

LEMMA EmitErrorEnds ==
  ASSUME NEW o \in Objects, NEW es, EmitError(o, es), phase' = "crashed", Alive
  PROVE  Unheard(o) /\ UNCHANGED <<config, handles, registered>>
  BY DEF EmitError, CallsOf, Unheard, Alive, application

LEMMA FailuresEnd ==
  ASSUME NEW o \in Objects, NEW s \in Slots, phase' = "crashed", Alive
  PROVE  /\ StatsFails(o, s) => Ends(o, s)
         /\ \A e \in Events : HandlerRejects(o, s, e) => Ends(o, s)
         /\ \A e \in Events : \A os : HandlerThrows(o, s, e, os) => Ends(o, s)
<1>1. ASSUME StatsFails(o, s) PROVE Ends(o, s)
  <2>1. EmitError(o, {}) /\ PollEnds(o, s) /\ pc[o][s] # "idle"
    BY <1>1 DEF StatsFails
  <2> QED
    BY <2>1, EmitErrorEnds DEF Ends
<1>2. ASSUME NEW e \in Events, HandlerRejects(o, s, e) PROVE Ends(o, s)
  BY <1>2 DEF HandlerRejects, CallsOf, Ends, Unheard, application
<1>3. ASSUME NEW e \in Events, NEW os, HandlerThrows(o, s, e, os) PROVE Ends(o, s)
  <2> DEFINE es == IF e = "waiting" THEN {e} ELSE Counted(o, s) \intersect handlers[o]
  <2>1. EmitError(o, es) /\ PollEnds(o, s) /\ pc[o][s] # "idle"
    BY <1>3 DEF HandlerThrows
  <2> HIDE DEF es
  <2> QED
    BY <2>1, EmitErrorEnds DEF Ends
<1> QED
  BY <1>1, <1>2, <1>3

(* The process survives every error somebody handles, unless the handler   *)
(* of it, or an async handler of a count, fails too.                       *)
THEOREM ErrorsHeardAreSurvived == Spec => HeardErrorsAreSurvived
<1>1. ASSUME EInv, EInv', Next, phase' = "crashed", Alive
      PROVE  \E o \in Objects :
               /\ pc'[o] # pc[o]
               /\ \/ "error" \notin handles[o[1]]
                  \/ o \in closed'
                  \/ "error" \in Throwing
                  \/ \E e \in Rejecting : <<o, e>> \in delivered'
  <2>1. PICK o \in Objects, s \in Slots : Ends(o, s)
    <3>1. PICK o \in Objects, s \in Slots :
            \/ StatsFails(o, s)
            \/ \E e \in Events :
                 HandlerRejects(o, s, e) \/ \E os \in {{}, Held(o[1])} : HandlerThrows(o, s, e, os)
      BY <1>1
      DEF Next, Alive, RegisterQueueEventListeners, BeginShutdown, QueueChanges,
          CloseEvents, HostShutdown, Tick, WaitingCounted, ActiveCounted, HandlerCloses
    <3> QED
      BY <1>1, <3>1, FailuresEnd
  <2>2. pc'[o] # pc[o]
    BY <1>1, <2>1 DEF Ends, PollEnds, EInv, TypeOK
  <2>3. handlers'[o] = IF o \in closed' THEN {} ELSE handles[o[1]]
    <3>1. o[2] \in Nat /\ registered \in Nat /\ ~(o[2] > registered)
      BY <1>1, <2>1, ConstantsAssumption
      DEF Ends, EInv, TypeOK, FutureInv, Objects, ConstantsAssumption
    <3>2. o[2] <= registered' /\ handles' = handles
      BY <2>1, <3>1 DEF Ends
    <3> QED
      BY <1>1, <3>2 DEF EInv, ClosedInv
  <2> QED
    BY <2>1, <2>2, <2>3 DEF Ends, Unheard
<1> QED
  BY <1>1, EventsInductive, PTL DEF Spec, HeardErrorsAreSurvived

(* Shutdown leaves only the objects polling that were replaced.            *)
THEOREM ShutdownEndsEvents == Spec => []ShutdownEndsPolling
<1>1. ASSUME EInv PROVE ShutdownEndsPolling
  <2> SUFFICES ASSUME phase = "stopping", hooks = {}, NEW o \in polling,
                      ~(o[2] < registered)
               PROVE  FALSE
    BY DEF ShutdownEndsPolling
  <2>1. /\ o \in Objects /\ o = <<o[1], o[2]>> /\ o[1] \in Listeners /\ o[2] \in Nat \ {0}
        /\ registered \in Nat
    BY <1>1, ConstantsAssumption DEF EInv, TypeOK, Objects, ConstantsAssumption
  <2>2. o[2] = registered
    BY <1>1, <2>1 DEF EInv, FutureInv
  <2>3. o \in Held(o[1])
    BY <1>1, <2>1, <2>2 DEF EInv, HostInv, Held
  <2> QED
    BY <1>1, <2>1, <2>3 DEF EInv, HookInv
<1> QED
  BY <1>1, EventsInductive, PTL
=============================================================================
