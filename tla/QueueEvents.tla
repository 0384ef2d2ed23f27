---------------------------- MODULE QueueEvents ----------------------------
(***************************************************************************)
(* The listeners to the events of one queue: @QueueEventsListener classes, *)
(* the events object each registration gives them, and the polls of these  *)
(* objects.                                                                *)
(*                                                                         *)
(* Nobody tells the application what happens in a queue: the OCI driver's  *)
(* events object asks for the two counts every second, one after the other,*)
(* and emits what they say.  Nothing waits for the poll before, close()    *)
(* takes no poll back, and an 'error' nobody listens to is thrown, into an *)
(* async callback nobody awaits: the process ends.  The local driver's     *)
(* object never emits anything.                                            *)
(*                                                                         *)
(* Source: drivers/oci/oci-queue-events.adapter.ts, queue-hub.explorer.ts, *)
(* hosts/queue-events-host.class.ts, drivers/*-queue-factory.ts.           *)
(***************************************************************************)
EXTENDS Naturals, Wiring

CONSTANTS
  Configurations, \* what the forRoot calls may configure
  Queue,          \* the registration of the queue, see RegistrationType
  Listeners,      \* the @QueueEventsListener classes of the queue
  HandlerSets,    \* the events such a class may have handlers for
  Throwing,       \* the events whose handlers may throw
  Rejecting,      \* the events whose handlers are async and may reject
  Slots,          \* polls of one object that may overlap (bound)
  RegisterCap,    \* bound on the calls of register()
  FailureCap      \* bound on the calls of the service that fail

Events == {"waiting", "active", "error"}

ASSUME ConstantsAssumption ==
  /\ \A config \in Configurations :
       IsConfiguration(config) /\ ~Rejected(config, Queue)
  /\ Queue \in RegistrationType
  /\ HandlerSets \subseteq SUBSET Events
  /\ Throwing \subseteq Events
  /\ Rejecting \subseteq Events
  /\ RegisterCap \in Nat
  /\ FailureCap \in Nat

(* What the n-th registration makes for a class.                           *)
Objects == Listeners \X (1 .. RegisterCap)

VARIABLES
  config,     \* the configurations of the application
  handles,    \* of a class: the events it has handlers for
  registered, \* how often register() ran
  queueEvents,\* of a class: the registration whose object its host holds, or 0
  polling,    \* the objects whose interval exists
  handlers,   \* of an object: the events somebody listens to
  pc,         \* of a poll: "idle", or the count it awaits, "waiting" or "active"
  waiting,    \* what the first count of the poll said: more than 0
  counts,     \* which counts of the queue are more than 0
  failures,   \* how many calls of the service failed
  hooks,      \* classes whose onApplicationShutdown is to run
  phase,      \* "running", "stopping" or "crashed"
  (* history, read by no guard *)
  delivered,  \* the handlers the last step called: pairs of object and event
  closed      \* objects that were closed

application == <<config, handles>>
pollVars    == <<pc, waiting>>
vars == <<application, registered, queueEvents, polling, handlers, pollVars,
          counts, failures, hooks, phase, delivered, closed>>

Init ==
  /\ config \in Configurations
  /\ handles \in [Listeners -> HandlerSets]
  /\ registered = 0
  /\ queueEvents = [l \in Listeners |-> 0]
  /\ polling = {}
  /\ handlers = [o \in Objects |-> {}]
  /\ pc = [o \in Objects |-> [s \in Slots |-> "idle"]]
  /\ waiting = [o \in Objects |-> [s \in Slots |-> FALSE]]
  /\ counts = {}
  /\ failures = 0
  /\ hooks = {}
  /\ phase = "running"
  /\ delivered = {}
  /\ closed = {}

Alive == phase # "crashed"

(* Mutant: the host does not look whether it holds one.                    *)
HeldUnchecked(l) == {<<l, queueEvents[l]>>}

(* The object the host of a class holds, if any.                           *)
Held(l) == {<<l, n>> : n \in {queueEvents[l]} \ {0}}

-----------------------------------------------------------------------------
(* The application.                                                        *)

(* Mutant: a class that has an events object keeps it.                     *)
RegisterQueueEventListenersOnce ==
  LET made == {<<l, registered + 1>> : l \in Listeners} IN
  /\ phase = "running" /\ registered < RegisterCap
  /\ registered' = registered + 1
  /\ queueEvents' = [l \in Listeners |-> IF queueEvents[l] = 0 THEN 1 ELSE queueEvents[l]]
  /\ handlers' = [o \in Objects |-> IF o \in made THEN handles[o[1]] ELSE handlers[o]]
  /\ polling' = IF EventsDriver(config) = "local" THEN polling ELSE polling \union made
  /\ delivered' = {}
  /\ UNCHANGED <<application, pollVars, counts, failures, hooks, phase, closed>>

(* registerQueueEventListeners: every class gets a new events object, which*)
(* replaces the one it has, and which the OCI driver sets polling at once. *)
RegisterQueueEventListeners ==
  LET made == {<<l, registered + 1>> : l \in Listeners} IN
  /\ phase = "running" /\ registered < RegisterCap
  /\ registered' = registered + 1
  /\ queueEvents' = [l \in Listeners |-> registered + 1]
  /\ handlers' = [o \in Objects |-> IF o \in made THEN handles[o[1]] ELSE handlers[o]]
  /\ polling' = IF EventsDriver(config) = "local" THEN polling ELSE polling \union made
  /\ delivered' = {}
  /\ UNCHANGED <<application, pollVars, counts, failures, hooks, phase, closed>>

(* Mutant: the interval is cleared, the listeners stay.                    *)
CloseTheIntervalOnly(os) ==
  /\ polling' = polling \ os
  /\ closed' = closed \union os
  /\ UNCHANGED handlers

(* close() of objects: no more polls, no more listeners.  ('closed' is     *)
(* emitted after the listeners were removed, to nobody.)                   *)
Close(os) ==
  /\ polling' = polling \ os
  /\ handlers' = [o \in Objects |-> IF o \in os THEN {} ELSE handlers[o]]
  /\ closed' = closed \union os

(* The application closes the object the host of a class holds.            *)
CloseEvents(l) ==
  /\ Alive /\ Held(l) # {}
  /\ Close(Held(l))
  /\ delivered' = {}
  /\ UNCHANGED <<application, registered, queueEvents, pollVars, counts, failures,
                 hooks, phase>>

BeginShutdown ==
  /\ phase = "running"
  /\ phase' = "stopping"
  /\ hooks' = Listeners
  /\ delivered' = {}
  /\ UNCHANGED <<application, registered, queueEvents, polling, handlers, pollVars,
                 counts, failures, closed>>

(* QueueEventsHost.onApplicationShutdown.                                  *)
HostShutdown(l) ==
  /\ phase = "stopping" /\ l \in hooks
  /\ hooks' = hooks \ {l}
  /\ Close(Held(l))
  /\ delivered' = {}
  /\ UNCHANGED <<application, registered, queueEvents, pollVars, counts, failures, phase>>

(* Jobs are added, taken and finished.                                     *)
QueueChanges ==
  /\ Alive
  /\ counts' \in (SUBSET {"waiting", "active"}) \ {counts}
  /\ delivered' = {}
  /\ UNCHANGED <<application, registered, queueEvents, polling, handlers, pollVars,
                 failures, hooks, phase, closed>>

-----------------------------------------------------------------------------
(* The polls.                                                              *)

Tick(o, s) ==
  /\ Alive /\ o \in polling
  /\ pc[o][s] = "idle"
  /\ pc' = [pc EXCEPT ![o][s] = "waiting"]
  /\ delivered' = {}
  /\ UNCHANGED <<application, registered, queueEvents, polling, handlers, waiting,
                 counts, failures, hooks, phase, closed>>

(* getWaitingCount returns.                                                *)
WaitingCounted(o, s) ==
  /\ Alive /\ pc[o][s] = "waiting"
  /\ pc' = [pc EXCEPT ![o][s] = "active"]
  /\ waiting' = [waiting EXCEPT ![o][s] = "waiting" \in counts]
  /\ delivered' = {}
  /\ UNCHANGED <<application, registered, queueEvents, polling, handlers, counts,
                 failures, hooks, phase, closed>>

PollEnds(o, s) ==
  /\ pc' = [pc EXCEPT ![o][s] = "idle"]
  /\ waiting' = [waiting EXCEPT ![o][s] = FALSE]

(* Mutant: what was asked first is forgotten.                              *)
CountedLast(o, s) == counts \intersect {"active"}

(* What a poll has to emit once it knows both counts.                      *)
Counted(o, s) ==
  (IF waiting[o][s] THEN {"waiting"} ELSE {}) \union (counts \intersect {"active"})

CallsOf(o, es) == {o} \X es

(* getActiveCount returns, and the handlers called do.                     *)
ActiveCounted(o, s) ==
  /\ Alive /\ pc[o][s] = "active"
  /\ PollEnds(o, s)
  /\ delivered' = CallsOf(o, Counted(o, s) \intersect handlers[o])
  /\ UNCHANGED <<application, registered, queueEvents, polling, handlers, counts,
                 failures, hooks, phase, closed>>

(* The same, and a handler closes the events object its host holds, which  *)
(* need not be o.  Of o the second event has no listener any more.         *)
HandlerCloses(o, s, e) ==
  /\ Alive /\ pc[o][s] = "active"
  /\ e \in Counted(o, s) \intersect handlers[o]
  /\ PollEnds(o, s)
  /\ Close(Held(o[1]))
  /\ delivered' = CallsOf(o, IF o \in Held(o[1]) /\ e = "waiting"
                               THEN {e}
                               ELSE Counted(o, s) \intersect handlers[o])
  /\ UNCHANGED <<application, registered, queueEvents, counts, failures, hooks, phase>>

(* The same, and a handler is async and rejects at once: no `try` awaits   *)
(* what it returned, the process ends.                                     *)
HandlerRejects(o, s, e) ==
  /\ Alive /\ pc[o][s] = "active"
  /\ e \in Counted(o, s) \intersect handlers[o] \intersect Rejecting
  /\ PollEnds(o, s)
  /\ delivered' = CallsOf(o, Counted(o, s) \intersect handlers[o])
  /\ phase' = "crashed"
  /\ UNCHANGED <<application, registered, queueEvents, polling, handlers, counts,
                 failures, hooks, closed>>

(* The catch block emits 'error' to who still listens.  It throws when     *)
(* nobody does, and when the handler does.                                 *)
EmitError(o, es) ==
  /\ delivered' = CallsOf(o, es \union ({"error"} \intersect handlers'[o]))
  /\ \/ /\ "error" \in handlers'[o]
        /\ UNCHANGED phase
     \/ /\ "error" \in Throwing \union Rejecting \/ "error" \notin handlers'[o]
        /\ phase' = "crashed"
  /\ UNCHANGED <<application, registered, queueEvents, counts, hooks>>

(* A handler throws, perhaps after it closed the object its host holds,    *)
(* and the event after it is not emitted.                                  *)
HandlerThrows(o, s, e, os) ==
  /\ Alive /\ pc[o][s] = "active"
  /\ e \in Counted(o, s) \intersect handlers[o] \intersect Throwing
  /\ PollEnds(o, s)
  /\ Close(os)
  /\ EmitError(o, IF e = "waiting" THEN {e} ELSE Counted(o, s) \intersect handlers[o])
  /\ UNCHANGED failures

(* Mutant: nobody catches what the calls throw.                            *)
StatsFailsUncaught(o, s) ==
  /\ Alive /\ pc[o][s] # "idle"
  /\ QueueDriver(config, Queue) = "oci-queue"
  /\ failures < FailureCap
  /\ failures' = failures + 1
  /\ PollEnds(o, s)
  /\ phase' = "crashed"
  /\ delivered' = {}
  /\ UNCHANGED <<application, registered, queueEvents, polling, handlers, counts,
                 hooks, closed>>

(* getStats fails.  (The counts of a local queue do not, and the OCI       *)
(* events object of one, which localMode leads to, asks these.)            *)
StatsFails(o, s) ==
  /\ Alive /\ pc[o][s] # "idle"
  /\ QueueDriver(config, Queue) = "oci-queue"
  /\ failures < FailureCap
  /\ failures' = failures + 1
  /\ PollEnds(o, s)
  /\ UNCHANGED <<polling, handlers, closed>>
  /\ EmitError(o, {})

-----------------------------------------------------------------------------
Next ==
  \/ RegisterQueueEventListeners
  \/ BeginShutdown
  \/ QueueChanges
  \/ \E l \in Listeners : CloseEvents(l) \/ HostShutdown(l)
  \/ \E o \in Objects, s \in Slots :
       \/ Tick(o, s)
       \/ WaitingCounted(o, s)
       \/ ActiveCounted(o, s)
       \/ StatsFails(o, s)
       \/ \E e \in Events :
            \/ HandlerCloses(o, s, e)
            \/ HandlerRejects(o, s, e)
            \/ \E os \in {{}, Held(o[1])} : HandlerThrows(o, s, e, os)

Spec == Init /\ [][Next]_vars

(* The interval fires, and every call of the service is answered.          *)
FairSpec ==
  /\ Spec
  /\ \A o \in Objects, s \in Slots :
       /\ WF_vars(Tick(o, s))
       /\ WF_vars(WaitingCounted(o, s) \/ StatsFails(o, s))
       /\ WF_vars(ActiveCounted(o, s) \/ StatsFails(o, s))

-----------------------------------------------------------------------------
TypeOK ==
  /\ config \in Configurations
  /\ handles \in [Listeners -> HandlerSets]
  /\ registered \in 0 .. RegisterCap
  /\ queueEvents \in [Listeners -> 0 .. RegisterCap]
  /\ polling \subseteq Objects
  /\ handlers \in [Objects -> SUBSET Events]
  /\ pc \in [Objects -> [Slots -> {"idle", "waiting", "active"}]]
  /\ waiting \in [Objects -> [Slots -> BOOLEAN]]
  /\ counts \subseteq {"waiting", "active"}
  /\ failures \in 0 .. FailureCap
  /\ hooks \subseteq Listeners
  /\ phase \in {"running", "stopping", "crashed"}
  /\ delivered \subseteq Objects \X Events
  /\ closed \subseteq Objects

(* An object that was closed calls no handler, polls under way included.   *)
ClosedIsSilent ==
  [][\A o \in closed, e \in Events : <<o, e>> \notin delivered']_vars

(* The process ends only by the poll of an object whose errors nobody      *)
(* hears, because its class has no handler or it was closed under the      *)
(* poll, or by an 'error' handler that throws, or by a handler that        *)
(* rejects: a failing count or a handler of a count that throws is         *)
(* survived where the error is handled.                                    *)
HeardErrorsAreSurvived ==
  [][phase' = "crashed" /\ Alive =>
       \E o \in Objects :
         /\ pc'[o] # pc[o]
         /\ \/ "error" \notin handles[o[1]]
            \/ o \in closed'
            \/ "error" \in Throwing
            \/ \E e \in Rejecting : <<o, e>> \in delivered']_vars

(* When every hook has run, only objects a later register() replaced poll. *)
ShutdownEndsPolling ==
  phase = "stopping" /\ hooks = {} =>
    \A o \in polling : o[2] < registered

(* Where the OCI driver's objects are, a count that stays above 0 is       *)
(* reported again and again, as long as the object is open; but 'active'   *)
(* only if no handler of 'waiting', which goes first, may throw.           *)
NotMasked(o, e) == e = "active" => "waiting" \notin handlers[o] \intersect Throwing

EventuallyReported ==
  \A o \in Objects, e \in {"waiting", "active"} :
    <>[](/\ Alive /\ o \in polling
         /\ e \in counts \intersect handlers[o] /\ NotMasked(o, e))
      => []<>(<<o, e>> \in delivered)
=============================================================================
