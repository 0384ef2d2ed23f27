------------------------------- MODULE Wiring -------------------------------
(***************************************************************************)
(* What an application's forRoot and registerQueue calls mean: which       *)
(* configuration a registration gets, which driver, under which name and   *)
(* key of the factories' caches its queue is, and when the provider of the *)
(* queue throws.                                                           *)
(*                                                                         *)
(* The configurations of an application are a function on the keys that    *)
(* forRoot or forRootAsync was called with: a key that is not in its       *)
(* DOMAIN is not configured.                                               *)
(*                                                                         *)
(* Source: queue-hub.module.ts, queue-hub.providers.ts,                    *)
(* queue-hub.explorer.ts, shared/helpers, drivers/*-queue-factory.ts.      *)
(***************************************************************************)

CONSTANTS
  Keys,      \* the configKeys, Default among them
  Names,     \* names of queues
  QueueIds,  \* OCIDs of OCI queues
  Callbacks  \* entries of the `processors` options

Default == "default"
Undefined == "undefined"

ASSUME WiringAssumption ==
  /\ Default \in Keys
  /\ Undefined \notin Names \union QueueIds

Drivers == {"oci-queue", "local"}

(* `connection`: absent, or given, with or without a compartment that can  *)
(* be told from it, from the environment or from the credentials.          *)
ConfigType ==
  [driver : Drivers \union {Undefined},
   localMode : BOOLEAN,
   connection : {Undefined, "given", "withCompartment"}]

(* forRoot and forRootAsync: a configuration under a key, or the default.  *)
IsConfiguration(config) ==
  DOMAIN config \subseteq Keys /\ \A k \in DOMAIN config : config[k] \in ConfigType

(* `name` is the one registerQueue(Async) was called with, `given` the one *)
(* in the options: what an async factory returned need not have it.        *)
RegistrationType ==
  [name : Names,
   given : Names \union {Undefined},
   async : BOOLEAN,
   configKey : Keys,
   queueId : QueueIds \union {Undefined},
   endpoint : BOOLEAN,
   compartment : BOOLEAN,
   processors : SUBSET Callbacks]  \* {}: the option is absent

-----------------------------------------------------------------------------
(* Which driver.                                                           *)

(* getDependencyRef: only the default configuration may be missing.        *)
HolderThrows(config, key) == key # Default /\ key \notin DOMAIN config

LocalMode(config, key) == key \in DOMAIN config /\ config[key].localMode

(* The driver option, OCI when there is none.                              *)
DriverOption(config, key) ==
  IF key \in DOMAIN config /\ config[key].driver # Undefined
    THEN config[key].driver
    ELSE "oci-queue"

(* localMode goes before the driver option.                                *)
EffectiveDriver(config, key) ==
  IF LocalMode(config, key) THEN "local" ELSE DriverOption(config, key)

(* A queue looks at the configuration of its registration.                 *)
QueueDriver(config, reg) == EffectiveDriver(config, reg.configKey)

(* Queue events look at the default configuration, and not at localMode.   *)
EventsDriver(config) == DriverOption(config, Default)

-----------------------------------------------------------------------------
(* Which queue.                                                            *)

QueueName(reg) == IF reg.given # Undefined THEN reg.given ELSE reg.name

(* Mutant: the key of the cache is the name, in both factories.            *)
CacheKeyByName(config, reg) ==
  [driver |-> QueueDriver(config, reg), name |-> QueueName(reg), queueId |-> Undefined]

(* The factories' createQueue: the key the queue is cached under.  The     *)
(* source's key of an OCI queue is the string name-queueId, and a record   *)
(* here: an OCID holds no "-ocid1.", so no two pairs have the same string. *)
CacheKey(config, reg) ==
  [driver  |-> QueueDriver(config, reg),
   name    |-> QueueName(reg),
   queueId |-> IF QueueDriver(config, reg) = "local" THEN Undefined ELSE reg.queueId]

CacheKeys ==
  [driver : Drivers, name : Names, queueId : QueueIds \union {Undefined}]

ConnectionOf(config, key) ==
  IF key \in DOMAIN config THEN config[key].connection ELSE Undefined

(* What createQueueAndWorkers demands for an OCI queue.                    *)
OciOptionsMissing(config, reg) ==
  \/ reg.queueId = Undefined
  \/ ~reg.endpoint
  \/ ConnectionOf(config, reg.configKey) = Undefined
  \/ ConnectionOf(config, reg.configKey) = "given" /\ ~reg.compartment

(* The provider of the queue, or that of its options, throws.              *)
Rejected(config, reg) ==
  \/ HolderThrows(config, reg.configKey)
  \/ QueueDriver(config, reg) = "oci-queue" /\ OciOptionsMissing(config, reg)
=============================================================================
