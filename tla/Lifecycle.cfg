SPECIFICATION FairSpec
CONSTANTS
  r1 = r1
  r2 = r2
  r3 = r3
  p1 = p1
  c1 = c1
  c2 = c2
  qA = qA
  qB = qB
  i1 = i1
  i2 = i2
  Keys = {"default", "other"}
  Names = {qA, qB}
  QueueIds = {i1, i2}
  Callbacks = {c1, c2}
  Refused = {c2}
  Applications = 2
  Configurations <- AllConfigurations
  Registrations = {r1, r2, r3}
  Registered <- ApplicationQueues
  AppOf <- ApplicationOf
  Processors = {p1}
  ProcessorQueue <- ApplicationProcessors
  RegisterCap = 2
INVARIANTS
  TypeOK
  ShutdownStopsWorkers
  QueueIsOwn
  NoOldJobs
PROPERTIES
  EveryWorkerStarts
CHECK_DEADLOCK FALSE
