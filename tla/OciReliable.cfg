SPECIFICATION FairSpec
CONSTANTS
  Jobs = {j1, j2}
  Messages = {m1, m2, m3, m4}
  Options <- RemovedOptions
  Polls = {p1, p2}
  Concurrency = 1
  Calls = {}
  ErrorsHeard = TRUE
  Faults = {}
  RunCap = 4
INVARIANTS
  TypeOK
  OneWorker
PROPERTIES
  LifecycleSpec
  EventuallyDisposed
