SPECIFICATION Spec
CONSTANTS
  j1 = j1
  j2 = j2
  j3 = j3
  idA = idA
  AutoId = AutoId
  Jobs = {j1, j2}
  Options <- PollingOptions
  Workers = {w1, w2}
  Slots = {s1}
  Concurrency = 2
  Calls = {"pause", "close"}
  RetryFrom = {}
  AttemptCap = 3
  Listeners = {"return"}
SYMMETRY Symmetry
INVARIANTS
  UnfinishedKept
  ExclusiveRun
  ActiveIsAwaited
PROPERTIES
  FinishedIsFinal
  NeverEarly
  BestFirst
  LifecycleSpec
