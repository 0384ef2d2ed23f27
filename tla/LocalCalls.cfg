SPECIFICATION Spec
CONSTANTS
  j1 = j1
  j2 = j2
  j3 = j3
  idA = idA
  AutoId = AutoId
  Jobs = {j1, j2}
  Options <- CallOptions
  Workers = {w1}
  Slots = {s1, s2}
  Concurrency = 1
  Calls = {"remove", "empty", "clean", "moveTo"}
  RetryFrom = {"waiting", "active", "delayed", "completed", "failed"}
  AttemptCap = 3
  Listeners = {"return", "throw", "retry"}
SYMMETRY Symmetry
INVARIANTS
  TypeOK
  AttemptBound
  GettersCoverTheMap
