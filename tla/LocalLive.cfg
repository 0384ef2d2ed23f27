SPECIFICATION FairSpecW
CONSTANTS
  j1 = j1
  j2 = j2
  j3 = j3
  idA = idA
  AutoId = AutoId
  Jobs = {j1, j2}
  Options <- LiveOptions
  Workers = {w1}
  Slots = {s1, s2}
  Concurrency = 1
  Calls = {"close", "pause"}
  RetryFrom = {}
  AttemptCap = 3
  Listeners = {"return"}
  Waiters = {v1}
PROPERTIES
  EventuallyFinished
  ClosedComesToRest
  WaiterReturns
  FailureIsFinal
