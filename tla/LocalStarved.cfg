SPECIFICATION FairSpec
CONSTANTS
  j1 = j1
  j2 = j2
  j3 = j3
  idA = idA
  AutoId = AutoId
  Jobs = {j1, j2}
  Options <- DemoOptions
  Workers = {w1}
  Slots = {s1}
  Concurrency = 1
  Calls = {}
  RetryFrom = {}
  AttemptCap = 3
  Listeners = {"return"}

PROPERTIES
  EveryJobStarts
