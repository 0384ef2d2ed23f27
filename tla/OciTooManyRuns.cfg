SPECIFICATION Spec
CONSTANTS
  Jobs = {j1}
  Messages = {m1, m2}
  Options <- KeptOptions
  Polls = {p1}
  Concurrency = 1
  Calls = {}
  ErrorsHeard = TRUE
  Faults = {}
  RunCap = 4

INVARIANTS
  RunsWithinAttempts
