SPECIFICATION Spec
CONSTANTS
  Jobs = {j1}
  Messages = {m1, m2, m3}
  Options <- TwiceOptions
  Polls = {p1, p2}
  Concurrency = 2
  Calls = {"peek", "remove", "retry", "close"}
  ErrorsHeard = TRUE
  Faults = {"get", "put", "delete", "late", "crash", "throw"}
  RunCap = 1
SYMMETRY Symmetry
INVARIANTS
  NeverLost
  NeverExceeded
