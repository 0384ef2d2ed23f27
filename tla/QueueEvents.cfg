SPECIFICATION FairSpec
CONSTANTS
  qA = qA
  i1 = i1
  l1 = l1
  Keys = {"default", "other"}
  Names = {qA}
  QueueIds = {i1}
  Callbacks = {}
  Configurations <- FourConfigurations
  Queue <- QueueA
  Listeners = {l1}
  HandlerSets <- SomeHandlers
  Throwing = {"waiting"}
  Rejecting = {"active"}
  Slots = {1, 2}
  RegisterCap = 2
  FailureCap = 1
INVARIANTS
  TypeOK
  ShutdownEndsPolling
PROPERTIES
  HeardErrorsAreSurvived
  ClosedIsSilent
  EventuallyReported
CHECK_DEADLOCK FALSE
