CONSTANTS
  u1 = u1
  u2 = u2
  Users = {u1}
  Mode = "async"
  Signal = "pubsub"
  HasTimeout = TRUE
  Joiners = TRUE
  HandlersFail = TRUE
  CanCrash = TRUE
SPECIFICATION Spec
CHECK_DEADLOCK FALSE
INVARIANTS HandlersRunAtMostOnce SuccessMeansNotStopped ReportedCause
PROPERTIES RefinesTimedLifecycle
