CONSTANTS
  u1 = u1
  u2 = u2
  Users = {u1, u2}
  Mode = "async"
  Signal = "polling"
  HasTimeout = FALSE
  Joiners = TRUE
  HandlersFail = TRUE
  CanCrash = TRUE
SPECIFICATION FairSpec
CHECK_DEADLOCK FALSE
INVARIANTS StoppedMeansHandlersSucceeded
PROPERTIES RefinesLifecycle AbortReachesHandlers
