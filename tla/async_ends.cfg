CONSTANTS
  u1 = u1
  u2 = u2
  Users = {u1}
  Mode = "async"
  Signal = "polling"
  HasTimeout = FALSE
  Joiners = FALSE
  HandlersFail = FALSE
  CanCrash = FALSE
SPECIFICATION FairSpecTaskEnds
CHECK_DEADLOCK FALSE
PROPERTIES RefinesFairLifecycle
