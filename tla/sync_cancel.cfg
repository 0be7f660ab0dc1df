CONSTANTS
  u1 = u1
  u2 = u2
  Users = {u1, u2}
  Mode = "sync"
  Signal = "pubsub"
  HasTimeout = FALSE
  Joiners = TRUE
  HandlersFail = TRUE
  CanCrash = TRUE
SPECIFICATION Spec
CHECK_DEADLOCK FALSE
INVARIANTS PublishedMeansTerminal
