CONSTANTS
  u1 = u1
  u2 = u2
  Users = {}
  Mode = "async"
  Signal = "polling"
  HasTimeout = TRUE
  Joiners = FALSE
  HandlersFail = FALSE
  CanCrash = FALSE
SPECIFICATION Spec
CHECK_DEADLOCK FALSE
INVARIANTS FinishedTaskIsTerminal
