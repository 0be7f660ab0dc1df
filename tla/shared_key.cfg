CONSTANTS
  ann = ann
  bob = bob
  root = root
  Users = {ann, root}
  Admins = {root}
  Scope = "shared"
  MaxTasks = 2
  CanCrash = TRUE
SPECIFICATION FairSpec
CHECK_DEADLOCK FALSE
INVARIANTS TypeOK OneActiveTask
PROPERTIES OnlyOwnerUnsubscribes RefinesLifecycle EveryTaskEnds LockComesFree
