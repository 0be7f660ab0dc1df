CONSTANT MaxQuery = 2
SPECIFICATION Spec
CHECK_DEADLOCK FALSE
INVARIANT StaleFailuresDropped
