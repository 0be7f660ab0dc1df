CONSTANT MaxQuery = 3
SPECIFICATION FairSpec
CHECK_DEADLOCK FALSE
INVARIANTS ShownIsCurrent AsyncFailureIsCurrent
PROPERTIES StopsItsOwn LoadingEnds
