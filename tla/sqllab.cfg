CONSTANT MaxFetches = 2
SPECIFICATION FairSpec
CHECK_DEADLOCK FALSE
INVARIANTS RowsAreReal FetchesFindResults
PROPERTIES NotReopened TabLearnsTheEnd
