CONSTANTS
  j1 = j1
  j2 = j2
  Jobs <- TwoJobs
  Outcome <- GoodAndBad
  MaxRetries = 1
  WsConnectMaxRetries = 1
  MaxTimers = 1
SPECIFICATION FairSpec
CHECK_DEADLOCK FALSE
INVARIANTS TypeOK RetriesHaveTimers PollingSkipsNothing FirehoseInOrder
PROPERTIES SettledOnce PollingHears OpenSocketHears
