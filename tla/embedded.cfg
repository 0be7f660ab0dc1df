CONSTANTS
  size = size
  mask = mask
  link = link
  NoId = NoId
  Calls = {size, mask, link}
  Caller <- TwoEnds
  MaxQueue = 1
SPECIFICATION FairSpec
CHECK_DEADLOCK FALSE
INVARIANTS OwnAnswer OneRefreshCycle OneStart
PROPERTIES UnmountedIsQuiet RefinesRemoteCall DashboardComesUp
