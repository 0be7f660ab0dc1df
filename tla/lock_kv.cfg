CONSTANTS
  a = a
  b = b
  c3 = c3
  NoOwner = NoOwner
  Clients = {a, b, c3}
  Backend = "kv"
  TTL = 5
  MaxSkew = 2
  Skew <- SkewedClocks
SPECIFICATION FairSpec
INVARIANT MutualExclusion
PROPERTIES RefinesLeaseLock OnlyOwnerReleases AbandonedLockLapses
