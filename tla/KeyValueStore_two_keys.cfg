SPECIFICATION FairSpec
CONSTANTS
  t1 = t1
  t2 = t2
  k1 = k1
  k2 = k2
  v1 = v1
  v2 = v2
  Threads = {t1, t2}
  Keys = {k1, k2}
  Values = {v1, v2}
  None = None
  TTLs = {0}
  Calls = {"set", "get", "remove", "compact"}
  InitialLogs <- TwoKeyFile
  CacheCapacity = 1
  StorageFails = FALSE
  MaxTime = 2
  MaxCalls = 3
  MaxOpens = 1
INVARIANTS
  CacheCoherent
  IndexMatchesLog
PROPERTIES
  Linearizable
  EveryCallReturns
CHECK_DEADLOCK FALSE
