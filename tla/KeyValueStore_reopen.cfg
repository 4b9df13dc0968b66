SPECIFICATION Spec
CONSTANTS
  t1 = t1
  t2 = t2
  k1 = k1
  k2 = k2
  v1 = v1
  v2 = v2
  Threads = {t1, t2}
  Keys = {k1}
  Values = {v1, v2}
  None = None
  TTLs = {0}
  Calls = {"set", "close"}
  InitialLogs <- NewFile
  CacheCapacity = 1
  StorageFails = FALSE
  MaxTime = 1
  MaxCalls = 3
  MaxOpens = 2
INVARIANTS
  IndexMatchesLog
