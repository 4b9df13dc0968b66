SPECIFICATION Spec
CONSTANTS
  t1 = t1
  t2 = t2
  k1 = k1
  k2 = k2
  v1 = v1
  v2 = v2
  Threads = {t1, t2}
  Keys = {k1}
  Values = {v1, v2}
  None = None
  TTLs = {0, 1}
  Calls = {"set", "get", "remove", "keys", "compact", "cleanup", "close"}
  InitialLogs <- OldFile
  CacheCapacity = 1
  StorageFails = TRUE
  MaxTime = 2
  MaxCalls = 3
  MaxOpens = 1
SYMMETRY Symmetry
INVARIANTS
  TypeOK
  CacheCoherent
  IndexMatchesLog
PROPERTIES
  Linearizable
