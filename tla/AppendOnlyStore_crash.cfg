SPECIFICATION Spec
CONSTANTS
  k1 = k1
  k2 = k2
  short = short
  long = long
  Keys = {k1, k2}
  Values = {short, long}
  None = None
  Garbage = Garbage
  KeySize <- MCKeySize
  ValueSize <- MCValueSize
  kRecordHeaderSize = 2
  TTLs = {0, 1}
  Faults = {"resize", "tmp", "rename", "reopen", "payload"}
  MaxTime = 2
  MaxFileBytes = 11
  MaxTorn = 1
  MaxCrashes = 1
INVARIANTS
  TypeOK
  IndexPointsToRecord
  AckedVisible
  TornOnlyAtTail
PROPERTIES
  TruncationKeepsRecords
  CompactionPreserves
  ImplementsDurableMap
  OnlyWritesChangeTheMap
SYMMETRY
  Symmetry
