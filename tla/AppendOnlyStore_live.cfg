SPECIFICATION FairSpec
CONSTANTS
  k1 = k1
  k2 = k2
  short = short
  long = long
  Keys = {k1, k2}
  Values = {short}
  None = None
  Garbage = Garbage
  KeySize <- MCKeySize
  ValueSize <- MCValueSize
  kRecordHeaderSize = 2
  TTLs = {0, 1}
  Faults = {"tmp", "rename"}
  MaxTime = 2
  MaxFileBytes = 12
  MaxTorn = 1
  MaxCrashes = 2
INVARIANTS
  IInv
PROPERTIES
  Restartable
