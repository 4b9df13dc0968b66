SPECIFICATION Spec
CONSTANTS
  k1 = k1
  k2 = k2
  short = short
  long = long
  Keys = {k1, k2}
  Values = {short, long}
  None = None
  Garbage = Garbage
  KeySize <- MCKeySize
  ValueSize <- MCValueSize
  kRecordHeaderSize = 2
  TTLs = {0}
  Faults = {"size"}
  MaxTime = 1
  MaxFileBytes = 14
  MaxTorn = 1
  MaxCrashes = 1
PROPERTIES
  TruncationKeepsIntactRecords
