SPECIFICATION Spec
CONSTANTS
  Symbols <- MCSymbols
  Spaces <- MCSpaces
  Upper <- MCUpper
  Number <- MCNumber
  MaxInt = 5
  MsPerSecond = 2
  Arguments <- MCArguments
  Lines <- MCLines
  Length <- MCLength
  kMaximumKeySize = 2
  kMaximumValueSize = 2
  MaxTime = 3
  MaxLines = 3
  MaxSessions = 2
INVARIANTS
  TypeOK
  TokenizeFollowsGrammar
  StatisticsBalance
  IntervalAsAsked
PROPERTIES
  AnswersFollowHistory
CHECK_DEADLOCK FALSE
