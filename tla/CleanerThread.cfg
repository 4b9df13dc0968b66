SPECIFICATION FairSpec
CONSTANTS
  c1 = c1
  c2 = c2
  Callers = {c1, c2}
  MaxCalls = 6
INVARIANTS
  TypeOK
  TerminatesOnlyOnOverlap
  ClosedMeansQuiet
  StopsPromptly
PROPERTIES
  CallsReturn
  ExpiredIsErased
