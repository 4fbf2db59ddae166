SPECIFICATION FairSpec
CONSTANTS
  Segments = 2
  Retries = 2
  MinParallel = 2
  MaxLen = 3
  MaxCalls = 2
INVARIANTS
  OkIsWhole
  KeptUntilServed
PROPERTIES
  InOrder
  ResumeExtends
  CallsReturn
CHECK_DEADLOCK FALSE
