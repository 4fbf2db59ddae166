SPECIFICATION FairSpec
CONSTANTS
  Conn = {c1}
  Task = {t1}
  NoTask = NoTask
  Path = {p1}
  NoPath = NoPath
  Origin = {o1}
  NoOrigin = NoOrigin
  Ip = {i1}
  Window = 2
  MaxRequests = 2
  FileLen = 3
  MaxRange = 2
  MaxU64 = 4
  NoRange = NoRange
  Open = Open
  MaxQueue = 1
INVARIANTS
  HeaderFits
  RateBound
PROPERTIES
  Forgotten
