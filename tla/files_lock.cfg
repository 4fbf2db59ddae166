SPECIFICATION FairSpec
CONSTANTS
  Conn = {c1, c2}
  Task = {t1}
  NoTask = NoTask
  Path = {p1}
  NoPath = NoPath
  Origin = {}
  NoOrigin = NoOrigin
  Ip = {i1}
  Window = 1
  MaxRequests = 1
  FileLen = 0
  MaxRange = 0
  MaxU64 = 0
  NoRange = NoRange
  Open = Open
  MaxQueue = 1
INVARIANTS
  ServedIsRegistered
PROPERTIES
  WritesComplete
  RequestsFinish
