SPECIFICATION SweptServerSpec
CONSTANTS
  c1 = c1
  c2 = c2
  d1 = d1
  d2 = d2
  t1 = t1
  t2 = t2
  u1 = u1
  Conn = {c1}
  Device = {d1}
  NoDevice = NoDevice
  NilDevice = d1
  Team = {t1, t2}
  NilTeam = NilTeam
  Url = {u1}
  NoUrl = NoUrl
  HashDevice <- DeviceHash
  HashUrl <- UrlHash
  Timeout = 1
  ChanCap = 1
  MaxClock = 1
  MaxVersion = 3
  MaxRestarts = 1
  DeviceOf <- OneDevice
INVARIANTS
  WritesOwnTeam
PROPERTIES
  TasksKept
  OverdueReleased
