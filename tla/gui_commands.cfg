SPECIFICATION Spec
CONSTANTS
  u1 = u1
  u2 = u2
  f1 = f1
  f2 = f2
  f3 = f3
  f4 = f4
  Url = {u1, u2}
  Direct = {u2}
  NoUrl = NoUrl
  Cookie = {k1}
  NoCookie = NoCookie
  FormatsOf <- Listed
  MaxShown = 8
  Best = Best
  NoFormat = NoFormat
  Slot = {s1, s2}
INVARIANTS
  BusyMeansWorking
  
