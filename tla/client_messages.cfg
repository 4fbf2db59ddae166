SPECIFICATION FairSpec
CONSTANTS
  Msg = {m1, m2}
  Beat = Beat
  ChanCap = 2
  MaxAttempts = 2
  MaxGen = 3
  MaxRead = 1
  Watched = TRUE
INVARIANTS
  GreetingFirst
  FailedAfterAllAttempts
PROPERTIES
  AcceptedSent
  LoopsEnd
  ReconnectEnds
CHECK_DEADLOCK FALSE
