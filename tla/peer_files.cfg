SPECIFICATION Spec
CONSTANTS
  ChunkLen = 2
  Conns = 2
  MaxLen = 5
  MaxCalls = 3
  Peers = {"range", "whole", "prefix"}
INVARIANTS
  ResumeCompletes
  MergedInOrder
PROPERTIES
  PeerAppends
CHECK_DEADLOCK FALSE
