SPECIFICATION Spec
CONSTANTS
  Prog = {p1, p2}
  Url = {u1, u2}
  NoUrl = NoUrl
  Batches <- SmallBatches
  MaxRuns = 3
INVARIANTS
  CalmFilesAreLog
  OneBookmarkPerUrl
SYMMETRY Symmetry
CHECK_DEADLOCK FALSE
