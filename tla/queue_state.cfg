SPECIFICATION Spec
CONSTANTS
  Url = {u1, u2}
  Id = {i1, i2}
  Me = Me
  Other = Other
  Nobody = Nobody
INVARIANTS
  OneTaskPerUrl
  OkIsSaved
PROPERTIES
  NewTasksKept
  OpensWhatWasSaved
CHECK_DEADLOCK FALSE
