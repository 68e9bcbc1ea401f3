SPECIFICATION Spec
CONSTANTS
  p1 = p1
  p2 = p2
  Pids = {p1, p2}
  Legacy = {p1}
  MaxBusy = 2
  KillDup = TRUE
  Cleanup = TRUE
  MaxRows = 2
  MaxRefresh = 1
  MaxAge = 2
INVARIANTS OneRowPerAgent
PROPERTIES RefreshIsRecorded NewestIsSpared
