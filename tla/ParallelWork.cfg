SPECIFICATION FairWork
CONSTANTS
  Jobs = {j1, j2, j3}
  Workers = {w1, w2}
  Owner = owner
  Others = {c1, c2}
  Sentinel = Sentinel
  Nothing = Nothing
  Aborts = {FALSE, TRUE}
CHECK_DEADLOCK FALSE
INVARIANT StopMeansDone
PROPERTY ReturnsUnaborted
