SPECIFICATION FairWork
CONSTANTS
  Jobs = {j1, j2}
  Workers = {w1}
  Owner = owner
  Others = {}
  Sentinel = Sentinel
  Nothing = Nothing
  Aborts = {TRUE}
CHECK_DEADLOCK FALSE
PROPERTY GetReturns
