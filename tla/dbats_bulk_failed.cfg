SPECIFICATION Spec
CONSTANTS
  Procs = {p1}
  Ids = {"x"}
  Values = {1, 2}
  NoValue = NoValue
  Times = {t1}
  Batches <- OneBatch
  Ops = {"bulk"}
  MaxPoints = 2
  MaxCalls = 2
INVARIANT FreeFindsSnapshot
\* The backend is freed, or crashes.
CHECK_DEADLOCK FALSE
