SPECIFICATION FairSpec
CONSTANTS
  Procs = {p1, p2}
  Ids = {"x", "y"}
  Values = {1, 2}
  NoValue = NoValue
  Times = {t1}
  Batches <- MCBatches
  Ops = {"kp_flush", "set_single_by_id", "bulk"}
  MaxPoints = 2
  MaxCalls = 3
INVARIANT TypeOK
INVARIANT SnapshotsClosed
PROPERTY AtomicStoreSpec
PROPERTY CallReturns
\* The backends are freed, or abort.
CHECK_DEADLOCK FALSE
