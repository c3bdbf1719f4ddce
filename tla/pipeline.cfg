SPECIFICATION FairPipeSpec
CONSTANTS
  Keys <- MCKeys
  HashOf <- MCHashOf
  Times = {60, 120}
  Batches <- MCBatches
  PartitionCnt = 2
  QueueCap = 2
  MaxCalls = 2
  MaxStops = 1
  MaxFaults = 1
INVARIANT PipeTypeOK
INVARIANT NothingForgotten
INVARIANT OnlySent
PROPERTY EventuallySynced
\* The backend is freed and the proxy stops.
CHECK_DEADLOCK FALSE
