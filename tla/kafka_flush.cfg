SPECIFICATION FairSpec
CONSTANTS
  Keys <- MCKeys
  HashOf <- MCHashOf
  SizeOf <- MCSizeOf
  HeaderSize = 1
  BufferLen = 8
  Times = {60, 120}
  Batches <- MCBatches
  PartitionCnt = 2
  QueueCap = 2
  DrainLimit = 2
  MaxCalls = 2
INVARIANT TypeOK
INVARIANT NoAbort
INVARIANT PointsOnce
INVARIANT RoutedTogether
INVARIANT Accounted
PROPERTY TopicSpec
PROPERTY CallReturns
\* The backend is freed.
CHECK_DEADLOCK FALSE
