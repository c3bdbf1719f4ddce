SPECIFICATION InsertSpec
CONSTANTS
  Keys = {k1, k2}
  Values = {0, 1, 2, 3}
  Times = {0, 60, 120}
  LastId = 3
  NoValue = NoValue
  Resolvers <- MCResolvers
  Transactional <- MCTransactional
  MayFail <- MCMayFail
  Configurations <- MCConfigurations
  Calls <- MCCalls
  MaxInfos = 2
  Built = {1, 2, 3}
  KAFKA = 3
  Indeterminate <- MCIndeterminate
  CONNECT_MAX_RETRIES = 8
  FirstWait = 10
  MaxWait = 180
  OptionLists <- MCOptionLists
  RawTimes = {60, 120, 256}
  TimeRange = 256
  MaxLines = 3
INVARIANT InsertTypeOK
INVARIANT BackendsAgree
INVARIANT OnlyLines
INVARIANT AllStored
PROPERTY KafkaReady
PROPERTY Terminates
\* The program exits.
CHECK_DEADLOCK FALSE
