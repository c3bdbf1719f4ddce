SPECIFICATION FairSpec
CONSTANTS
  Keys <- MCKeys
  Values = {0, 1}
  Times = {1}
  LastId = 3
  NoValue = NoValue
  Wanted <- MCWanted
  Messages <- ShortMessages
  DataBackends <- DbatsOnly
  Resolvers <- MCResolvers
  Transactional <- MCTransactional
  EofLimit = 2
  Endless = {}
  IntMax = 7
  MaxPolls = 1
  MaxNow = 1
PROPERTY MalformedNotFatal
\* The proxy exits.
CHECK_DEADLOCK FALSE
