SPECIFICATION Spec
CONSTANTS
  Keys <- MCKeys
  Values = {0, 1}
  Times = {1, 2}
  LastId = 3
  NoValue = NoValue
  Wanted <- MCWanted
  Messages <- AllMessages
  DataBackends <- DbatsOrKafka
  Resolvers <- MCResolvers
  Transactional <- MCTransactional
  EofLimit = 2
  Endless = {}
  IntMax = 7
  MaxPolls = 3
  MaxNow = 1
INVARIANT TypeOK
INVARIANT LatestKept
INVARIANT OnlyReceived
INVARIANT CleanExitStored
INVARIANT FlushAssertion
INVARIANT StatsConserved
\* The proxy exits.
CHECK_DEADLOCK FALSE
