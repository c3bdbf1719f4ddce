SPECIFICATION FairSpec
CONSTANTS
  Keys = {"a"}
  Values = {0, 1}
  Times = {1, 2}
  LastId = 3
  NoValue = NoValue
  Wanted = {"a"}
  Messages <- FewMessages
  DataBackends <- DbatsOnly
  Resolvers <- MCResolvers
  Transactional <- MCTransactional
  EofLimit = 2
  Endless <- EndlessResults
  IntMax = 1
  MaxPolls = 0
  MaxNow = 0
PROPERTY EventuallyStored
PROPERTY SigintStops
\* The proxy exits.
CHECK_DEADLOCK FALSE
