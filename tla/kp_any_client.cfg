SPECIFICATION Spec
CONSTANTS
  Keys = {k1, k2}
  Values = {0}
  Times = {t1}
  LastId = 3
  NoValue = NoValue
  Resolvers <- MCResolvers
  Transactional <- MCTransactional
  MayFail <- MCMayFail
  Configurations <- MCConfigurations
  Calls = {"add_again", "disable", "enable", "resolve", "enable_backend"}
  MaxInfos = 3
SYMMETRY KeySymmetry
INVARIANT TypeOK
INVARIANT CounterExact
INVARIANT LookupExact
\* A NULL dereference stops the program.
CHECK_DEADLOCK FALSE
