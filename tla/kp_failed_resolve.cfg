SPECIFICATION Spec
CONSTANTS
  Keys = {k1, k2}
  Values = {0}
  Times = {t1}
  LastId = 3
  NoValue = NoValue
  Resolvers <- MCResolvers
  Transactional <- MCTransactional
  MayFail <- MCMayFail
  Configurations <- MCConfigurations
  Calls = {"resolve"}
  MaxInfos = 1
SYMMETRY KeySymmetry
INVARIANT NoCrash
\* A NULL dereference stops the program.
CHECK_DEADLOCK FALSE
