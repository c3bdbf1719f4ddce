SPECIFICATION Spec
CONSTANTS
  Keys = {k1, k2}
  Values = {0, 1}
  Times = {t1}
  LastId = 3
  NoValue = NoValue
  Resolvers <- MCResolvers
  Transactional <- MCTransactional
  MayFail <- MCMayFail
  Configurations <- MCConfigurations
  Calls = {"enable"}
  MaxInfos = 2
SYMMETRY KeySymmetry
INVARIANT NoCrash
INVARIANT CleanMeansResolved
PROPERTY PointTableSpec
\* A NULL dereference stops the program.
CHECK_DEADLOCK FALSE
