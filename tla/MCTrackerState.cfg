SPECIFICATION Spec
CONSTANTS
  Places = {0, 1}
  Resets = {0}
  PersistEvery = 3
  Outsiders = {http}
  Worker = worker
  MaxPath = 1
  MaxUpsets = 2
INVARIANTS
  TypeOK
  OdometerIsEarned
  UndisturbedTripsAreMeasured
PROPERTIES
  OnlyStaleWritesForget
  OnlyResetsMakeTripsNegative
