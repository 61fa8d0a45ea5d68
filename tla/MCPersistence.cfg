CONSTANTS
  trip = trip
  stop = stop
  Trips <- MCTrips
  Stops <- MCStops
  MaxPending = 2
SPECIFICATION FairSpec
INVARIANTS
  TypeOK
  FinishedStaysFinished
PROPERTIES
  OnlyTheCleanupRevives
  ImplementsRowLifecycle
  NothingStaysActive
