CONSTANTS
  AvgWindow = 1
  MinTripDuration = 1
  EffWindow = 2
  MinStopDuration = 2
  MaxGapDuration = 2
  OvernightGapDuration = 4
  MaxIdleDuration = 2
  MinTripDistance = 2
  GapParkingMaxMove = 2
  NoiseDistance = 2
  MoveRate = 1
  MaxRate = 3
  ConfirmPositions = 3
  StopsCap = 1
  MaxUpsets = 2
  Times <- MCTimes
  LateTimes <- MCLateTimes
  Moves <- MCMoves
SPECIFICATION Spec
INVARIANTS
  TypeOK
  ConfirmedTripWasAnnounced
  AnnouncedTripIsNotForgotten
  CompletedTripsAreNotNegative
  CleanPositionsAreAtomic
  ParkedTripIsClosedAgain
CHECK_DEADLOCK FALSE
