CONSTANTS
  AvgWindow = 1
  MinTripDuration = 2
  EffWindow = 3
  MinStopDuration = 3
  MaxGapDuration = 3
  OvernightGapDuration = 5
  MaxIdleDuration = 5
  MinTripDistance = 2
  GapParkingMaxMove = 2
  NoiseDistance = 2
  MoveRate = 1
  MaxRate = 2
  ConfirmPositions = 2
  StopsCap = 1
  MaxTime = 8
  Times <- MCSparseTimes
  Moves <- MCMoves
  LatePositions = TRUE
SPECIFICATION Spec
INVARIANTS
  StopOpenIffStanding
  ParkedTripIsClosed
PROPERTIES
  StopsEndAfterBeginning
  AnnouncedTripIsSettled
  OnlyNightsLeaveDriversTripless
  ParkedTripsAreLongEnough
