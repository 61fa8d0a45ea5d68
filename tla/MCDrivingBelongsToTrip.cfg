CONSTANTS
  AvgWindow = 1
  MinTripDuration = 2
  EffWindow = 3
  MinStopDuration = 3
  MaxGapDuration = 3
  OvernightGapDuration = 5
  MaxIdleDuration = 5
  MinTripDistance = 2
  GapParkingMaxMove = 2
  NoiseDistance = 2
  MoveRate = 1
  MaxRate = 2
  ConfirmPositions = 3
  StopsCap = 3
  MaxTime = 11
  Times <- MCTimes
  Moves <- MCMoves
  LatePositions = FALSE
SPECIFICATION Spec
INVARIANTS
  DrivingBelongsToTrip
CHECK_DEADLOCK FALSE
