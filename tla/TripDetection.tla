---------------------------- MODULE TripDetection ----------------------------
(***************************************************************************)
(* Trip and stop detection of one device: PositionProcessorService driving *)
(* the state machine of module StateMachine, with the device state that    *)
(* DeviceStateService keeps in Redis.  One step handles one position from  *)
(* the throttle to the last published event: DeviceQueueManager runs the   *)
(* positions of a device one at a time (module DeviceQueue), and here no   *)
(* Redis or PostgreSQL call fails.                                         *)
(***************************************************************************)
EXTENDS ActionExecution

CONSTANTS
  Times,          \* timestamps a position may carry
  Moves,          \* distances between two positions
  LatePositions   \* may a position carry a timestamp not above the last one?

ASSUME InputAssumption ==
  /\ Times \subseteq Nat \ {0}
  /\ Moves \subseteq Nat
  /\ LatePositions \in BOOLEAN

VARIABLES
  device,    \* device:state:<id> in Redis
  sensor,    \* tracker state says the device has a live ignition sensor
  tripEnd,   \* history: endTime of the last trip that was closed
  stopEnd,   \* history: endTime of the last stop that was closed
  outcome    \* what the last position made of a trip it closed

vars == <<device, sensor, tripEnd, stopEnd, outcome>>

Positions == [ts : Times, move : Moves, fast : BOOLEAN, ign : BOOLEAN]

-----------------------------------------------------------------------------

Init ==
  /\ device = Unseen
  /\ sensor = FALSE
  /\ tripEnd = None
  /\ stopEnd = None
  /\ outcome = "none"

\* isPositionThrottled drops a late position only while its 5 s key lives, so
\* with LatePositions both fates are possible (being dropped is a stutter).
NotThrottled(p) == LatePositions \/ p.ts > device.last

\* updateWithPosition marks the sensor before the state machine reads it.
ProcessPosition(p) ==
  /\ NotThrottled(p)
  /\ sensor' = (sensor \/ p.ign)
  /\ \E r \in Outcomes(device, p, sensor') :
       /\ device' = [r.device EXCEPT !.trip = TripAfterActions(r),
                                     !.stop = StopAfterActions(r)]
       /\ outcome' = OutcomeOf(r)
       /\ tripEnd' = IF Closes(r.acts) THEN r.tripEnd ELSE tripEnd
       /\ stopEnd' = IF EndsOpenStop(r) THEN StopEndOf(r, p)
                     ELSE IF r.gapStop THEN p.ts
                     ELSE stopEnd

\* No ignition=true for IGNITION_EXPIRY_DAYS: back to motion-only detection.
SensorExpires ==
  /\ sensor
  /\ sensor' = FALSE
  /\ outcome' = "none"
  /\ UNCHANGED <<device, tripEnd, stopEnd>>

Next ==
  \/ \E p \in Positions : ProcessPosition(p)
  \/ SensorExpires

Spec == Init /\ [][Next]_vars

-----------------------------------------------------------------------------

TypeOK ==
  /\ device \in DeviceRecords
  /\ sensor \in BOOLEAN
  /\ tripEnd \in Nat \cup {None}
  /\ stopEnd \in Nat \cup {None}
  /\ outcome \in Outcome

\* A device has a stop open exactly while it stands: no parked time goes
\* unrecorded and no stop keeps running while the vehicle drives.
StopOpenIffStanding ==
  device.state # "UNKNOWN" => (HasStop(device) <=> device.state \in Stationary)

\* While the device stands its stop is one and the same: no ignition toggle and
\* no silence ends it, begins another or moves its beginning
\* (determineActions: only moving ends it; handleLargeGap: none beside it).
StandingKeepsItsStop ==
  [][device.state \in Stationary /\ device'.state \in Stationary
       => device'.stop.start = device.stop.start]_vars

\* A trip open beside a stop began before that stop, so closing the trip where
\* the stop began (tripClosure in applyTransition) never gives it a negative
\* length.
TripOpensBeforeStop ==
  HasTrip(device) /\ HasStop(device) =>
    device.trip.start <= device.stop.start /\ device.stop.start <= device.last

\* A device that stood for minStopDuration, or idled for maxIdleDuration, while
\* it kept reporting has no trip open any more: no later report can count the
\* parked time into a trip.
ParkedTripIsClosed ==
  /\ device.state = "STOPPED" /\ device.last - device.stop.start >= MinStopDuration
     => ~HasTrip(device)
  /\ device.state = "IDLE" /\ device.last - device.since >= MaxIdleDuration
     => ~HasTrip(device)

\* Two trips of a device are at least minStopDuration apart, whatever closed
\* the first one (resumption, parking, idling or an overnight gap).
TripsAreSeparated ==
  tripEnd # None =>
    (IF HasTrip(device) THEN device.trip.start ELSE device.last) - tripEnd
      >= MinStopDuration

\* A trip is closed only when a stop of minStopDuration was in progress or the
\* device was silent for an overnight gap: traffic lights, ignition toggles and
\* medium gaps never split a trip (BUGFIX-STOPS-AND-SEGMENTATION.md).
ShortStopsNeverEndTrips ==
  [][outcome' # "none" =>
       \/ HasStop(device) /\ device'.last - device.stop.start >= MinStopDuration
       \/ device'.last - device.last >= OvernightGapDuration]_vars

\* A stop is published with an end that does not precede its beginning, also
\* when the position that ends it arrives late.
StopsEndAfterBeginning ==
  [][stopEnd' # stopEnd /\ HasStop(device) => device.stop.start <= stopEnd']_vars

\* A trip announced by trip:started is never replaced or dropped without its
\* trip:completed or trip:discarded, and only announced trips are discarded.
AnnouncedTripIsSettled ==
  [][/\ device.trip.confirmed /\ device'.trip.start # device.trip.start
       => outcome' \in {"completed", "discarded"}
     /\ outcome' = "discarded" => device.trip.confirmed]_vars

\* A trip that went far or long enough to be announced is announced by the time
\* its position is handled, so a trip nobody was told of is short, and one
\* completed unannounced became long enough with the position that completed it.
EarnedTripIsConfirmed ==
  HasTrip(device) /\ (device.trip.dist >= MinTripDistance \/ device.trip.count >= ConfirmPositions)
    => device.trip.confirmed

\* Only a night leaves a moving device without a trip: a trip that is closed on
\* the road any other way has its successor at once, and who sets off has one.
OnlyNightsLeaveDriversTripless ==
  [][device'.state = "MOVING" /\ ~HasTrip(device')
       => \/ device.state = "MOVING" /\ ~HasTrip(device)
          \/ device'.last - device.last >= OvernightGapDuration]_vars

\* A trip completed because its vehicle parked is published with a duration of
\* minTripDuration: verdict and published end are both the beginning of the stop.
ParkedTripsAreLongEnough ==
  [][outcome' = "completed" /\ device'.state = "STOPPED"
       => \/ tripEnd' - device.trip.start >= MinTripDuration
          \/ device'.last - device.last >= OvernightGapDuration]_vars

\* Trips and stops of a device form the history that module Timeline promises.
History == INSTANCE Timeline
  WITH now <- device.last, trip <- device.trip.start, stop <- device.stop.start

ImplementsTimeline == History!Spec

-----------------------------------------------------------------------------
(* Statements of the repository about the program that the code does not   *)
(* keep: each is checked by a run of its own, which finds it violated.     *)

\* While the vehicle moves there is a trip: the comments of handleLargeGap say
\* that the trip after a silence starts with the normal transition to MOVING.
DrivingBelongsToTrip == device.state = "MOVING" => HasTrip(device)

\* Parked time belongs to the stop: once the trip is closed beside an open stop
\* it ended no later than where that stop began.
ParkedTimeBelongsToStop ==
  HasStop(device) /\ ~HasTrip(device) /\ tripEnd # None => tripEnd <= device.stop.start

\* minTripDuration is the least duration of a valid trip, hence of a completed one.
CompletedTripsAreLongEnough ==
  [][outcome' = "completed" => tripEnd' - device.trip.start >= MinTripDuration]_vars

\* A trip reaches the database with trip:started, before its trip:completed.
CompletedTripsWereAnnounced ==
  [][outcome' = "completed" => device.trip.confirmed]_vars

\* stopsCount is the number of stops during the trip: finishing one adds one.
FinishedStopCountsOnce ==
  [][HasTrip(device) /\ device'.trip.start = device.trip.start
       /\ HasStop(device) /\ ~HasStop(device')
     => device'.trip.stops = Capped(device.trip.stops + 1, StopsCap)]_vars

=============================================================================
