---------------------------- MODULE StateMachine ----------------------------
(***************************************************************************)
(* The pure core of trip and stop detection: StateMachineService of        *)
(* src/detection/services/state-machine.service.ts, as operators.  Nothing *)
(* here is a state: a device record and a position go in, the outcome of   *)
(* processPosition comes out.  Module TripDetection drives it.             *)
(*                                                                         *)
(* A device record holds                                                   *)
(*   state   motion state, "UNKNOWN" before the first position             *)
(*   since   stateStartTime                                                *)
(*   last    lastTimestamp                                                 *)
(*   newest  greatest timestamp in recentPositions                         *)
(*   avg     speedAvg30s against minMovingSpeed: "none", "low" or "high"   *)
(*   trip    the open trip or NoTrip                                       *)
(*   stop    the open stop or NoStop                                       *)
(* A position holds its timestamp ts, the distance move from the position  *)
(* before it, whether its reported speed reaches minMovingSpeed (fast) and *)
(* its ignition flag ign (undefined counts as FALSE, as in the code).      *)
(* Speeds matter only against minMovingSpeed, so averages are a class.     *)
(***************************************************************************)
EXTENDS Integers

CONSTANTS
  AvgWindow,             \* seconds averaged by speedAvg30s
  EffWindow,             \* the 300 s beyond which implied and average speed are ignored
  MinTripDuration,       \* thresholds.minTripDuration
  MinTripDistance,       \* thresholds.minTripDistance, also the confirmation distance
  MinStopDuration,       \* thresholds.minStopDuration
  MaxGapDuration,        \* thresholds.maxGapDuration
  OvernightGapDuration,  \* thresholds.maxOvernightGapDuration
  MaxIdleDuration,       \* thresholds.maxIdleDuration
  GapParkingMaxMove,     \* GAP_PARKING_MAX_MOVE_M
  NoiseDistance,         \* segments shorter than this may be dropped as GPS noise
  MoveRate,              \* minMovingSpeed as distance per unit of time
  MaxRate,               \* the 200 km/h limit as distance per unit of time
  ConfirmPositions,      \* positions after which a trip is announced (3)
  StopsCap               \* where the model stops counting tripStopsCount

(* What the defaults of motion-state.model.ts (148-161) guarantee about    *)
(* the thresholds, as far as the results below depend on it.               *)
ASSUME ThresholdAssumption ==
  /\ AvgWindow \in Nat /\ EffWindow \in Nat
  /\ MinTripDuration \in Nat /\ MinTripDistance \in Nat \ {0}
  /\ MinStopDuration \in Nat \ {0}
  /\ MaxGapDuration \in Nat /\ OvernightGapDuration \in Nat /\ MaxIdleDuration \in Nat
  /\ GapParkingMaxMove \in Nat /\ NoiseDistance \in Nat
  /\ MoveRate \in Nat /\ MaxRate \in Nat
  /\ ConfirmPositions \in Nat \ {0, 1} /\ StopsCap \in Nat
  /\ MinStopDuration <= MaxIdleDuration
  /\ MinStopDuration <= OvernightGapDuration
  /\ MaxGapDuration < OvernightGapDuration

-----------------------------------------------------------------------------
(* Data.  Only the fields some property or branch tells apart are kept.    *)

MotionStates == {"STOPPED", "IDLE", "MOVING"}
Stationary   == {"STOPPED", "IDLE"}
SpeedClasses == {"none", "low", "high"}
ActionNames  == {"startTrip", "endTrip", "discardTrip", "startStop", "endStop"}

None   == -1        \* no timestamp
NoTrip == [start |-> None, dist |-> 0, count |-> 0, stops |-> 0, confirmed |-> FALSE]
NoStop == [start |-> None]

TripRecords == {NoTrip} \cup
  [start : Nat, dist : 0..MinTripDistance, count : 0..ConfirmPositions,
   stops : 0..StopsCap, confirmed : BOOLEAN]
StopRecords == {NoStop} \cup [start : Nat]

DeviceRecords ==
  [state : MotionStates \cup {"UNKNOWN"}, since : Nat, last : Nat, newest : Nat,
   avg : SpeedClasses, trip : TripRecords, stop : StopRecords]

\* getDeviceState finds nothing: the device has not reported yet.
Unseen == [state |-> "UNKNOWN", since |-> 0, last |-> 0, newest |-> 0,
           avg |-> "none", trip |-> NoTrip, stop |-> NoStop]

HasTrip(d) == d.trip.start # None
HasStop(d) == d.stop.start # None

Capped(n, cap) == IF n > cap THEN cap ELSE n

NewTrip(p) == [start |-> p.ts, dist |-> 0, count |-> Capped(1, ConfirmPositions),
               stops |-> 0, confirmed |-> FALSE]

OneMoreStop(trip) == [trip EXCEPT !.stops = Capped(@ + 1, StopsCap)]

-----------------------------------------------------------------------------
(* Motion state.                                                           *)

\* effectiveSpeed >= minMovingSpeed: the reported speed, or the one the GPS
\* displacement implies when the interval is short and the speed possible.
EffMoving(d, p) ==
  LET dt == p.ts - d.last
  IN  \/ p.fast
      \/ /\ 0 < dt /\ dt <= EffWindow
         /\ p.move > MoveRate * dt
         /\ p.move <= MaxRate * dt

\* The average is stale after EffWindow and absent after the first position.
AvgMoving(d, p) ==
  IF p.ts - d.last > EffWindow \/ d.avg = "none" THEN EffMoving(d, p)
  ELSE d.avg = "high"

\* First position: reported speed alone, IDLE only with a live ignition sensor.
FirstState(p, useIgnition) ==
  CASE useIgnition /\ ~p.ign -> "STOPPED"
    [] useIgnition /\ p.ign /\ ~p.fast -> "IDLE"
    [] ~useIgnition /\ ~p.fast -> "STOPPED"
    [] OTHER -> "MOVING"

DetermineState(d, p, useIgnition) ==
  LET eff  == EffMoving(d, p)
      mean == AvgMoving(d, p)
      rest == IF useIgnition THEN "IDLE" ELSE "STOPPED"
  IN  IF useIgnition /\ ~p.ign
      THEN IF eff /\ mean THEN "MOVING" ELSE "STOPPED"
      ELSE CASE eff /\ (mean \/ d.state \in Stationary) -> "MOVING"
             [] ~eff /\ ~mean -> rest
             [] OTHER -> d.state

-----------------------------------------------------------------------------
(* Bookkeeping of one position.                                            *)

\* The class speedAvg30s may take: the current effective speed alone when no
\* other buffered position is inside the window, otherwise either class.
NextAverages(d, p) ==
  IF d.newest < p.ts - AvgWindow
  THEN {IF EffMoving(d, p) THEN "high" ELSE "low"}
  ELSE {"low", "high"}

\* adjustedDistance of validateSegment: nothing for a bad interval or an
\* impossible speed, possibly nothing for a short slow segment (GPS noise).
AdjustedDistances(d, p) ==
  LET dt == p.ts - d.last
  IN  IF dt <= 0 \/ p.move > MaxRate * dt THEN {0}
      ELSE IF p.move < NoiseDistance /\ ~p.fast THEN {0, p.move}
      ELSE {p.move}

Extended(trip, adj) ==
  [trip EXCEPT !.dist  = Capped(@ + adj, MinTripDistance),
               !.count = Capped(@ + 1, ConfirmPositions)]

UpdateState(d, p, new, avg, adj) ==
  [d EXCEPT !.state  = new,
            !.since  = IF new # d.state THEN p.ts ELSE @,
            !.last   = p.ts,
            !.newest = IF p.ts > @ THEN p.ts ELSE @,
            !.avg    = avg,
            !.trip   = IF HasTrip(d) THEN Extended(@, adj) ELSE @]

-----------------------------------------------------------------------------
(* Which actions a position triggers.  u is the updated device.            *)

WorthKeeping(u, end) ==
  /\ end - u.trip.start >= MinTripDuration
  /\ u.trip.dist >= MinTripDistance

Verdict(u, end) == IF WorthKeeping(u, end) THEN "endTrip" ELSE "discardTrip"

Resumes(prev, u) == prev \in Stationary /\ u.state = "MOVING"

StopLasted(u) == IF HasStop(u) THEN u.last - u.stop.start ELSE 0

\* Mutant: every resumption begins a trip, however short the stop was.
BeginsTripAtEveryResume(prev, u) == Resumes(prev, u)

\* A short stop never segments: the trip goes on.
BeginsTrip(prev, u) ==
  Resumes(prev, u) /\ (~HasTrip(u) \/ StopLasted(u) >= MinStopDuration)

IdleTooLong(u) ==
  u.state = "IDLE" /\ HasTrip(u) /\ u.last - u.since >= MaxIdleDuration

\* Mutant: the parking threshold itself does not count.
ParkedLonger(u) ==
  /\ u.state = "STOPPED" /\ HasTrip(u) /\ HasStop(u)
  /\ u.last - u.stop.start > MinStopDuration

ParkedLong(u) ==
  /\ u.state = "STOPPED" /\ HasTrip(u) /\ HasStop(u)
  /\ u.last - u.stop.start >= MinStopDuration

\* Mutant: parking measures the trip up to now as well.
ClosingVerdictsNow(prev, u) ==
  {a \in {"endTrip", "discardTrip"} :
     /\ (BeginsTrip(prev, u) /\ HasTrip(u)) \/ IdleTooLong(u) \/ ParkedLong(u)
     /\ a = Verdict(u, u.last)}

\* Resuming and idling measure the trip up to now, parking up to the stop.
ClosingVerdicts(prev, u) ==
  {a \in {"endTrip", "discardTrip"} :
     \/ BeginsTrip(prev, u) /\ HasTrip(u) /\ a = Verdict(u, u.last)
     \/ IdleTooLong(u) /\ a = Verdict(u, u.last)
     \/ ParkedLong(u) /\ a = Verdict(u, u.stop.start)}

\* Mutant: a stop is ended only when the device was idling.
EndsStopFromIdle(prev, u) == prev = "IDLE" /\ u.state = "MOVING"

EndsStop(prev, u) ==
  \/ Resumes(prev, u) /\ HasStop(u)
  \/ prev = "IDLE" /\ u.state = "MOVING"

\* Mutant: every ignition toggle begins a stop.
BeginsStopAtEveryToggle(prev, u) ==
  \/ prev = "MOVING" /\ u.state \in Stationary
  \/ prev \in Stationary /\ u.state \in Stationary /\ prev # u.state

\* IDLE <-> STOPPED keeps the stop in progress and opens one only if missing.
BeginsStop(prev, u) ==
  \/ prev = "MOVING" /\ u.state \in Stationary
  \/ /\ prev \in Stationary /\ u.state \in Stationary /\ prev # u.state
     /\ ~HasStop(u)

DetermineActions(prev, u) ==
  ClosingVerdicts(prev, u)
    \cup {a \in {"startTrip"} : BeginsTrip(prev, u)}
    \cup {a \in {"endStop"}   : EndsStop(prev, u)}
    \cup {a \in {"startStop"} : BeginsStop(prev, u)}

Closes(acts) == "endTrip" \in acts \/ "discardTrip" \in acts

-----------------------------------------------------------------------------
(* Gaps without data.  handleLargeGap runs for gaps above MaxGapDuration;  *)
(* below OvernightGapDuration it decides exactly as the normal flow does.  *)

\* Mutant: every large gap is taken for a night.
OvernightFromMaxGap(d, p) == p.ts - d.last > MaxGapDuration

Overnight(d, p) ==
  p.ts - d.last > MaxGapDuration /\ p.ts - d.last >= OvernightGapDuration

\* An open trip does not survive the night even without a stop.
ForcedClosure(d, p, u, acts) ==
  {a \in {Verdict(u, d.last)} :
     /\ Overnight(d, p) /\ HasTrip(u)
     /\ ~Closes(acts) /\ "startTrip" \notin acts}

\* Mutant: the silence becomes a stop beside the one in progress.
SilentStopRegardless(d, p) == Overnight(d, p) /\ p.move <= GapParkingMaxMove

\* Silence of a device that was moving and reappears close by was a stop.
SilentStop(d, p) ==
  Overnight(d, p) /\ ~HasStop(d) /\ p.move <= GapParkingMaxMove

HandleLargeGap(d, p, u, acts) ==
  acts \cup ForcedClosure(d, p, u, acts)
       \cup {a \in {"startStop"} : SilentStop(d, p) /\ u.state \in Stationary}

\* The silent stop is published closed at once when the device resumes moving.
ClosedGapStop(d, p, u) == SilentStop(d, p) /\ u.state = "MOVING"

-----------------------------------------------------------------------------
(* Applying the actions: what the state machine hands to the processor.    *)

\* Mutant: a stop in progress is asked before the overnight gap.
TripEndStopFirst(d, p, u) ==
  IF HasStop(u) THEN u.stop.start
  ELSE IF Overnight(d, p) THEN d.last
  ELSE u.last

\* A trip closed by an overnight gap ends with the last report before it, one
\* closed by a stop ends where the stop began, any other one ends now.
TripEnd(d, p, u) ==
  IF Overnight(d, p) THEN d.last
  ELSE IF HasStop(u) THEN u.stop.start
  ELSE u.last

StopStart(d, p) == IF SilentStop(d, p) THEN d.last ELSE p.ts

\* New trip first, then one more stop for the trip now current, then the stop.
ApplyTransition(d, p, u, acts) ==
  LET trip == IF "startTrip" \in acts THEN NewTrip(p) ELSE u.trip
  IN  [u EXCEPT
         !.trip = IF "endStop" \in acts /\ HasStop(u) /\ trip.start # None
                  THEN OneMoreStop(trip) ELSE trip,
         !.stop = IF "startStop" \in acts THEN [start |-> StopStart(d, p)] ELSE @]

(* Outcome of processPosition: the device to save, the actions, the trip   *)
(* and stop those actions close, when the trip ended, and whether a gap    *)
(* stop is published already closed.                                       *)
FirstPosition(d, p, useIgnition) ==
  LET state == FirstState(p, useIgnition)
      moves == state = "MOVING"
  IN  [acts    |-> IF moves THEN {"startTrip"} ELSE {"startStop"},
       trip    |-> NoTrip,
       stop    |-> NoStop,
       tripEnd |-> None,
       gapStop |-> FALSE,
       device  |-> [state |-> state, since |-> p.ts, last |-> p.ts, newest |-> p.ts,
                    avg |-> "none",
                    trip |-> IF moves THEN NewTrip(p) ELSE NoTrip,
                    stop |-> IF moves THEN NoStop ELSE [start |-> p.ts]]]

NextPosition(d, p, useIgnition, avg, adj) ==
  LET u    == UpdateState(d, p, DetermineState(d, p, useIgnition), avg, adj)
      acts == HandleLargeGap(d, p, u, DetermineActions(d.state, u))
  IN  [acts    |-> acts,
       trip    |-> u.trip,
       stop    |-> u.stop,
       tripEnd |-> TripEnd(d, p, u),
       gapStop |-> ClosedGapStop(d, p, u),
       device  |-> ApplyTransition(d, p, u, acts)]

\* Every outcome the averages and the noise filter allow for this position.
Outcomes(d, p, useIgnition) ==
  IF d.state = "UNKNOWN" THEN {FirstPosition(d, p, useIgnition)}
  ELSE {NextPosition(d, p, useIgnition, avg, adj) :
          avg \in NextAverages(d, p), adj \in AdjustedDistances(d, p)}

=============================================================================
