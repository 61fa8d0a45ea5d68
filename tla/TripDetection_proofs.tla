------------------------ MODULE TripDetection_proofs ------------------------
(***************************************************************************)
(* Theorems about TripDetection, for every value of its constants allowed  *)
(* by ThresholdAssumption and InputAssumption.  The argument:              *)
(*   1. the lemmas of StateMachine_proofs say which actions a position     *)
(*      triggers and what applying them does to the open trip and stop;    *)
(*   2. StepLemma condenses one ProcessPosition step into the predicate    *)
(*      Advance, free of action sets and record updates;                   *)
(*   3. each invariant then follows from Advance by arithmetic.            *)
(***************************************************************************)
EXTENDS TripDetection, StateMachine_proofs

USE ThresholdAssumption, InputAssumption

-----------------------------------------------------------------------------
(* One position of a device that reported before.                          *)

TripCloses(p, u) ==
  \/ BeginsTrip(device.state, u) /\ HasTrip(u)
  \/ IdleTooLong(u) \/ ParkedLong(u)
  \/ Overnight(device, p) /\ HasTrip(u)

StopOpens(p, u) ==
  BeginsStop(device.state, u) \/ (SilentStop(device, p) /\ u.state \in Stationary)

StopEnds(u) == EndsStop(device.state, u) /\ HasStop(u)

\* The step in terms of the updated device u alone.
Advance(p, u) ==
  /\ u.state \in MotionStates /\ u.last = p.ts /\ u.stop = device.stop
  /\ u.since = IF u.state # device.state THEN p.ts ELSE device.since
  /\ u.trip.start = device.trip.start
  /\ device'.state = u.state /\ device'.last = p.ts /\ device'.since = u.since
  /\ device'.trip.start = IF BeginsTrip(device.state, u) THEN p.ts
                          ELSE IF TripCloses(p, u) THEN None ELSE device.trip.start
  /\ device'.stop.start = IF StopOpens(p, u) THEN StopStart(device, p)
                          ELSE IF StopEnds(u) THEN None ELSE device.stop.start
  /\ tripEnd' = IF TripCloses(p, u) THEN TripEnd(device, p, u) ELSE tripEnd
  /\ stopEnd' = IF StopEnds(u)
                THEN IF p.ts < device.stop.start THEN device.stop.start ELSE p.ts
                ELSE IF ClosedGapStop(device, p, u) THEN p.ts ELSE stopEnd
  /\ outcome' # "none" <=> TripCloses(p, u)

\* Every outcome for a device that reported before is an Advance.
LEMMA NextPositionFacts ==
  ASSUME TypeOK, device.state # "UNKNOWN", NEW p \in Positions,
         NEW avg \in SpeedClasses, NEW adj \in Nat, NEW r,
         r = NextPosition(device, p, sensor', avg, adj),
         device' = [r.device EXCEPT !.trip = TripAfterActions(r),
                                    !.stop = StopAfterActions(r)],
         outcome' = OutcomeOf(r),
         tripEnd' = IF Closes(r.acts) THEN r.tripEnd ELSE tripEnd,
         stopEnd' = IF EndsOpenStop(r) THEN StopEndOf(r, p)
                    ELSE IF r.gapStop THEN p.ts ELSE stopEnd
  PROVE  device' \in DeviceRecords /\ \E u \in DeviceRecords : Advance(p, u)
<1> DEFINE new == DetermineState(device, p, sensor')
           u == UpdateState(device, p, new, avg, adj)
           acts == HandleLargeGap(device, p, u, DetermineActions(device.state, u))
           a == ApplyTransition(device, p, u, acts)
<1>1. device \in DeviceRecords /\ new \in MotionStates /\ p.ts \in Nat
  BY StateTyped DEF TypeOK, DeviceRecords, Positions
<1>2. /\ u \in DeviceRecords
      /\ u.state = new /\ u.last = p.ts /\ u.stop = device.stop
      /\ u.since = IF new # device.state THEN p.ts ELSE device.since
      /\ u.trip.start = device.trip.start
  BY <1>1, UpdateFacts
<1>3. /\ r.acts = acts /\ r.trip = u.trip /\ r.stop = u.stop
      /\ r.tripEnd = TripEnd(device, p, u) /\ r.gapStop = ClosedGapStop(device, p, u)
      /\ r.device = a
  BY DEF NextPosition
<1> HIDE DEF new, u
<1>4. /\ acts \in SUBSET ActionNames
      /\ "startTrip" \in acts <=> BeginsTrip(device.state, u)
      /\ "endStop" \in acts <=> EndsStop(device.state, u)
      /\ "startStop" \in acts <=> StopOpens(p, u)
      /\ Closes(acts) <=> TripCloses(p, u)
  BY ActionFacts DEF StopOpens, TripCloses
<1> HIDE DEF acts, a
<1>5. /\ a \in DeviceRecords
      /\ a.state = u.state /\ a.since = u.since /\ a.last = u.last
      /\ a.trip.start = IF "startTrip" \in acts THEN p.ts ELSE u.trip.start
      /\ a.stop = IF "startStop" \in acts THEN StopStarted(device, p) ELSE u.stop
  <2>1. TransitionApplied(device, p, u, acts, ApplyTransition(device, p, u, acts))
    BY <1>1, <1>2, <1>4, ApplyFacts
  <2> QED BY <2>1 DEF TransitionApplied, a
<1>6. /\ TripAfterActions(r) \in TripRecords
      /\ TripAfterActions(r).start =
           IF Closes(acts) /\ "startTrip" \notin acts THEN None ELSE a.trip.start
      /\ StopAfterActions(r) \in StopRecords
  BY <1>3, <1>5, ActionsKeepStarts DEF DeviceRecords
<1>7. /\ device' \in DeviceRecords
      /\ device'.state = a.state /\ device'.since = a.since /\ device'.last = a.last
      /\ device'.trip = TripAfterActions(r) /\ device'.stop = StopAfterActions(r)
  BY <1>3, <1>5, <1>6 DEF DeviceRecords
<1>8. EndsOpenStop(r) <=> StopEnds(u)
  BY <1>3, <1>4 DEF EndsOpenStop, StopEnds, HasStop
<1>9. device'.trip.start = IF BeginsTrip(device.state, u) THEN p.ts
                           ELSE IF TripCloses(p, u) THEN None ELSE device.trip.start
  BY <1>2, <1>4, <1>5, <1>6, <1>7
<1>10. device'.stop.start = IF StopOpens(p, u) THEN StopStart(device, p)
                            ELSE IF StopEnds(u) THEN None ELSE device.stop.start
  BY <1>2, <1>3, <1>4, <1>5, <1>7, <1>8 DEF StopAfterActions, StopStarted, NoStop
<1>11. /\ tripEnd' = IF TripCloses(p, u) THEN TripEnd(device, p, u) ELSE tripEnd
       /\ stopEnd' = IF StopEnds(u)
                     THEN IF p.ts < device.stop.start THEN device.stop.start ELSE p.ts
                     ELSE IF ClosedGapStop(device, p, u) THEN p.ts ELSE stopEnd
  BY <1>2, <1>3, <1>4, <1>8 DEF StopEndOf
<1>12. outcome' # "none" <=> TripCloses(p, u)
  <2>1. Closes(acts) <=> outcome' # "none"
    BY <1>3 DEF OutcomeOf, Closes
  <2> QED BY <2>1, <1>4
<1>13. Advance(p, u)
  BY <1>1, <1>2, <1>5, <1>7, <1>9, <1>10, <1>11, <1>12 DEF Advance
<1> QED BY <1>2, <1>7, <1>13

-----------------------------------------------------------------------------
(* The first position, and any position.                                   *)

Appears(p) ==
  /\ device'.state \in MotionStates /\ device'.last = p.ts /\ device'.since = p.ts
  /\ device'.trip.start = IF device'.state = "MOVING" THEN p.ts ELSE None
  /\ device'.stop.start = IF device'.state = "MOVING" THEN None ELSE p.ts
  /\ tripEnd' = tripEnd /\ stopEnd' = stopEnd /\ outcome' = "none"

\* handleFirstPosition (303-395) opens a trip or a stop and closes nothing.
LEMMA FirstPositionFacts ==
  ASSUME NEW p \in Positions, NEW r,
         r = FirstPosition(device, p, sensor'),
         device' = [r.device EXCEPT !.trip = TripAfterActions(r),
                                    !.stop = StopAfterActions(r)],
         outcome' = OutcomeOf(r),
         tripEnd' = IF Closes(r.acts) THEN r.tripEnd ELSE tripEnd,
         stopEnd' = IF EndsOpenStop(r) THEN StopEndOf(r, p)
                    ELSE IF r.gapStop THEN p.ts ELSE stopEnd
  PROVE  device' \in DeviceRecords /\ Appears(p)
<1> DEFINE new == FirstState(p, sensor')
<1>1. new \in MotionStates /\ p.ts \in Nat
  BY DEF FirstState, MotionStates, Positions
<1>2. /\ r.acts = IF new = "MOVING" THEN {"startTrip"} ELSE {"startStop"}
      /\ ~r.gapStop
      /\ r.device.state = new /\ r.device.since = p.ts /\ r.device.last = p.ts
      /\ r.device.trip = IF new = "MOVING" THEN NewTrip(p) ELSE NoTrip
      /\ r.device.stop = IF new = "MOVING" THEN NoStop ELSE [start |-> p.ts]
  BY DEF FirstPosition
<1>3. r.device \in DeviceRecords
  <2>1. r.device = [state |-> new, since |-> p.ts, last |-> p.ts, newest |-> p.ts,
                    avg |-> "none", trip |-> r.device.trip, stop |-> r.device.stop]
    BY DEF FirstPosition
  <2>2. r.device.trip \in TripRecords /\ r.device.stop \in StopRecords
    BY <1>1, <1>2, NewTripFacts DEF TripRecords, StopRecords
  <2> HIDE DEF new
  <2> QED BY <1>1, <2>1, <2>2, NewTripFacts DEF DeviceRecords, SpeedClasses
<1> HIDE DEF new
<1>4. ~Closes(r.acts) /\ ~EndsOpenStop(r)
  BY <1>2 DEF Closes, EndsOpenStop
<1>5. /\ TripAfterActions(r) \in TripRecords
      /\ TripAfterActions(r).start = r.device.trip.start
      /\ StopAfterActions(r) = r.device.stop
  BY <1>3, <1>4, ActionsKeepStarts DEF DeviceRecords, StopAfterActions
<1>6. /\ device' \in DeviceRecords
      /\ device'.state = new /\ device'.since = p.ts /\ device'.last = p.ts
      /\ device'.trip.start = r.device.trip.start
      /\ device'.stop = r.device.stop
  BY <1>2, <1>3, <1>5 DEF DeviceRecords
<1>7. /\ device'.trip.start = IF new = "MOVING" THEN p.ts ELSE None
      /\ device'.stop.start = IF new = "MOVING" THEN None ELSE p.ts
  BY <1>1, <1>2, <1>6, NewTripFacts DEF NoTrip, NoStop
<1>8. tripEnd' = tripEnd /\ stopEnd' = stopEnd /\ outcome' = "none"
  BY <1>2, <1>4 DEF OutcomeOf
<1> QED BY <1>1, <1>6, <1>7, <1>8 DEF Appears

\* What one handled position does, and all that the theorems below use of it.
LEMMA StepLemma ==
  ASSUME TypeOK, NEW p \in Positions, ProcessPosition(p)
  PROVE  /\ device' \in DeviceRecords /\ sensor' \in BOOLEAN /\ outcome' \in Outcome
         /\ p.ts \in Nat \ {0} /\ p.ts \in Times
         /\ LatePositions \/ p.ts > device.last
         /\ \/ device.state = "UNKNOWN" /\ Appears(p)
            \/ device.state \in MotionStates /\ \E u \in DeviceRecords : Advance(p, u)
<1>1. PICK r \in Outcomes(device, p, sensor') :
        /\ device' = [r.device EXCEPT !.trip = TripAfterActions(r),
                                      !.stop = StopAfterActions(r)]
        /\ outcome' = OutcomeOf(r)
        /\ tripEnd' = IF Closes(r.acts) THEN r.tripEnd ELSE tripEnd
        /\ stopEnd' = IF EndsOpenStop(r) THEN StopEndOf(r, p)
                      ELSE IF r.gapStop THEN p.ts ELSE stopEnd
  BY DEF ProcessPosition
<1>2. outcome' \in Outcome
  BY <1>1 DEF OutcomeOf, Outcome
<1>3. p.ts \in Nat \ {0} /\ p.ts \in Times /\ p.move \in Nat /\ p.ign \in BOOLEAN
  BY DEF Positions
<1>4. sensor' \in BOOLEAN
  BY <1>3 DEF ProcessPosition, TypeOK
<1>5. LatePositions \/ p.ts > device.last
  BY DEF ProcessPosition, NotThrottled
<1>6. device.state \in MotionStates \cup {"UNKNOWN"}
  BY DEF TypeOK, DeviceRecords
<1>7. CASE device.state = "UNKNOWN"
  <2>1. r = FirstPosition(device, p, sensor')
    BY <1>1, <1>7 DEF Outcomes
  <2>2. device' \in DeviceRecords /\ Appears(p)
    BY <1>1, <2>1, FirstPositionFacts
  <2> QED BY <1>2, <1>3, <1>4, <1>5, <1>7, <2>2
<1>8. CASE device.state # "UNKNOWN"
  <2>1. PICK avg \in NextAverages(device, p), adj \in AdjustedDistances(device, p) :
          r = NextPosition(device, p, sensor', avg, adj)
    BY <1>1, <1>8 DEF Outcomes
  <2>2. avg \in SpeedClasses
    BY <2>1 DEF NextAverages, SpeedClasses
  <2>3. adj \in Nat
    BY <1>3, <2>1 DEF AdjustedDistances
  <2>4. device' \in DeviceRecords /\ \E u \in DeviceRecords : Advance(p, u)
    BY <1>1, <1>8, <2>1, <2>2, <2>3, NextPositionFacts
  <2> QED BY <1>2, <1>3, <1>4, <1>5, <1>6, <1>8, <2>4
<1> QED BY <1>7, <1>8

-----------------------------------------------------------------------------
(* Typing and standing: they hold however late positions arrive.           *)

\* The facts about the values Advance combines.
LEMMA Timestamps ==
  ASSUME TypeOK, NEW p \in Positions, NEW u \in DeviceRecords, Advance(p, u)
  PROVE  /\ device.last \in Nat /\ device.since \in Nat /\ u.since \in Nat
         /\ device.trip.start \in Nat \cup {None} /\ device.stop.start \in Nat \cup {None}
         /\ None = -1
         /\ HasStop(u) <=> HasStop(device)
         /\ HasTrip(u) <=> HasTrip(device)
BY DEF TypeOK, DeviceRecords, TripRecords, StopRecords, NoTrip, NoStop, None, Advance,
       HasStop, HasTrip

LEMMA TypeStep ==
  ASSUME TypeOK, [Next]_vars
  PROVE  TypeOK'
<1>1. ASSUME NEW p \in Positions, ProcessPosition(p) PROVE TypeOK'
  <2>1. /\ device' \in DeviceRecords /\ sensor' \in BOOLEAN /\ outcome' \in Outcome
        /\ p.ts \in Nat
    BY <1>1, StepLemma
  <2>2. CASE Appears(p)
    BY <2>1, <2>2 DEF Appears, TypeOK
  <2>3. ASSUME NEW u \in DeviceRecords, Advance(p, u) PROVE TypeOK'
    <3>1. tripEnd' \in Nat \cup {None}
      BY <2>1, <2>3, Timestamps DEF Advance, TripEnd, HasStop, TypeOK
    <3>2. stopEnd' \in Nat \cup {None}
      BY <2>1, <2>3, Timestamps DEF Advance, StopEnds, HasStop, TypeOK
    <3> QED BY <2>1, <3>1, <3>2 DEF TypeOK
  <2> QED BY <1>1, <2>2, <2>3, StepLemma
<1>2. CASE SensorExpires
  BY <1>2 DEF SensorExpires, TypeOK, Outcome
<1>3. CASE UNCHANGED vars
  BY <1>3 DEF vars, TypeOK
<1> QED BY <1>1, <1>2, <1>3 DEF Next

LEMMA InitTyped == Init => TypeOK
<1> SUFFICES ASSUME Init PROVE TypeOK
  OBVIOUS
<1>1. NoTrip \in TripRecords /\ NoStop \in StopRecords
  BY DEF TripRecords, StopRecords
<1>2. Unseen \in DeviceRecords
  BY <1>1 DEF DeviceRecords, Unseen, SpeedClasses
<1> QED BY <1>2 DEF Init, TypeOK, Outcome

\* Every saved device state and every published end has the type its readers
\* expect, whatever the order of the positions.
THEOREM TypesArePreserved == Spec => []TypeOK
<1> QED BY InitTyped, TypeStep, PTL DEF Spec

Standing == StopOpenIffStanding /\ ParkedTripIsClosed

LEMMA StandingAdvance ==
  ASSUME TypeOK, StopOpenIffStanding, device.state \in MotionStates,
         NEW p \in Positions, NEW u \in DeviceRecords, Advance(p, u), p.ts \in Nat
  PROVE  Standing'
<1>1. HasStop(device) <=> device.state \in Stationary
  BY DEF StopOpenIffStanding, MotionStates
<1>2. StopStart(device, p) \in Nat
  BY Timestamps DEF StopStart
<1>3. StopOpens(p, u) => u.state \in Stationary
  BY DEF StopOpens, BeginsStop
<1>4. StopEnds(u) <=> device.state \in Stationary /\ u.state = "MOVING"
  BY <1>1, Timestamps DEF StopEnds, EndsStop, Resumes, Stationary
<1>5. device.state = "MOVING" /\ u.state \in Stationary => StopOpens(p, u)
  BY DEF StopOpens, BeginsStop
<1>6. HasStop(device)' <=> u.state \in Stationary
  BY <1>1, <1>2, <1>3, <1>4, <1>5, Timestamps DEF Advance, HasStop, MotionStates, Stationary
<1>7. StopOpenIffStanding'
  BY <1>6 DEF StopOpenIffStanding, Advance
<1>8. HasStop(device) => ~StopOpens(p, u)
  BY <1>1, Timestamps DEF StopOpens, BeginsStop, SilentStop, Stationary
<1>9. CASE u.state = "STOPPED" /\ device'.last - device'.stop.start >= MinStopDuration
  <2>1. TripCloses(p, u) \/ ~HasTrip(u)
    <3>1. CASE StopOpens(p, u)
      BY <1>9, <3>1, Timestamps DEF Advance, StopStart, SilentStop, TripCloses
    <3>2. CASE ~StopOpens(p, u)
      <4>1. device'.stop.start = device.stop.start
        BY <1>4, <1>9, <3>2 DEF Advance
      <4>2. HasStop(u)
        BY <1>1, <1>5, <1>9, <3>2, Timestamps DEF MotionStates, Stationary
      <4> QED BY <1>9, <4>1, <4>2 DEF Advance, TripCloses, ParkedLong
    <3> QED BY <3>1, <3>2
  <2>2. ~BeginsTrip(device.state, u)
    BY <1>9 DEF BeginsTrip, Resumes
  <2>3. device'.trip.start = None
    BY <2>1, <2>2 DEF Advance, HasTrip
  <2> QED BY <1>7, <1>9, <2>3 DEF Standing, ParkedTripIsClosed, HasTrip, Advance
<1>10. CASE u.state = "IDLE" /\ device'.last - device'.since >= MaxIdleDuration
  <2>1. IdleTooLong(u) \/ ~HasTrip(u)
    BY <1>10 DEF IdleTooLong, Advance
  <2>2. ~BeginsTrip(device.state, u)
    BY <1>10 DEF BeginsTrip, Resumes
  <2>3. device'.trip.start = None
    BY <2>1, <2>2 DEF Advance, HasTrip, TripCloses
  <2> QED BY <1>7, <1>10, <2>3 DEF Standing, ParkedTripIsClosed, HasTrip, Advance
<1> QED BY <1>7, <1>9, <1>10 DEF Standing, ParkedTripIsClosed, Advance

LEMMA StandingStep ==
  ASSUME TypeOK, Standing, [Next]_vars
  PROVE  Standing'
<1>1. ASSUME NEW p \in Positions, ProcessPosition(p) PROVE Standing'
  <2>1. p.ts \in Nat \ {0}
    BY <1>1, StepLemma
  <2>2. CASE Appears(p)
    BY <2>1, <2>2 DEF Appears, Standing, StopOpenIffStanding, ParkedTripIsClosed,
       HasStop, HasTrip, MotionStates, Stationary, None
  <2>3. ASSUME device.state \in MotionStates, NEW u \in DeviceRecords, Advance(p, u)
        PROVE  Standing'
    BY <2>1, <2>3, StandingAdvance DEF Standing
  <2> QED BY <1>1, <2>2, <2>3, StepLemma
<1>2. CASE SensorExpires
  BY <1>2 DEF SensorExpires, Standing, StopOpenIffStanding, ParkedTripIsClosed, HasStop, HasTrip
<1>3. CASE UNCHANGED vars
  BY <1>3 DEF vars, Standing, StopOpenIffStanding, ParkedTripIsClosed, HasStop, HasTrip
<1> QED BY <1>1, <1>2, <1>3 DEF Next

LEMMA InitStanding == Init => Standing
BY DEF Init, Unseen, Standing, StopOpenIffStanding, ParkedTripIsClosed

\* A stop is open exactly while the device stands.
THEOREM StandingDevicesHaveStops == Spec => []StopOpenIffStanding
<1>1. Init => TypeOK /\ Standing
  BY InitTyped, InitStanding
<1>2. TypeOK /\ Standing /\ [Next]_vars => (TypeOK /\ Standing)'
  BY TypeStep, StandingStep
<1>3. Standing => StopOpenIffStanding
  BY DEF Standing
<1> QED BY <1>1, <1>2, <1>3, PTL DEF Spec

\* A standing device keeps the stop it has: it opens one only when it has none,
\* and ends one only by moving.
THEOREM StandingDevicesKeepTheirStop == Spec => StandingKeepsItsStop
<1> DEFINE Kept == device.state \in Stationary /\ device'.state \in Stationary
                     => device'.stop.start = device.stop.start
<1>1. ASSUME TypeOK, Standing, NEW p \in Positions, ProcessPosition(p) PROVE Kept
  <2>1. CASE device.state = "UNKNOWN"
    BY <2>1 DEF Stationary
  <2>2. ASSUME device.state \in MotionStates, NEW u \in DeviceRecords, Advance(p, u)
        PROVE  Kept
    <3> SUFFICES ASSUME device.state \in Stationary, device'.state \in Stationary
                 PROVE  device'.stop.start = device.stop.start
      OBVIOUS
    <3>1. HasStop(device)
      BY <1>1 DEF Standing, StopOpenIffStanding, Stationary
    <3>2. u.state \in Stationary /\ u.stop = device.stop
      BY <2>2 DEF Advance
    <3>3. ~StopOpens(p, u)
      BY <3>1, <3>2 DEF StopOpens, BeginsStop, SilentStop, HasStop, Stationary
    <3>4. ~StopEnds(u)
      BY <3>2 DEF StopEnds, EndsStop, Resumes, Stationary
    <3> QED BY <2>2, <3>3, <3>4 DEF Advance
  <2> QED BY <1>1, <2>1, <2>2, StepLemma DEF Appears
<1>2. ASSUME TypeOK, Standing, [Next]_vars PROVE [Kept]_vars
  BY <1>1, <1>2 DEF Next, SensorExpires, vars
<1>3. Init => TypeOK /\ Standing
  BY InitTyped, InitStanding
<1>4. TypeOK /\ Standing /\ [Next]_vars => (TypeOK /\ Standing)'
  BY TypeStep, StandingStep
<1> QED BY <1>2, <1>3, <1>4, PTL DEF Spec, StandingKeepsItsStop

\* The trip of a device that parked or idled long enough is closed.
THEOREM ParkingClosesTrips == Spec => []ParkedTripIsClosed
<1>1. Init => TypeOK /\ Standing
  BY InitTyped, InitStanding
<1>2. TypeOK /\ Standing /\ [Next]_vars => (TypeOK /\ Standing)'
  BY TypeStep, StandingStep
<1>3. Standing => ParkedTripIsClosed
  BY DEF Standing
<1> QED BY <1>1, <1>2, <1>3, PTL DEF Spec

-----------------------------------------------------------------------------
(* What is published: it holds however late positions arrive.              *)

\* A device never seen has no trip to announce the end of.
UnseenIsEmpty == device.state = "UNKNOWN" => device.trip = NoTrip

LEMMA SettledStep ==
  ASSUME TypeOK, UnseenIsEmpty, NEW p \in Positions, ProcessPosition(p)
  PROVE  /\ device.trip.confirmed /\ device'.trip.start # device.trip.start
              => outcome' \in {"completed", "discarded"}
         /\ outcome' = "discarded" => device.trip.confirmed
         /\ UnseenIsEmpty'
<1>1. PICK r \in Outcomes(device, p, sensor') :
        /\ device' = [r.device EXCEPT !.trip = TripAfterActions(r),
                                      !.stop = StopAfterActions(r)]
        /\ outcome' = OutcomeOf(r)
  BY DEF ProcessPosition
<1>2. device \in DeviceRecords /\ p.ts \in Nat /\ p.move \in Nat
  BY DEF TypeOK, Positions
<1>3. /\ r.device \in DeviceRecords /\ r.device.state # "UNKNOWN"
      /\ TripCarriedOver(device, p, r)
  BY <1>2, OutcomeFacts DEF UnseenIsEmpty
<1>4. TripAfterActions(r).start = IF Closes(r.acts) /\ "startTrip" \notin r.acts THEN None
                                  ELSE r.device.trip.start
  BY <1>3, ActionsKeepStarts DEF DeviceRecords
<1>5. /\ device'.state = r.device.state
      /\ device'.trip.start = TripAfterActions(r).start
  BY <1>1, <1>3 DEF DeviceRecords
<1>6. device.trip.confirmed => device.trip.start # None
  BY <1>2 DEF DeviceRecords, TripRecords, NoTrip, None
<1>7. device.trip.confirmed /\ device'.trip.start # device.trip.start => Closes(r.acts)
  BY <1>3, <1>4, <1>5, <1>6 DEF TripCarriedOver
<1>8. /\ Closes(r.acts) /\ r.trip.confirmed => OutcomeOf(r) \in {"completed", "discarded"}
      /\ OutcomeOf(r) = "discarded" => r.trip.confirmed
  BY DEF OutcomeOf, Closes
<1> QED BY <1>1, <1>3, <1>5, <1>7, <1>8 DEF TripCarriedOver, UnseenIsEmpty

LEMMA StopEndStep ==
  ASSUME TypeOK, NEW p \in Positions, ProcessPosition(p), stopEnd' # stopEnd, HasStop(device)
  PROVE  device.stop.start <= stopEnd'
<1>1. p.ts \in Nat
  BY StepLemma
<1>2. ~Appears(p)
  BY DEF Appears
<1>3. PICK u \in DeviceRecords : Advance(p, u)
  BY <1>2, StepLemma
<1>4. ~ClosedGapStop(device, p, u)
  BY DEF ClosedGapStop, SilentStop
<1>5. StopEnds(u)
  BY <1>3, <1>4 DEF Advance
<1>6. stopEnd' = IF p.ts < device.stop.start THEN device.stop.start ELSE p.ts
  BY <1>3, <1>5 DEF Advance
<1> QED BY <1>1, <1>3, <1>6, Timestamps DEF HasStop

LEMMA TypedAndSettled == Spec => [](TypeOK /\ UnseenIsEmpty)
<1>1. Init => UnseenIsEmpty
  BY DEF Init, Unseen, UnseenIsEmpty
<1>2. ASSUME TypeOK, UnseenIsEmpty, [Next]_vars PROVE UnseenIsEmpty'
  <2>1. ASSUME NEW p \in Positions, ProcessPosition(p) PROVE UnseenIsEmpty'
    BY <1>2, <2>1, SettledStep
  <2>2. CASE SensorExpires \/ UNCHANGED vars
    BY <1>2, <2>2 DEF SensorExpires, vars, UnseenIsEmpty
  <2> QED BY <1>2, <2>1, <2>2 DEF Next
<1> QED BY <1>1, <1>2, InitTyped, TypeStep, PTL DEF Spec

\* No announced trip is replaced or dropped without its end event, and no trip is
\* discarded in public that was not announced.
THEOREM AnnouncedTripsAreSettled == Spec => AnnouncedTripIsSettled
<1>1. ASSUME TypeOK, UnseenIsEmpty, [Next]_vars
      PROVE  [/\ device.trip.confirmed /\ device'.trip.start # device.trip.start
                   => outcome' \in {"completed", "discarded"}
              /\ outcome' = "discarded" => device.trip.confirmed]_vars
  <2>1. ASSUME NEW p \in Positions, ProcessPosition(p)
        PROVE  /\ device.trip.confirmed /\ device'.trip.start # device.trip.start
                    => outcome' \in {"completed", "discarded"}
               /\ outcome' = "discarded" => device.trip.confirmed
    BY <1>1, <2>1, SettledStep
  <2>2. CASE SensorExpires
    BY <2>2 DEF SensorExpires
  <2> QED BY <1>1, <2>1, <2>2 DEF Next
<1> QED BY <1>1, TypedAndSettled, PTL DEF Spec, AnnouncedTripIsSettled

\* A published stop does not end before the stop in progress began, also when the
\* position that ends it is late.
THEOREM StopsEndInOrder == Spec => StopsEndAfterBeginning
<1>1. ASSUME TypeOK, [Next]_vars
      PROVE  [stopEnd' # stopEnd /\ HasStop(device) => device.stop.start <= stopEnd']_vars
  <2>1. ASSUME NEW p \in Positions, ProcessPosition(p), stopEnd' # stopEnd, HasStop(device)
        PROVE  device.stop.start <= stopEnd'
    BY <1>1, <2>1, StopEndStep
  <2>2. CASE SensorExpires
    BY <2>2 DEF SensorExpires
  <2> QED BY <1>1, <2>1, <2>2 DEF Next
<1> QED BY <1>1, TypedAndSettled, PTL DEF Spec, StopsEndAfterBeginning

-----------------------------------------------------------------------------
(* Announcing and closing, in any order of arrival.                        *)

Earned(trip) ==
  trip.start # None /\ (trip.dist >= MinTripDistance \/ trip.count >= ConfirmPositions)

\* Finishing a stop changes neither what a trip earned nor its announcement.
LEMMA EarnedLater ==
  ASSUME NEW trip \in TripRecords, trip.start # None
  PROVE  /\ Earned(OneMoreStop(trip)) <=> Earned(trip)
         /\ OneMoreStop(trip).confirmed = trip.confirmed
<1>1. trip \in [start : Nat, dist : 0..MinTripDistance, count : 0..ConfirmPositions,
                stops : 0..StopsCap, confirmed : BOOLEAN]
  BY DEF TripRecords, NoTrip
<1> QED BY <1>1 DEF OneMoreStop, Earned

\* A trip one position old has earned nothing.
LEMMA NewTripEarnsNothing ==
  ASSUME NEW p, p.ts \in Nat
  PROVE  ~Earned(NewTrip(p)) /\ ~Earned(OneMoreStop(NewTrip(p)))
<1>1. Capped(1, ConfirmPositions) = 1
  BY DEF Capped
<1>2. ~Earned(NewTrip(p))
  BY <1>1 DEF NewTrip, Earned
<1> QED BY <1>2, NewTripFacts, EarnedLater

LEMMA EarnedStep ==
  ASSUME TypeOK, UnseenIsEmpty, NEW p \in Positions, ProcessPosition(p)
  PROVE  EarnedTripIsConfirmed'
<1>1. PICK r \in Outcomes(device, p, sensor') :
        device' = [r.device EXCEPT !.trip = TripAfterActions(r), !.stop = StopAfterActions(r)]
  BY DEF ProcessPosition
<1>2. device \in DeviceRecords /\ p.ts \in Nat /\ p.move \in Nat
  BY DEF TypeOK, Positions
<1>3. r.device \in DeviceRecords /\ r.device.trip \in TripRecords /\ r.device.stop \in StopRecords
  BY <1>2, OutcomeFacts DEF UnseenIsEmpty, DeviceRecords
<1>4. device'.trip = TripAfterActions(r)
  BY <1>1, <1>3 DEF DeviceRecords
<1>5. /\ Confirmed(r) \in TripRecords /\ TripAfterClosing(r) \in TripRecords
      /\ Confirmed(r).start = TripAfterClosing(r).start
  BY <1>3, ActionsKeepStarts
<1>6. "startTrip" \in r.acts => ~Earned(r.device.trip)
  <2>1. CASE device.state = "UNKNOWN"
    <3>1. r.device.trip \in {NewTrip(p), NoTrip}
      BY <2>1 DEF Outcomes, FirstPosition
    <3>2. ~Earned(NoTrip)
      BY DEF Earned, NoTrip
    <3> QED BY <1>2, <3>1, <3>2, NewTripEarnsNothing
  <2>2. CASE device.state # "UNKNOWN"
    <3>1. PICK avg \in NextAverages(device, p), adj \in AdjustedDistances(device, p) :
            r = NextPosition(device, p, sensor', avg, adj)
      BY <2>2 DEF Outcomes
    <3> DEFINE u == UpdateState(device, p, DetermineState(device, p, sensor'), avg, adj)
    <3>2. r.device = ApplyTransition(device, p, u, r.acts)
      BY <3>1 DEF NextPosition
    <3>3. u \in DeviceRecords
      <4>1. avg \in SpeedClasses /\ adj \in Nat
        BY <1>2 DEF NextAverages, SpeedClasses, AdjustedDistances
      <4>2. DetermineState(device, p, sensor') \in MotionStates
        BY <1>2, <2>2, StateTyped DEF DeviceRecords
      <4> QED BY <1>2, <4>1, <4>2, UpdateFacts
    <3> HIDE DEF u
    <3>4. "startTrip" \in r.acts => r.device.trip \in {NewTrip(p), OneMoreStop(NewTrip(p))}
      BY <3>2, <3>3 DEF ApplyTransition, DeviceRecords
    <3> QED BY <1>2, <3>4, NewTripEarnsNothing
  <2> QED BY <2>1, <2>2
<1>7. Earned(Confirmed(r)) => Confirmed(r).confirmed
  <2> DEFINE left == TripAfterClosing(r)
  <2>1. CASE Confirms(r)
    <3>1. left \in [start : Nat, dist : 0..MinTripDistance, count : 0..ConfirmPositions,
                    stops : 0..StopsCap, confirmed : BOOLEAN]
      BY <1>5, <2>1 DEF Confirms, TripRecords, NoTrip
    <3>2. Confirmed(r) = [left EXCEPT !.confirmed = TRUE]
      BY <2>1 DEF Confirmed
    <3> QED BY <3>1, <3>2
  <2>2. CASE ~Confirms(r)
    <3>1. Confirmed(r) = left
      BY <2>2 DEF Confirmed
    <3>2. Earned(left) => "startTrip" \notin r.acts
      BY <1>6 DEF TripAfterClosing, NoTrip, Earned
    <3> QED BY <2>2, <3>1, <3>2 DEF Confirms, Earned
  <2> QED BY <2>1, <2>2
<1>8. Earned(TripAfterActions(r)) => TripAfterActions(r).confirmed
  BY <1>5, <1>7, EarnedLater DEF TripAfterActions
<1> QED BY <1>4, <1>8 DEF EarnedTripIsConfirmed, Earned, HasTrip

\* Whoever waits for trip:started hears of every trip that is far or long enough.
THEOREM EarnedTripsAreConfirmed == Spec => []EarnedTripIsConfirmed
<1>1. Init => EarnedTripIsConfirmed
  BY DEF Init, Unseen, NoTrip, EarnedTripIsConfirmed, HasTrip
<1>2. ASSUME TypeOK, UnseenIsEmpty, EarnedTripIsConfirmed, [Next]_vars
      PROVE  EarnedTripIsConfirmed'
  <2>1. CASE SensorExpires \/ UNCHANGED vars
    BY <1>2, <2>1 DEF SensorExpires, vars, EarnedTripIsConfirmed, HasTrip
  <2> QED BY <1>2, <2>1, EarnedStep DEF Next
<1> QED BY <1>1, <1>2, TypedAndSettled, PTL DEF Spec

\* A device moves on without a trip only after a night, however late its
\* positions arrive.
THEOREM DriversHaveTripsExceptAfterNights == Spec => OnlyNightsLeaveDriversTripless
<1> DEFINE Kept ==
      device'.state = "MOVING" /\ ~HasTrip(device')
        => \/ device.state = "MOVING" /\ ~HasTrip(device)
           \/ device'.last - device.last >= OvernightGapDuration
<1>1. ASSUME TypeOK, Next PROVE [Kept]_vars
  <2>1. ASSUME NEW p \in Positions, ProcessPosition(p) PROVE Kept
    <3>1. p.ts \in Nat
      BY <1>1, <2>1, StepLemma
    <3>2. CASE Appears(p)
      BY <3>1, <3>2 DEF Appears, HasTrip, None
    <3>3. ASSUME device.state \in MotionStates, NEW u \in DeviceRecords, Advance(p, u),
                 device'.state = "MOVING", ~HasTrip(device'),
                 device.state # "MOVING" \/ HasTrip(device)
          PROVE  device'.last - device.last >= OvernightGapDuration
      <4>1. u.state = "MOVING" /\ device'.last = p.ts /\ ~BeginsTrip(device.state, u)
        BY <3>1, <3>3 DEF Advance, HasTrip, None
      <4>2. HasTrip(u)
        BY <1>1, <3>3, <4>1, Timestamps DEF BeginsTrip, Resumes, MotionStates, Stationary
      <4>3. TripCloses(p, u)
        BY <3>3, <4>1, <4>2 DEF Advance, HasTrip
      <4> QED BY <4>1, <4>3 DEF TripCloses, IdleTooLong, ParkedLong, Overnight
    <3> QED BY <1>1, <2>1, <3>2, <3>3, StepLemma
  <2>2. CASE SensorExpires
    BY <2>2 DEF SensorExpires, HasTrip
  <2> QED BY <1>1, <2>1, <2>2 DEF Next
<1>2. TypeOK /\ [Next]_vars => [Kept]_vars
  BY <1>1
<1>3. Spec => [][Kept]_vars
  BY <1>2, TypesArePreserved, PTL DEF Spec
<1> QED BY <1>3 DEF OnlyNightsLeaveDriversTripless

\* A standing device completes a trip only for having parked, or after a night.
LEMMA CompletedStanding ==
  ASSUME NEW d, NEW p, NEW u, u.state = "STOPPED", ~Overnight(d, p),
         "endTrip" \in HandleLargeGap(d, p, u, DetermineActions(d.state, u))
  PROVE  /\ u.stop.start - u.trip.start >= MinTripDuration
         /\ TripEnd(d, p, u) = u.stop.start
<1>1. "endTrip" \in ClosingVerdicts(d.state, u)
  BY DEF HandleLargeGap, ForcedClosure, DetermineActions
<1>2. ParkedLong(u) /\ Verdict(u, u.stop.start) = "endTrip"
  BY <1>1 DEF ClosingVerdicts, BeginsTrip, Resumes, IdleTooLong
<1> QED BY <1>2 DEF Verdict, WorthKeeping, ParkedLong, TripEnd

\* The trip of a vehicle that parked is completed with a duration of at least
\* minTripDuration, whatever the order of the positions.
THEOREM ParkedTripsAreKeptForLength == Spec => ParkedTripsAreLongEnough
<1> DEFINE Long ==
      outcome' = "completed" /\ device'.state = "STOPPED"
        => \/ tripEnd' - device.trip.start >= MinTripDuration
           \/ device'.last - device.last >= OvernightGapDuration
<1>1. ASSUME TypeOK, UnseenIsEmpty, NEW p \in Positions, ProcessPosition(p) PROVE Long
  <2> SUFFICES ASSUME outcome' = "completed", device'.state = "STOPPED"
               PROVE  \/ tripEnd' - device.trip.start >= MinTripDuration
                      \/ device'.last - device.last >= OvernightGapDuration
    OBVIOUS
  <2>1. PICK r \in Outcomes(device, p, sensor') :
          /\ device' = [r.device EXCEPT !.trip = TripAfterActions(r),
                                        !.stop = StopAfterActions(r)]
          /\ outcome' = OutcomeOf(r)
          /\ tripEnd' = IF Closes(r.acts) THEN r.tripEnd ELSE tripEnd
    BY <1>1 DEF ProcessPosition
  <2>2. "endTrip" \in r.acts /\ tripEnd' = r.tripEnd
    BY <2>1 DEF OutcomeOf, Closes
  <2>3. device \in DeviceRecords /\ p.ts \in Nat /\ p.move \in Nat
    BY <1>1 DEF TypeOK, Positions
  <2>4. device.state # "UNKNOWN"
    BY <2>1, <2>2 DEF Outcomes, FirstPosition
  <2>5. PICK avg \in NextAverages(device, p), adj \in AdjustedDistances(device, p) :
          r = NextPosition(device, p, sensor', avg, adj)
    BY <2>1, <2>4 DEF Outcomes
  <2>6. avg \in SpeedClasses /\ adj \in Nat /\ DetermineState(device, p, sensor') \in MotionStates
    BY <2>3, <2>4, <2>5, StateTyped DEF NextAverages, SpeedClasses, AdjustedDistances, DeviceRecords
  <2> DEFINE u == UpdateState(device, p, DetermineState(device, p, sensor'), avg, adj)
             acts == HandleLargeGap(device, p, u, DetermineActions(device.state, u))
  <2>7. u \in DeviceRecords /\ u.trip.start = device.trip.start /\ u.last = p.ts
    BY <2>3, <2>6, UpdateFacts
  <2>8. /\ r.acts = acts /\ r.tripEnd = TripEnd(device, p, u)
        /\ r.device = ApplyTransition(device, p, u, acts)
    BY <2>5 DEF NextPosition
  <2> HIDE DEF u
  <2>9. acts \in SUBSET ActionNames
    BY ActionFacts
  <2> HIDE DEF acts
  <2>10. /\ r.device \in DeviceRecords /\ r.device.state = u.state /\ r.device.last = u.last
    BY <2>3, <2>7, <2>8, <2>9, ApplyFacts DEF TransitionApplied
  <2>11. u.state = "STOPPED" /\ device'.last = p.ts
    BY <2>1, <2>7, <2>10 DEF DeviceRecords
  <2>12. CASE Overnight(device, p)
    BY <2>11, <2>12 DEF Overnight
  <2>13. CASE ~Overnight(device, p)
    <3>1. u.stop.start - u.trip.start >= MinTripDuration /\ TripEnd(device, p, u) = u.stop.start
      BY <2>2, <2>8, <2>11, <2>13, CompletedStanding DEF acts
    <3> QED BY <3>1, <2>2, <2>7, <2>8
  <2> QED BY <2>12, <2>13
<1>2. ASSUME TypeOK, UnseenIsEmpty, [Next]_vars PROVE [Long]_vars
  <2>1. CASE SensorExpires
    BY <2>1 DEF SensorExpires
  <2> QED BY <1>1, <1>2, <2>1 DEF Next
<1>3. Spec => [][Long]_vars
  BY <1>2, TypedAndSettled, PTL DEF Spec
<1> QED BY <1>3 DEF ParkedTripsAreLongEnough

-----------------------------------------------------------------------------
(* Order in time: positions arrive in order, so timestamps only grow.      *)

\* What the order of trips and stops rests on: the open intervals begin before
\* the motion state that goes on, and the closed ones are over.
Ordered ==
  /\ device.state = "UNKNOWN" =>
       device.trip.start = None /\ device.stop.start = None /\ tripEnd = None
  /\ device.since <= device.last
  /\ HasStop(device) => device.stop.start <= device.since
  /\ HasTrip(device) => device.trip.start <= device.last
  /\ stopEnd # None => stopEnd <= device.last
  /\ HasStop(device) /\ stopEnd # None => stopEnd <= device.stop.start
  /\ TripOpensBeforeStop
  /\ TripsAreSeparated

IInv == TypeOK /\ Standing /\ Ordered

\* A trip that closes did so after a stop of minStopDuration or a silence, and
\* its end lies between its beginning and the last report.
LEMMA ClosingFacts ==
  ASSUME IInv, device.state \in MotionStates, NEW p \in Positions, NEW u \in DeviceRecords,
         Advance(p, u), p.ts \in Nat, p.ts > device.last, TripCloses(p, u)
  PROVE  /\ HasTrip(device)
         /\ \/ /\ p.ts - device.last >= OvernightGapDuration
               /\ TripEnd(device, p, u) = device.last
            \/ /\ HasStop(device) /\ p.ts - device.stop.start >= MinStopDuration
               /\ TripEnd(device, p, u) = device.stop.start
         /\ device.trip.start <= TripEnd(device, p, u)
         /\ TripEnd(device, p, u) \in Nat
         /\ p.ts - TripEnd(device, p, u) >= MinStopDuration
<1>1. HasTrip(device)
  BY Timestamps DEF IInv, TripCloses, IdleTooLong, ParkedLong
<1>2. CASE Overnight(device, p)
  BY <1>1, <1>2, Timestamps DEF Overnight, TripEnd, IInv, Ordered
<1>3. CASE ~Overnight(device, p)
  <2>1. HasStop(u) /\ p.ts - device.stop.start >= MinStopDuration
    <3>1. CASE BeginsTrip(device.state, u) /\ HasTrip(u)
      BY <3>1, Timestamps DEF BeginsTrip, StopLasted, Advance, IInv
    <3>2. CASE ParkedLong(u)
      BY <3>2 DEF ParkedLong, Advance
    <3>3. CASE IdleTooLong(u)
      <4>1. u.state = device.state /\ p.ts - device.since >= MaxIdleDuration
        BY <3>3, Timestamps DEF IdleTooLong, Advance, IInv
      <4>2. HasStop(device) /\ device.stop.start <= device.since
        BY <3>3, <4>1 DEF IdleTooLong, IInv, Standing, StopOpenIffStanding, Ordered, Stationary
      <4> QED BY <4>1, <4>2, Timestamps DEF IInv, HasStop
    <3> QED BY <1>3, <3>1, <3>2, <3>3 DEF TripCloses
  <2>2. TripEnd(device, p, u) = device.stop.start
    BY <1>3, <2>1 DEF TripEnd, Advance
  <2>3. HasStop(device) /\ device.trip.start <= device.stop.start
    BY <1>1, <2>1, Timestamps DEF IInv, Ordered, TripOpensBeforeStop
  <2> QED BY <1>1, <2>1, <2>2, <2>3, Timestamps DEF IInv, HasStop
<1> QED BY <1>2, <1>3

\* No trip begins beside a stop, and one that begins ends that stop.
LEMMA OpeningFacts ==
  ASSUME IInv, device.state \in MotionStates, NEW p \in Positions, NEW u \in DeviceRecords,
         Advance(p, u), p.ts \in Nat, p.ts > device.last
  PROVE  /\ BeginsTrip(device.state, u) => device'.stop.start = None
         /\ BeginsTrip(device.state, u) /\ ~TripCloses(p, u) => ~HasTrip(device)
         /\ StopOpens(p, u) => ~HasStop(device) /\ ~StopEnds(u)
         /\ StopEnds(u) => HasStop(device) /\ stopEnd' = p.ts
         /\ ClosedGapStop(device, p, u) =>
              ~HasStop(device) /\ p.ts - device.last >= OvernightGapDuration
         /\ StopStart(device, p) = p.ts
              \/ (StopStart(device, p) = device.last
                    /\ p.ts - device.last >= OvernightGapDuration)
<1>1. HasStop(device) <=> device.state \in Stationary
  BY DEF IInv, Standing, StopOpenIffStanding, MotionStates
<1>2. StopOpens(p, u) => ~HasStop(device) /\ ~StopEnds(u) /\ u.state \in Stationary
  BY <1>1, Timestamps DEF IInv, StopOpens, BeginsStop, SilentStop, StopEnds, Stationary
<1>3. StopEnds(u) => HasStop(device) /\ stopEnd' = p.ts
  BY Timestamps DEF IInv, StopEnds, Advance, Ordered, HasStop
<1>4. BeginsTrip(device.state, u) => device'.stop.start = None
  BY <1>1, <1>2, Timestamps DEF IInv, BeginsTrip, Resumes, StopEnds, EndsStop, Advance, Stationary
<1>5. BeginsTrip(device.state, u) /\ ~TripCloses(p, u) => ~HasTrip(device)
  BY Timestamps DEF IInv, TripCloses
<1>6. ClosedGapStop(device, p, u) =>
        ~HasStop(device) /\ p.ts - device.last >= OvernightGapDuration
  BY DEF ClosedGapStop, SilentStop, Overnight
<1>7. \/ StopStart(device, p) = p.ts
      \/ /\ StopStart(device, p) = device.last
         /\ p.ts - device.last >= OvernightGapDuration
  BY DEF StopStart, SilentStop, Overnight
<1> QED BY <1>2, <1>3, <1>4, <1>5, <1>6, <1>7

LEMMA OrderedAdvance ==
  ASSUME IInv, device.state \in MotionStates, NEW p \in Positions, NEW u \in DeviceRecords,
         Advance(p, u), p.ts \in Nat, p.ts > device.last
  PROVE  Ordered'
<1> USE DEF HasTrip, HasStop, None
<1>1. device'.last = p.ts /\ device'.since <= p.ts
        /\ (u.state # device.state => device'.since = p.ts)
        /\ device.since <= device'.since
  BY Timestamps DEF IInv, Ordered, Advance
<1>2. device'.stop.start # None => device'.stop.start <= device'.since
  <2>1. CASE StopOpens(p, u)
    <3>1. u.state # device.state
      BY <2>1, OpeningFacts DEF StopOpens, BeginsStop, IInv, Standing, StopOpenIffStanding,
         MotionStates, Stationary
    <3> QED BY <1>1, <2>1, <3>1, OpeningFacts, Timestamps DEF IInv, Advance
  <2>2. CASE ~StopOpens(p, u)
    BY <1>1, <2>2, Timestamps DEF IInv, Ordered, Advance
  <2> QED BY <2>1, <2>2
<1>3. device'.trip.start # None => device'.trip.start <= p.ts
  BY Timestamps DEF IInv, Ordered, Advance
<1>4. stopEnd' # None => stopEnd' <= p.ts
  BY OpeningFacts, Timestamps DEF IInv, TypeOK, Ordered, Advance
<1>4a. device'.stop.start # None /\ stopEnd' # None => stopEnd' <= device'.stop.start
  <2>1. CASE StopOpens(p, u)
    <3>1. stopEnd' = stopEnd
      BY <2>1, OpeningFacts DEF Advance, StopOpens, BeginsStop, ClosedGapStop, Stationary
    <3> QED BY <2>1, <3>1, OpeningFacts, Timestamps DEF IInv, TypeOK, Ordered, Advance
  <2>2. CASE ~StopOpens(p, u) /\ StopEnds(u)
    BY <2>2 DEF Advance
  <2>3. CASE ~StopOpens(p, u) /\ ~StopEnds(u)
    BY <2>3, OpeningFacts DEF IInv, Ordered, Advance
  <2> QED BY <2>1, <2>2, <2>3
<1>5. TripOpensBeforeStop'
  <2> SUFFICES ASSUME device'.trip.start # None, device'.stop.start # None
               PROVE  device'.trip.start <= device'.stop.start
                        /\ device'.stop.start <= device'.last
    BY DEF TripOpensBeforeStop
  <2>1. ~BeginsTrip(device.state, u)
    BY OpeningFacts
  <2>2. device'.trip.start = device.trip.start /\ device.trip.start <= device.last
    BY <2>1 DEF Advance, IInv, Ordered
  <2>3. CASE StopOpens(p, u)
    BY <2>2, <2>3, OpeningFacts, Timestamps DEF IInv, Advance
  <2>4. CASE ~StopOpens(p, u)
    BY <2>2, <2>4, Timestamps DEF IInv, Ordered, TripOpensBeforeStop, Advance
  <2> QED BY <2>3, <2>4
<1>6. TripsAreSeparated'
  <2>1. CASE TripCloses(p, u)
    <3>1. tripEnd' = TripEnd(device, p, u) /\ device'.trip.start \in {None, p.ts}
      BY <2>1 DEF Advance
    <3> QED BY <1>1, <2>1, <3>1, ClosingFacts DEF TripsAreSeparated
  <2>2. CASE ~TripCloses(p, u)
    <3>1. tripEnd' = tripEnd /\ tripEnd \in Nat \cup {None}
      BY <2>2 DEF Advance, IInv, TypeOK
    <3>2. CASE BeginsTrip(device.state, u)
      BY <2>2, <3>1, <3>2, OpeningFacts, Timestamps
         DEF IInv, Ordered, TripsAreSeparated, Advance
    <3>3. CASE ~BeginsTrip(device.state, u)
      BY <2>2, <3>1, <3>3, Timestamps DEF IInv, Ordered, TripsAreSeparated, Advance
    <3> QED BY <3>2, <3>3
  <2> QED BY <2>1, <2>2
<1>7. device'.state # "UNKNOWN"
  BY DEF Advance, MotionStates
<1> QED BY <1>1, <1>2, <1>3, <1>4, <1>4a, <1>5, <1>6, <1>7 DEF Ordered

LEMMA OrderedStep ==
  ASSUME ~LatePositions, IInv, [Next]_vars
  PROVE  Ordered'
<1>1. ASSUME NEW p \in Positions, ProcessPosition(p) PROVE Ordered'
  <2>1. p.ts \in Nat /\ p.ts > device.last
    BY <1>1, StepLemma DEF IInv
  <2>2. CASE device.state = "UNKNOWN" /\ Appears(p)
    <3>1. Appears(p) /\ device.last \in Nat /\ stopEnd \in Nat \cup {None}
            /\ tripEnd \in Nat \cup {None} /\ device.trip.start \in Nat \cup {None}
      BY <2>2 DEF IInv, TypeOK, DeviceRecords, TripRecords, NoTrip, None
    <3> QED BY <2>1, <3>1 DEF Appears, Ordered, IInv, TripOpensBeforeStop,
            TripsAreSeparated, HasStop, HasTrip, None, MotionStates
  <2>3. ASSUME device.state \in MotionStates, NEW u \in DeviceRecords, Advance(p, u)
        PROVE  Ordered'
    BY <2>1, <2>3, OrderedAdvance
  <2> QED BY <1>1, <2>2, <2>3, StepLemma DEF IInv
<1>2. CASE SensorExpires
  BY <1>2 DEF SensorExpires, IInv, Ordered, TripOpensBeforeStop, TripsAreSeparated,
     HasStop, HasTrip
<1>3. CASE UNCHANGED vars
  BY <1>3 DEF vars, IInv, Ordered, TripOpensBeforeStop, TripsAreSeparated, HasStop, HasTrip
<1> QED BY <1>1, <1>2, <1>3 DEF Next

LEMMA InitInductive == Init => IInv
<1> SUFFICES ASSUME Init PROVE IInv
  OBVIOUS
<1>1. Ordered
  BY DEF Init, Unseen, NoTrip, NoStop, Ordered, TripOpensBeforeStop, TripsAreSeparated,
     HasStop, HasTrip, None
<1> QED BY <1>1, InitTyped, InitStanding DEF IInv

LEMMA InductiveStep ==
  ASSUME ~LatePositions
  PROVE  IInv /\ [Next]_vars => IInv'
BY TypeStep, StandingStep, OrderedStep DEF IInv

LEMMA InductiveInvariant == ~LatePositions => (Spec => []IInv)
<1>1. ~LatePositions => (IInv /\ [Next]_vars => IInv')
  BY InductiveStep
<1>2. Init => IInv
  BY InitInductive
<1> SUFFICES ASSUME ~LatePositions PROVE Spec => []IInv
  OBVIOUS
<1>3. IInv /\ [Next]_vars => IInv'
  BY <1>1
<1> QED BY <1>2, <1>3, PTL DEF Spec

\* With positions in order a trip beside a stop began before it: closing the
\* trip where the stop began never gives it a negative length.
THEOREM TripsPrecedeTheirStops ==
  ASSUME ~LatePositions
  PROVE  Spec => []TripOpensBeforeStop
<1>1. Spec => []IInv
  BY InductiveInvariant
<1>2. IInv => TripOpensBeforeStop
  BY DEF IInv, Ordered
<1> QED BY <1>1, <1>2, PTL

\* With positions in order two trips of a device are minStopDuration apart.
THEOREM TripsStaySeparated ==
  ASSUME ~LatePositions
  PROVE  Spec => []TripsAreSeparated
<1>1. Spec => []IInv
  BY InductiveInvariant
<1>2. IInv => TripsAreSeparated
  BY DEF IInv, Ordered
<1> QED BY <1>1, <1>2, PTL

-----------------------------------------------------------------------------
(* Segmentation, and the history that module Timeline promises.            *)

\* With positions in order a trip is closed only after a stop of
\* minStopDuration or a silence of maxOvernightGapDuration.
THEOREM SegmentationNeedsRest ==
  ASSUME ~LatePositions
  PROVE  Spec => ShortStopsNeverEndTrips
<1> DEFINE Rest ==
      outcome' # "none" =>
        \/ HasStop(device) /\ device'.last - device.stop.start >= MinStopDuration
        \/ device'.last - device.last >= OvernightGapDuration
<1>1. ASSUME IInv, Next PROVE Rest
  <2>1. ASSUME NEW p \in Positions, ProcessPosition(p) PROVE Rest
    <3>1. p.ts \in Nat /\ p.ts > device.last
      BY <1>1, <2>1, StepLemma DEF IInv
    <3>2. CASE Appears(p)
      BY <3>2 DEF Appears
    <3>3. ASSUME device.state \in MotionStates, NEW u \in DeviceRecords, Advance(p, u)
          PROVE  Rest
      BY <1>1, <3>1, <3>3, ClosingFacts DEF Advance
    <3> QED BY <1>1, <2>1, <3>2, <3>3, StepLemma DEF IInv
  <2>2. CASE SensorExpires
    BY <2>2 DEF SensorExpires
  <2> QED BY <1>1, <2>1, <2>2 DEF Next
<1>2. IInv /\ [Next]_vars => [Rest]_vars
  BY <1>1
<1>3. Spec => []IInv
  BY InductiveInvariant
<1>4. Spec => [][Rest]_vars
  BY <1>2, <1>3, PTL DEF Spec
<1> QED BY <1>4 DEF ShortStopsNeverEndTrips

\* The stops of an Advance are those of a report of Timeline.
LEMMA StopsRefine ==
  ASSUME IInv, device.state \in MotionStates, NEW p \in Positions, NEW u \in DeviceRecords,
         Advance(p, u), p.ts \in Nat, p.ts > device.last
  PROVE  \/ History!KeepStop \/ History!OpenStop(p.ts)
         \/ History!CloseStop(p.ts) \/ History!RecordSilence(p.ts)
<1>1. CASE StopOpens(p, u)
  <2>1. /\ device.stop.start = None /\ ~StopEnds(u)
        /\ device'.stop.start = StopStart(device, p)
    BY <1>1, OpeningFacts DEF Advance, HasStop
  <2>2. stopEnd' = stopEnd
    BY <1>1, <2>1 DEF Advance, StopOpens, BeginsStop, ClosedGapStop, Stationary
  <2> QED BY <2>1, <2>2, OpeningFacts DEF History!OpenStop, History!Silence
<1>2. CASE ~StopOpens(p, u) /\ StopEnds(u)
  BY <1>2, OpeningFacts DEF History!CloseStop, Advance, HasStop
<1>3. CASE ~StopOpens(p, u) /\ ~StopEnds(u) /\ ClosedGapStop(device, p, u)
  BY <1>3, OpeningFacts DEF History!RecordSilence, History!Silence, Advance, HasStop
<1>4. CASE ~StopOpens(p, u) /\ ~StopEnds(u) /\ ~ClosedGapStop(device, p, u)
  BY <1>4 DEF History!KeepStop, Advance
<1> QED BY <1>1, <1>2, <1>3, <1>4

\* Its trips too.
LEMMA TripsRefine ==
  ASSUME IInv, device.state \in MotionStates, NEW p \in Positions, NEW u \in DeviceRecords,
         Advance(p, u), p.ts \in Nat, p.ts > device.last
  PROVE  \/ History!KeepTrip \/ History!CloseTrip(p.ts)
         \/ History!OpenTrip(p.ts) \/ History!ReplaceTrip(p.ts)
<1>1. CASE TripCloses(p, u)
  <2>1. History!EndTrip(p.ts)
    BY <1>1, ClosingFacts DEF History!EndTrip, History!Rested, History!Silence, Advance,
       HasTrip, HasStop
  <2>2. CASE BeginsTrip(device.state, u)
    BY <2>1, <2>2, OpeningFacts DEF History!ReplaceTrip, Advance
  <2>3. CASE ~BeginsTrip(device.state, u)
    BY <1>1, <2>1, <2>3 DEF History!CloseTrip, Advance
  <2> QED BY <2>2, <2>3
<1>2. CASE ~TripCloses(p, u) /\ BeginsTrip(device.state, u)
  <2>1. /\ device.trip.start = None /\ device'.trip.start = p.ts
        /\ device'.stop.start = None /\ tripEnd' = tripEnd
    BY <1>2, OpeningFacts DEF Advance, HasTrip
  <2>2. tripEnd # None => p.ts - tripEnd >= MinStopDuration
    <3>1. tripEnd # None => device.last - tripEnd >= MinStopDuration
      BY <2>1 DEF IInv, Ordered, TripsAreSeparated, HasTrip
    <3>2. tripEnd \in Nat \cup {None} /\ device.last \in Nat
      BY Timestamps DEF IInv, TypeOK
    <3> QED BY <3>1, <3>2
  <2> QED BY <2>1, <2>2 DEF History!OpenTrip
<1>3. CASE ~TripCloses(p, u) /\ ~BeginsTrip(device.state, u)
  BY <1>3 DEF History!KeepTrip, Advance
<1> QED BY <1>1, <1>2, <1>3

\* With positions in order trip detection implements module Timeline: every
\* position handled is a report of the abstract history or leaves it alone.
THEOREM DetectionImplementsTimeline ==
  ASSUME ~LatePositions
  PROVE  Spec => ImplementsTimeline
<1>1. Init => History!Init
  BY DEF Init, History!Init, Unseen, NoTrip, NoStop
<1>2. ASSUME IInv, NEW p \in Positions, ProcessPosition(p)
      PROVE  History!Next
  <2>1. p.ts \in Nat /\ p.ts \in Times /\ p.ts > device.last
    BY <1>2, StepLemma DEF IInv
  <2>2. CASE device.state = "UNKNOWN" /\ Appears(p)
    <3>1. device.stop.start = None /\ device.trip.start = None /\ tripEnd = None
      BY <1>2, <2>2 DEF IInv, Ordered
    <3>2. History!KeepStop \/ History!OpenStop(p.ts)
      BY <2>2, <3>1 DEF Appears, History!KeepStop, History!OpenStop
    <3>3. History!KeepTrip \/ History!OpenTrip(p.ts)
      BY <2>2, <3>1 DEF Appears, History!KeepTrip, History!OpenTrip
    <3>4. History!Report(p.ts)
      BY <2>1, <2>2, <3>2, <3>3 DEF Appears, History!Report
    <3> QED BY <2>1, <3>4 DEF History!Next
  <2>3. ASSUME device.state \in MotionStates, NEW u \in DeviceRecords, Advance(p, u)
        PROVE  History!Next
    <3>1. History!Report(p.ts)
      BY <1>2, <2>1, <2>3, StopsRefine, TripsRefine DEF History!Report, Advance
    <3> QED BY <2>1, <3>1 DEF History!Next
  <2> QED BY <1>2, <2>2, <2>3, StepLemma DEF IInv
<1>3. IInv /\ [Next]_vars => [History!Next]_(History!vars)
  BY <1>2 DEF Next, SensorExpires, vars, History!vars
<1>4. Spec => []IInv
  BY InductiveInvariant
<1>5. Spec => History!Spec
  BY <1>1, <1>3, <1>4, PTL DEF Spec, History!Spec
<1> QED BY <1>5 DEF ImplementsTimeline

=============================================================================
