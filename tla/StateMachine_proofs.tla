------------------------ MODULE StateMachine_proofs ------------------------
(***************************************************************************)
(* Lemmas about the operators of StateMachine and ActionExecution, which   *)
(* the proofs about TripDetection and PositionProcessor share: a position  *)
(* keeps device records well-formed, which actions it triggers, and what   *)
(* applying them does to the open trip and the open stop.                  *)
(***************************************************************************)
EXTENDS ActionExecution, TLAPS

USE ThresholdAssumption

-----------------------------------------------------------------------------
(* The pure operators.                                                     *)

\* The motion state is always one of the three of motion-state.model.ts.
LEMMA StateTyped ==
  ASSUME NEW d, NEW p, NEW useIgnition, d.state \in MotionStates
  PROVE  DetermineState(d, p, useIgnition) \in MotionStates
BY DEF DetermineState, MotionStates, Stationary

\* What updateState (519-663) keeps and changes.
LEMMA UpdateFacts ==
  ASSUME NEW d \in DeviceRecords, NEW p, p.ts \in Nat, NEW new \in MotionStates,
         NEW avg \in SpeedClasses, NEW adj \in Nat
  PROVE  LET u == UpdateState(d, p, new, avg, adj)
         IN  /\ u \in DeviceRecords
             /\ u.state = new /\ u.last = p.ts /\ u.stop = d.stop
             /\ u.since = IF new # d.state THEN p.ts ELSE d.since
             /\ u.trip.start = d.trip.start
             /\ u.trip.confirmed = d.trip.confirmed
<1> DEFINE u == UpdateState(d, p, new, avg, adj)
<1>2. /\ d.trip.start # None => d.trip \in [start : Nat, dist : 0..MinTripDistance,
              count : 0..ConfirmPositions, stops : 0..StopsCap, confirmed : BOOLEAN]
      /\ d.trip \in TripRecords
  BY DEF DeviceRecords, TripRecords, NoTrip
<1>3. u.trip \in TripRecords /\ u.trip.start = d.trip.start
        /\ u.trip.confirmed = d.trip.confirmed
  <2>1. CASE ~HasTrip(d)
    BY <1>2, <2>1 DEF UpdateState, DeviceRecords
  <2>2. CASE HasTrip(d)
    <3>1. /\ Capped(d.trip.dist + adj, MinTripDistance) \in 0..MinTripDistance
          /\ Capped(d.trip.count + 1, ConfirmPositions) \in 0..ConfirmPositions
      BY <1>2, <2>2 DEF Capped, HasTrip
    <3>2. /\ Extended(d.trip, adj) \in TripRecords
          /\ Extended(d.trip, adj).start = d.trip.start
          /\ Extended(d.trip, adj).confirmed = d.trip.confirmed
      BY <1>2, <2>2, <3>1 DEF Extended, TripRecords, HasTrip
    <3> QED BY <2>2, <3>2 DEF UpdateState, DeviceRecords
  <2> QED BY <2>1, <2>2
<1>4. /\ u.state = new /\ u.last = p.ts /\ u.stop = d.stop
      /\ u.since = IF new # d.state THEN p.ts ELSE d.since
  BY DEF UpdateState, DeviceRecords
<1>5. u \in DeviceRecords
  BY <1>3 DEF UpdateState, DeviceRecords
<1> QED BY <1>3, <1>4, <1>5

\* Which conditions put each action into the result.
LEMMA ActionFacts ==
  ASSUME NEW d, NEW p, NEW u
  PROVE  LET acts == HandleLargeGap(d, p, u, DetermineActions(d.state, u))
         IN  /\ acts \in SUBSET ActionNames
             /\ "startTrip" \in acts <=> BeginsTrip(d.state, u)
             /\ "endStop" \in acts <=> EndsStop(d.state, u)
             /\ "startStop" \in acts <=>
                  BeginsStop(d.state, u) \/ (SilentStop(d, p) /\ u.state \in Stationary)
             /\ Closes(acts) <=>
                  \/ BeginsTrip(d.state, u) /\ HasTrip(u)
                  \/ IdleTooLong(u) \/ ParkedLong(u)
                  \/ Overnight(d, p) /\ HasTrip(u)
<1> DEFINE normal == DetermineActions(d.state, u)
           acts == HandleLargeGap(d, p, u, normal)
<1>1. \A e : Verdict(u, e) \in {"endTrip", "discardTrip"}
  BY DEF Verdict
<1>2. /\ "startTrip" \in normal <=> BeginsTrip(d.state, u)
      /\ "endStop" \in normal <=> EndsStop(d.state, u)
      /\ "startStop" \in normal <=> BeginsStop(d.state, u)
  BY DEF DetermineActions, ClosingVerdicts
<1>3. Closes(normal) <=>
        \/ BeginsTrip(d.state, u) /\ HasTrip(u)
        \/ IdleTooLong(u) \/ ParkedLong(u)
  BY <1>1 DEF DetermineActions, ClosingVerdicts, Closes
<1>4. /\ "startTrip" \in acts <=> "startTrip" \in normal
      /\ "endStop" \in acts <=> "endStop" \in normal
      /\ "startStop" \in acts <=>
           "startStop" \in normal \/ (SilentStop(d, p) /\ u.state \in Stationary)
  BY <1>1 DEF HandleLargeGap, ForcedClosure
<1>5. Closes(acts) <=>
        \/ Closes(normal)
        \/ Overnight(d, p) /\ HasTrip(u) /\ "startTrip" \notin normal
  BY <1>1 DEF HandleLargeGap, ForcedClosure, Closes
<1>6. acts \in SUBSET ActionNames
  BY <1>1 DEF HandleLargeGap, ForcedClosure, DetermineActions, ClosingVerdicts, ActionNames
<1> QED BY <1>2, <1>3, <1>4, <1>5, <1>6

-----------------------------------------------------------------------------
(* Typing of what the processor writes.                                    *)

\* Counting one more stop keeps the trip what it is.
LEMMA OneMoreStopFacts ==
  ASSUME NEW trip \in TripRecords, trip.start # None
  PROVE  /\ OneMoreStop(trip) \in TripRecords /\ OneMoreStop(trip).start = trip.start
         /\ OneMoreStop(trip).confirmed = trip.confirmed
<1>1. trip \in [start : Nat, dist : 0..MinTripDistance, count : 0..ConfirmPositions,
                stops : 0..StopsCap, confirmed : BOOLEAN]
  BY DEF TripRecords, NoTrip
<1>2. Capped(trip.stops + 1, StopsCap) \in 0..StopsCap
  BY <1>1 DEF Capped
<1> QED BY <1>1, <1>2 DEF OneMoreStop, TripRecords

LEMMA NewTripFacts ==
  ASSUME NEW p, p.ts \in Nat
  PROVE  NewTrip(p) \in TripRecords /\ NewTrip(p).start = p.ts /\ p.ts \in Nat
           /\ p.ts # None /\ ~NewTrip(p).confirmed
<1>2. Capped(1, ConfirmPositions) \in 0..ConfirmPositions
  BY DEF Capped
<1> QED BY <1>2 DEF NewTrip, TripRecords, None

StopStarted(d, p) == [start |-> StopStart(d, p)]

\* What executeActions leaves of the trip and of the stop.
LEMMA ActionsKeepStarts ==
  ASSUME NEW r, r.device.trip \in TripRecords, r.device.stop \in StopRecords
  PROVE  /\ TripAfterActions(r) \in TripRecords
         /\ TripAfterActions(r).start =
              IF Closes(r.acts) /\ "startTrip" \notin r.acts THEN None
              ELSE r.device.trip.start
         /\ StopAfterActions(r) \in StopRecords
         /\ TripAfterClosing(r) \in TripRecords /\ Confirmed(r) \in TripRecords
         /\ Confirmed(r).start = TripAfterClosing(r).start
         /\ TripAfterActions(r).start = Confirmed(r).start
         /\ TripAfterActions(r).confirmed = Confirmed(r).confirmed
<1>1. TripAfterClosing(r) \in TripRecords
  BY DEF TripAfterClosing, TripRecords
<1>2. TripAfterClosing(r).start =
        IF Closes(r.acts) /\ "startTrip" \notin r.acts THEN None ELSE r.device.trip.start
  BY DEF TripAfterClosing, NoTrip
<1>3. Confirmed(r) \in TripRecords /\ Confirmed(r).start = TripAfterClosing(r).start
  <2>1. CASE Confirms(r)
    <3> DEFINE left == TripAfterClosing(r)
    <3>1. left \in [start : Nat, dist : 0..MinTripDistance, count : 0..ConfirmPositions,
                    stops : 0..StopsCap, confirmed : BOOLEAN]
      BY <1>1, <2>1 DEF Confirms, TripRecords, NoTrip
    <3>2. Confirmed(r) = [left EXCEPT !.confirmed = TRUE]
      BY <2>1 DEF Confirmed
    <3> QED BY <3>1, <3>2 DEF TripRecords
  <2>2. CASE ~Confirms(r)
    BY <1>1, <2>2 DEF Confirmed
  <2> QED BY <2>1, <2>2
<1>4. TripAfterActions(r) \in TripRecords
        /\ TripAfterActions(r).start = TripAfterClosing(r).start
        /\ TripAfterActions(r).confirmed = Confirmed(r).confirmed
  BY <1>3, OneMoreStopFacts DEF TripAfterActions
<1>5. StopAfterActions(r) \in StopRecords
  BY DEF StopAfterActions, StopRecords
<1> QED BY <1>1, <1>2, <1>3, <1>4, <1>5

\* What the state machine hands to the processor, given the updated device u.
TransitionApplied(d, p, u, acts, a) ==
  /\ a \in DeviceRecords
  /\ a.state = u.state /\ a.since = u.since /\ a.last = u.last
  /\ a.trip.start = IF "startTrip" \in acts THEN p.ts ELSE u.trip.start
  /\ a.trip.confirmed <=> "startTrip" \notin acts /\ u.trip.confirmed
  /\ a.stop = IF "startStop" \in acts THEN StopStarted(d, p) ELSE u.stop

LEMMA ApplyFacts ==
  ASSUME NEW d \in DeviceRecords, NEW p, p.ts \in Nat, NEW u \in DeviceRecords,
         NEW acts \in SUBSET ActionNames
  PROVE  TransitionApplied(d, p, u, acts, ApplyTransition(d, p, u, acts))
<1> DEFINE trip == IF "startTrip" \in acts THEN NewTrip(p) ELSE u.trip
           kept == IF "endStop" \in acts /\ HasStop(u) /\ trip.start # None
                   THEN OneMoreStop(trip) ELSE trip
           stop == IF "startStop" \in acts THEN StopStarted(d, p) ELSE u.stop
<1>1. /\ trip \in TripRecords
      /\ trip.start = IF "startTrip" \in acts THEN p.ts ELSE u.trip.start
      /\ trip.confirmed <=> "startTrip" \notin acts /\ u.trip.confirmed
  BY NewTripFacts DEF DeviceRecords
<1>2. kept \in TripRecords /\ kept.start = trip.start /\ kept.confirmed = trip.confirmed
  <2> HIDE DEF trip
  <2> QED BY <1>1, OneMoreStopFacts
<1>3. stop \in StopRecords
  BY NewTripFacts DEF StopStarted, StopStart, StopRecords, DeviceRecords
<1>4. ApplyTransition(d, p, u, acts) = [u EXCEPT !.trip = kept, !.stop = stop]
  BY DEF ApplyTransition, StopStarted
<1> HIDE DEF kept, stop
<1>5. /\ [u EXCEPT !.trip = kept, !.stop = stop] \in DeviceRecords
      /\ [u EXCEPT !.trip = kept, !.stop = stop].trip = kept
      /\ [u EXCEPT !.trip = kept, !.stop = stop].stop = stop
      /\ [u EXCEPT !.trip = kept, !.stop = stop].state = u.state
      /\ [u EXCEPT !.trip = kept, !.stop = stop].since = u.since
      /\ [u EXCEPT !.trip = kept, !.stop = stop].last = u.last
  BY <1>2, <1>3 DEF DeviceRecords
<1>6. /\ kept.start = IF "startTrip" \in acts THEN p.ts ELSE u.trip.start
      /\ kept.confirmed <=> "startTrip" \notin acts /\ u.trip.confirmed
  BY <1>1, <1>2
<1> QED BY <1>4, <1>5, <1>6 DEF stop, TransitionApplied

-----------------------------------------------------------------------------
(* All that processPosition hands over, for a device unseen or known.      *)

\* The trip in progress reaches the processor as it was found, a new one is not
\* announced yet, and it takes the place of another only by closing that one.
TripCarriedOver(d, p, r) ==
  /\ r.trip.start = d.trip.start
  /\ r.trip.confirmed = d.trip.confirmed
  /\ r.device.trip.start = IF "startTrip" \in r.acts THEN p.ts ELSE d.trip.start
  /\ r.device.trip.confirmed <=> "startTrip" \notin r.acts /\ d.trip.confirmed
  /\ "startTrip" \in r.acts /\ d.trip.start # None => Closes(r.acts)

LEMMA FirstOutcome ==
  ASSUME NEW d \in DeviceRecords, NEW p, p.ts \in Nat, NEW useIgnition, d.trip = NoTrip
  PROVE  LET r == FirstPosition(d, p, useIgnition)
         IN  /\ r.device \in DeviceRecords /\ r.device.state # "UNKNOWN"
             /\ TripCarriedOver(d, p, r)
<1> DEFINE r == FirstPosition(d, p, useIgnition)
           new == FirstState(p, useIgnition)
<1>1. new \in MotionStates
  BY DEF FirstState, MotionStates
<1>2. /\ r.acts = IF new = "MOVING" THEN {"startTrip"} ELSE {"startStop"}
      /\ r.trip = NoTrip
      /\ r.device.trip = IF new = "MOVING" THEN NewTrip(p) ELSE NoTrip
      /\ r.device.stop = IF new = "MOVING" THEN NoStop ELSE [start |-> p.ts]
      /\ r.device = [state |-> new, since |-> p.ts, last |-> p.ts, newest |-> p.ts,
                     avg |-> "none", trip |-> r.device.trip, stop |-> r.device.stop]
  BY DEF FirstPosition
<1> HIDE DEF r, new
<1>3. r.device.trip \in TripRecords /\ r.device.stop \in StopRecords
  BY <1>2, NewTripFacts DEF TripRecords, StopRecords
<1>4. r.device \in DeviceRecords /\ r.device.state # "UNKNOWN"
  BY <1>1, <1>2, <1>3 DEF DeviceRecords, SpeedClasses, MotionStates
<1>5. TripCarriedOver(d, p, r)
  BY <1>2, NewTripFacts DEF TripCarriedOver, NoTrip
<1> QED BY <1>4, <1>5 DEF r

LEMMA NextOutcome ==
  ASSUME NEW d \in DeviceRecords, NEW p, p.ts \in Nat, NEW useIgnition,
         NEW avg \in SpeedClasses, NEW adj \in Nat, d.state # "UNKNOWN"
  PROVE  LET r == NextPosition(d, p, useIgnition, avg, adj)
         IN  /\ r.device \in DeviceRecords /\ r.device.state # "UNKNOWN"
             /\ TripCarriedOver(d, p, r)
<1> DEFINE r == NextPosition(d, p, useIgnition, avg, adj)
           new == DetermineState(d, p, useIgnition)
           u == UpdateState(d, p, new, avg, adj)
           acts == HandleLargeGap(d, p, u, DetermineActions(d.state, u))
<1>1. new \in MotionStates
  BY StateTyped DEF DeviceRecords
<1>2. /\ u \in DeviceRecords /\ u.state = new
      /\ u.trip.start = d.trip.start /\ u.trip.confirmed = d.trip.confirmed
  BY <1>1, UpdateFacts
<1>3. r.acts = acts /\ r.trip = u.trip /\ r.device = ApplyTransition(d, p, u, acts)
  BY DEF NextPosition
<1> HIDE DEF new, u
<1>4. /\ acts \in SUBSET ActionNames
      /\ "startTrip" \in acts /\ u.trip.start # None => Closes(acts)
  BY ActionFacts DEF HasTrip
<1> HIDE DEF acts, r
<1>5. TransitionApplied(d, p, u, acts, r.device)
  BY <1>2, <1>3, <1>4, ApplyFacts
<1> QED
  BY <1>1, <1>2, <1>3, <1>4, <1>5 DEF r, TransitionApplied, TripCarriedOver, MotionStates

LEMMA OutcomeFacts ==
  ASSUME NEW d \in DeviceRecords, NEW p, p.ts \in Nat, p.move \in Nat, NEW useIgnition,
         NEW r \in Outcomes(d, p, useIgnition), d.state = "UNKNOWN" => d.trip = NoTrip
  PROVE  /\ r.device \in DeviceRecords /\ r.device.state # "UNKNOWN"
         /\ TripCarriedOver(d, p, r)
<1>1. CASE d.state = "UNKNOWN"
  BY <1>1, FirstOutcome DEF Outcomes
<1>2. CASE d.state # "UNKNOWN"
  <2>1. PICK avg \in NextAverages(d, p), adj \in AdjustedDistances(d, p) :
          r = NextPosition(d, p, useIgnition, avg, adj)
    BY <1>2 DEF Outcomes
  <2>2. avg \in SpeedClasses /\ adj \in Nat
    BY <2>1 DEF NextAverages, SpeedClasses, AdjustedDistances
  <2> QED BY <1>2, <2>1, <2>2, NextOutcome
<1> QED BY <1>1, <1>2

=============================================================================
