--------------------------- MODULE ActionExecution ---------------------------
(***************************************************************************)
(* What executeActions of PositionProcessorService makes of a result r of  *)
(* the state machine, as operators: the events it publishes and the trip   *)
(* and stop it leaves in the device state.  Module TripDetection takes all *)
(* of it as one step, module PositionProcessor one call at a time.         *)
(***************************************************************************)
EXTENDS StateMachine

Outcome == {"none", "completed", "discarded", "dropped"}

\* Mutant: asks the saved state, which may hold the next trip already, whether
\* the closed trip was announced.
OutcomeOfSavedTrip(r) ==
  CASE ~Closes(r.acts) -> "none"
    [] "endTrip" \in r.acts -> "completed"
    [] "discardTrip" \in r.acts /\ r.device.trip.confirmed -> "discarded"
    [] OTHER -> "dropped"

\* trip:completed, trip:discarded, or silence for a trip never announced.
OutcomeOf(r) ==
  CASE ~Closes(r.acts) -> "none"
    [] "endTrip" \in r.acts -> "completed"
    [] "discardTrip" \in r.acts /\ r.trip.confirmed -> "discarded"
    [] OTHER -> "dropped"

\* Mutant: only the identifier is cleared, the counters stay behind.
TripIdCleared(r) ==
  IF Closes(r.acts) /\ "startTrip" \notin r.acts
  THEN [r.device.trip EXCEPT !.start = None] ELSE r.device.trip

\* Mutant: the successor is cleared with the closed trip.
TripClearedRegardless(r) == IF Closes(r.acts) THEN NoTrip ELSE r.device.trip

\* The closed trip leaves the state unless its successor is already there.
TripAfterClosing(r) ==
  IF Closes(r.acts) /\ "startTrip" \notin r.acts THEN NoTrip ELSE r.device.trip

\* Mutant: only the distance confirms.
ConfirmsFarOnly(r) ==
  LET trip == TripAfterClosing(r)
  IN  /\ trip.start # None /\ ~trip.confirmed
      /\ "startTrip" \notin r.acts
      /\ trip.dist >= MinTripDistance

\* trip:started, published once the trip is far or long enough and never for
\* the position that opens it.
Confirms(r) ==
  LET trip == TripAfterClosing(r)
  IN  /\ trip.start # None /\ ~trip.confirmed
      /\ "startTrip" \notin r.acts
      /\ trip.dist >= MinTripDistance \/ trip.count >= ConfirmPositions

EndsOpenStop(r) == "endStop" \in r.acts /\ r.stop.start # None

Confirmed(r) ==
  IF Confirms(r) THEN [TripAfterClosing(r) EXCEPT !.confirmed = TRUE]
  ELSE TripAfterClosing(r)

\* Finishing a stop counts it once more in the current trip.
TripAfterActions(r) ==
  IF EndsOpenStop(r) /\ Confirmed(r).start # None
  THEN OneMoreStop(Confirmed(r)) ELSE Confirmed(r)

\* Mutant: the finished stop is published and never cleared.
StopLeftOpen(r) == r.device.stop

StopAfterActions(r) ==
  IF EndsOpenStop(r) /\ "startStop" \notin r.acts THEN NoStop ELSE r.device.stop

\* Mutant: the end is taken as it comes.
StopEndUnclamped(r, p) == p.ts

\* A stop never ends before it began: the end is clamped to the start.
StopEndOf(r, p) == IF p.ts < r.stop.start THEN r.stop.start ELSE p.ts

=============================================================================
