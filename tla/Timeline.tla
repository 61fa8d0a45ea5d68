------------------------------ MODULE Timeline ------------------------------
(***************************************************************************)
(* What trip detection promises about the history of one device, with no   *)
(* word about ignition, speeds, distances or averages: at each report the  *)
(* history is extended by closing or opening intervals so that             *)
(*   - at most one trip and one stop are open,                             *)
(*   - a trip ends between its beginning and the last report known before  *)
(*     the one that ends it,                                               *)
(*   - a trip ends only after a stop of MinStopDuration or a silence of    *)
(*     OvernightGapDuration, and the next one begins at least              *)
(*     MinStopDuration after that end,                                     *)
(*   - stops follow each other without overlap, and no trip begins while   *)
(*     a stop goes on.                                                     *)
(* Module TripDetection implements it when positions arrive in order.      *)
(***************************************************************************)
EXTENDS Integers

CONSTANTS
  Times,                 \* timestamps of the reports
  MinStopDuration,
  OvernightGapDuration,
  None                   \* no timestamp

VARIABLES
  now,       \* timestamp of the last report
  trip,      \* beginning of the open trip, or None
  stop,      \* beginning of the open stop, or None
  tripEnd,   \* end of the last closed trip, or None
  stopEnd    \* end of the last closed stop, or None

vars == <<now, trip, stop, tripEnd, stopEnd>>

Init ==
  /\ now = 0
  /\ trip = None /\ stop = None
  /\ tripEnd = None /\ stopEnd = None

-----------------------------------------------------------------------------
(* How the report at time t > now extends the stops.                       *)

Silence(t) == t - now >= OvernightGapDuration

KeepStop == UNCHANGED <<stop, stopEnd>>

OpenStop(t) ==
  /\ stop = None
  /\ stop' = t \/ (Silence(t) /\ stop' = now)
  /\ stopEnd' = stopEnd

CloseStop(t) ==
  /\ stop # None /\ stop' = None
  /\ stopEnd' = t

\* The silence itself was a stop, over by the time the device is heard again.
RecordSilence(t) ==
  /\ stop = None /\ Silence(t)
  /\ stop' = None
  /\ stopEnd' = t

-----------------------------------------------------------------------------
(* How it extends the trips.                                               *)

Rested(t) == stop # None /\ t - stop >= MinStopDuration

KeepTrip == UNCHANGED <<trip, tripEnd>>

EndTrip(t) ==
  /\ trip # None
  /\ \/ Rested(t) /\ tripEnd' = stop
     \/ Silence(t) /\ tripEnd' = now
  /\ trip <= tripEnd'

CloseTrip(t) == EndTrip(t) /\ trip' = None

OpenTrip(t) ==
  /\ trip = None /\ trip' = t
  /\ tripEnd # None => t - tripEnd >= MinStopDuration
  /\ tripEnd' = tripEnd
  /\ stop' = None

ReplaceTrip(t) == EndTrip(t) /\ trip' = t /\ stop' = None

Report(t) ==
  /\ t > now /\ now' = t
  /\ KeepStop \/ OpenStop(t) \/ CloseStop(t) \/ RecordSilence(t)
  /\ KeepTrip \/ CloseTrip(t) \/ OpenTrip(t) \/ ReplaceTrip(t)

Next == \E t \in Times : Report(t)

Spec == Init /\ [][Next]_vars

-----------------------------------------------------------------------------

\* Open intervals and closed ones lie in the order the history tells.
Chronology ==
  /\ stop # None => stop <= now
  /\ trip # None => trip <= now
  /\ stopEnd # None => stopEnd <= now
  /\ tripEnd # None => tripEnd <= now
  /\ stop # None /\ stopEnd # None => stopEnd <= stop
  /\ trip # None /\ stop # None => trip <= stop

=============================================================================
