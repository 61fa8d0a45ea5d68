-------------------------- MODULE PositionProcessor --------------------------
(***************************************************************************)
(* PositionProcessorService one remote call at a time, for one device:     *)
(* the motion state is read, decided upon and saved, and then the actions  *)
(* run on the copy in memory, publishing their events and saving again.    *)
(* The read may fail, which looks like a device never seen; a later call   *)
(* may throw, which drops the rest; the process may crash; the throttle    *)
(* may let a late position through; and the orphan cleanup resets the      *)
(* motion state of a silent device beside all this.                        *)
(* Module TripDetection is the same without any of it.                     *)
(***************************************************************************)
EXTENDS ActionExecution, Sequences

CONSTANTS
  Times,      \* timestamps a position may carry
  LateTimes,  \* bound: those of the positions that come after a later one
  Moves,      \* distances between two positions
  MaxUpsets   \* bound: failures, crashes, resets and late positions together

ASSUME ProcessorAssumption ==
  /\ Times \subseteq Nat \ {0} /\ LateTimes \subseteq Times
  /\ Moves \subseteq Nat /\ MaxUpsets \in Nat

VARIABLES
  device,     \* device:state:<id> in Redis
  work,       \* the position in progress, or Rest
  sweep,      \* last of the record the cleanup has read and will reset, or None
  clock,      \* timestamp of the last position taken
  inOrder,    \* history: no position of the trip in device came late
  clean,      \* history: nothing went wrong since the last position began
  announced,  \* history: the trip of the last trip:started
  settled,    \* history: announced, once that trip was completed or discarded
  lost,       \* history: announced, once the record of that trip was given up
  upsets      \* failures, crashes, resets and late positions so far

vars == <<device, work, sweep, clock, inOrder, clean, announced, settled, lost, upsets>>

Positions == [ts : Times, move : Moves, fast : BOOLEAN, ign : BOOLEAN]

\* The calls of a position in order: read and save the motion state, then for
\* executeActions the calls that come first, publish the end of a trip, note it
\* in the tracker state, save; note a new trip there; publish a confirmed trip,
\* save; publish the end of a stop, save; publish a new stop, save; publish the
\* stop of a gap.
Calls == <<"read", "save", "actions", "settle", "note", "clear", "open", "announce",
           "keepTrip", "endStop", "keepEnd", "startStop", "keepStart", "gapStop", "done">>
CallNames == {Calls[i] : i \in DOMAIN Calls}

Throwing == {"save", "actions", "note", "clear", "open", "keepTrip", "keepEnd", "keepStart"}

Rest == [call |-> "rest"]

\* Which of them the result r of the state machine asks for.
Asks(r, name) ==
  CASE name = "settle"    -> OutcomeOf(r) \in {"completed", "discarded"}
    [] name = "note"      -> "endTrip" \in r.acts
    [] name = "clear"     -> Closes(r.acts) /\ "startTrip" \notin r.acts
    [] name = "open"      -> "startTrip" \in r.acts
    [] name \in {"announce", "keepTrip"} -> Confirms(r)
    [] name = "endStop"   -> EndsOpenStop(r)
    [] name = "keepEnd"   -> EndsOpenStop(r) /\ "startStop" \notin r.acts
    [] name \in {"startStop", "keepStart"} -> "startStop" \in r.acts
    [] name = "gapStop"   -> r.gapStop
    [] OTHER -> TRUE

Place(name) == CHOOSE i \in DOMAIN Calls : Calls[i] = name

\* Mutant: the confirmation stays in memory, the next position finds it missing.
RecordWithoutConfirmation(r, name) ==
  [r.device EXCEPT
     !.trip = CASE name \in {"clear", "keepTrip"} -> TripAfterClosing(r)
                [] name \in {"keepEnd", "keepStart"} -> TripAfterActions(r)
                [] OTHER -> @,
     !.stop = IF name \in {"keepEnd", "keepStart"} THEN StopAfterActions(r) ELSE @]

\* Mutant: the confirmation is saved with the record, before its event.
ConfirmedBeforeEvent(r, name) ==
  [r.device EXCEPT
     !.trip = CASE name = "clear" -> TripAfterClosing(r)
                [] name \in {"save", "keepTrip"} -> Confirmed(r)
                [] name \in {"keepEnd", "keepStart"} -> TripAfterActions(r)
                [] OTHER -> @,
     !.stop = IF name \in {"keepEnd", "keepStart"} THEN StopAfterActions(r) ELSE @]

\* updatedState as each saving call finds it in memory.
RecordAt(r, name) ==
  [r.device EXCEPT
     !.trip = CASE name = "clear" -> TripAfterClosing(r)
                [] name = "keepTrip" -> Confirmed(r)
                [] name \in {"keepEnd", "keepStart"} -> TripAfterActions(r)
                [] OTHER -> @,
     !.stop = IF name \in {"keepEnd", "keepStart"} THEN StopAfterActions(r) ELSE @]

\* On to the next call the result asks for.
Advance(told) ==
  \E j \in DOMAIN Calls :
    /\ j > Place(work.call) /\ Asks(work.res, Calls[j])
    /\ \A k \in Place(work.call) + 1..j - 1 : ~Asks(work.res, Calls[k])
    /\ work' = [work EXCEPT !.call = Calls[j], !.told = @ \cup told]

Upset == upsets < MaxUpsets /\ upsets' = upsets + 1 /\ clean' = FALSE

-----------------------------------------------------------------------------

Init ==
  /\ device = Unseen /\ work = Rest /\ sweep = None /\ clock = 0
  /\ inOrder = TRUE /\ clean = TRUE
  /\ announced = None /\ settled = None /\ lost = None /\ upsets = 0

\* isPositionThrottled keeps the last timestamp for five seconds and lets through
\* whatever comes when the key has expired or cannot be read: a late position
\* counts as an upset.
Begin(p) ==
  /\ work = Rest
  /\ \/ p.ts > clock /\ UNCHANGED upsets
     \/ /\ p.ts <= clock /\ p.ts \in LateTimes
        /\ upsets < MaxUpsets /\ upsets' = upsets + 1
  /\ clock' = p.ts
  /\ inOrder' = (HasTrip(device) => inOrder /\ p.ts > clock)
  /\ clean' = TRUE
  /\ work' = [call |-> "read", pos |-> p]
  /\ UNCHANGED <<device, sweep, announced, settled, lost>>

Deciding(d) == work' = [call |-> "save", pos |-> work.pos, from |-> d]

\* getDeviceState
Read ==
  /\ work.call = "read"
  /\ Deciding(device)
  /\ UNCHANGED <<device, sweep, clock, inOrder, clean, announced, settled, lost, upsets>>

\* getDeviceState catches its error and answers null.
ReadFails ==
  /\ Upset
  /\ work.call = "read"
  /\ Deciding(Unseen)
  /\ lost' = announced
  /\ UNCHANGED <<device, sweep, clock, inOrder, announced, settled>>

\* The state machine decides, with the ignition sensor alive or not, and its
\* record is saved before anything is published.
Save ==
  /\ work.call = "save"
  /\ \E useIgnition \in BOOLEAN :
       \E r \in Outcomes(work.from, work.pos, useIgnition) :
         /\ device' = RecordAt(r, "save")
         /\ work' = [call |-> "actions", pos |-> work.pos, from |-> work.from,
                     ign |-> useIgnition, res |-> r, told |-> {}]
  /\ UNCHANGED <<sweep, clock, inOrder, clean, announced, settled, lost, upsets>>

\* The calls that leave the motion state alone and publish nothing.
Pass ==
  /\ work.call \in {"actions", "note", "open"}
  /\ Advance({})
  /\ UNCHANGED <<device, sweep, clock, inOrder, clean, announced, settled, lost, upsets>>

\* publishTripCompleted, publishTripDiscarded
Settle ==
  /\ work.call = "settle"
  /\ Advance({OutcomeOf(work.res)})
  /\ settled' = IF work.res.trip.start = announced THEN announced ELSE settled
  /\ UNCHANGED <<device, sweep, clock, inOrder, clean, announced, lost, upsets>>

\* publishTripStarted
Announce ==
  /\ work.call = "announce"
  /\ Advance({"started"})
  /\ announced' = TripAfterClosing(work.res).start
  /\ settled' = None /\ lost' = None
  /\ UNCHANGED <<device, sweep, clock, inOrder, clean, upsets>>

\* publishStopCompleted, publishStopStarted, or both for the stop of a gap.
PublishStop ==
  /\ work.call \in {"endStop", "startStop", "gapStop"}
  /\ Advance({work.call})
  /\ UNCHANGED <<device, sweep, clock, inOrder, clean, announced, settled, lost, upsets>>

\* saveDeviceState after an action
SaveAgain ==
  /\ work.call \in {"clear", "keepTrip", "keepEnd", "keepStart"}
  /\ device' = RecordAt(work.res, work.call)
  /\ Advance({})
  /\ UNCHANGED <<sweep, clock, inOrder, clean, announced, settled, lost, upsets>>

Finish ==
  /\ work.call = "done"
  /\ work' = Rest
  /\ UNCHANGED <<device, sweep, clock, inOrder, clean, announced, settled, lost, upsets>>

\* The end of the closed trip is still to be published and its successor has
\* taken its place already, or a confirmation is still to be saved.
AtRisk ==
  \/ /\ work.call \in {"actions", "settle"}
     /\ Closes(work.res.acts) /\ "startTrip" \in work.res.acts
  \/ work.call = "keepTrip"

GivenUp == lost' = IF AtRisk THEN announced ELSE lost

\* A call throws: processPosition or executeActions drops the rest.
Drop ==
  /\ Upset
  /\ work.call \in Throwing
  /\ work' = Rest
  /\ GivenUp
  /\ UNCHANGED <<device, sweep, clock, inOrder, announced, settled>>

Crash ==
  /\ Upset
  /\ work # Rest \/ sweep # None
  /\ work' = Rest /\ sweep' = None
  /\ GivenUp
  /\ UNCHANGED <<device, clock, inOrder, announced, settled>>

\* cleanupOrphanRedisStates finds a trip in a record no position has written for
\* half an hour: one that is in progress has not saved yet.
SweepRead ==
  /\ Upset
  /\ sweep = None /\ HasTrip(device)
  /\ work.call \in {"rest", "read", "save"}
  /\ sweep' = device.last
  /\ UNCHANGED <<device, work, clock, inOrder, announced, settled, lost>>

\* The reset keeps the last position and forgets trip, stop and averages.
Preserved(last) == [Unseen EXCEPT !.state = "STOPPED", !.since = last, !.last = last]

SweepWrite ==
  /\ sweep # None
  /\ device' = Preserved(sweep)
  /\ sweep' = None
  /\ clean' = FALSE
  /\ lost' = announced
  /\ UNCHANGED <<work, clock, inOrder, announced, settled, upsets>>

Next ==
  \/ \E p \in Positions : Begin(p)
  \/ Read \/ ReadFails \/ Save \/ Pass \/ Settle \/ Announce \/ PublishStop \/ SaveAgain
  \/ Finish \/ Drop \/ Crash \/ SweepRead \/ SweepWrite

Spec == Init /\ [][Next]_vars

-----------------------------------------------------------------------------

TypeOK ==
  /\ device \in DeviceRecords
  /\ work.call \in CallNames \cup {"rest"}
  /\ sweep \in Nat \cup {None} /\ clock \in Nat
  /\ inOrder \in BOOLEAN /\ clean \in BOOLEAN
  /\ {announced, settled, lost} \subseteq Nat \cup {None}
  /\ upsets \in 0..MaxUpsets

\* A trip the motion state calls confirmed has been announced by trip:started,
\* whatever failed: the confirmation is saved after the event, so a crash
\* between the two repeats the event rather than losing it.
ConfirmedTripWasAnnounced ==
  device.trip.confirmed => announced = device.trip.start

\* An announced trip is in the motion state until trip:completed or
\* trip:discarded settles it, or that event is still to come, unless its record
\* was given up: by a failed read, by the cleanup, or by an interruption before
\* the event of a position that had already put the next trip in its place.
AnnouncedTripIsNotForgotten ==
  announced # None =>
    \/ announced \in {device.trip.start, settled, lost}
    \/ /\ work.call \in {"actions", "settle"}
       /\ Closes(work.res.acts) /\ work.res.trip.start = announced
    \/ work.call = "keepTrip"

\* A trip:completed of a trip whose positions came in order never ends before the
\* trip began, also when an interrupted position has left a stop open that began
\* before the trip.  A position the throttle let through late may open a stop
\* before the trip began.
CompletedTripsAreNotNegative ==
  work.call = "settle" /\ OutcomeOf(work.res) = "completed" /\ inOrder
    => work.res.tripEnd >= work.res.trip.start

\* A position that nothing disturbed does what ProcessPosition of module
\* TripDetection does in one step, to whatever record it found.
CleanPositionsAreAtomic ==
  work.call = "done" /\ clean =>
    \E r \in Outcomes(work.from, work.pos, work.ign) :
      /\ device = [r.device EXCEPT !.trip = TripAfterActions(r), !.stop = StopAfterActions(r)]
      /\ work.told = {e \in {"completed", "discarded"} : OutcomeOf(r) = e}
                       \cup {e \in {"started"} : Confirms(r)}
                       \cup {e \in {"endStop"} : EndsOpenStop(r)}
                       \cup {e \in {"startStop"} : e \in r.acts}
                       \cup {e \in {"gapStop"} : r.gapStop}

\* Whatever went wrong before, one undisturbed position of a device that has
\* parked for minStopDuration or idled for maxIdleDuration closes its trip.
ParkedTripIsClosedAgain ==
  work = Rest /\ clean =>
    /\ device.state = "STOPPED" /\ HasStop(device)
         /\ device.last - device.stop.start >= MinStopDuration => ~HasTrip(device)
    /\ device.state = "IDLE" /\ device.last - device.since >= MaxIdleDuration
       => ~HasTrip(device)

=============================================================================
