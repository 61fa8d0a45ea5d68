----------------------------- MODULE Persistence -----------------------------
(***************************************************************************)
(* The rows of tables trips and stops for one device, and who writes them: *)
(*   - TripPersistenceService and StopPersistenceService, whose handlers   *)
(*     run one at a time in the device's event queue (module DeviceQueue); *)
(*   - PositionProcessorService, which refreshes updated_at of the trip    *)
(*     and the stop in progress (touchTrip, touchStop);                    *)
(*   - OrphanTripCleanupService, which closes rows nobody refreshes.       *)
(* A step is what one of them does between two awaits on the database.     *)
(* "Interval" is a trip or a stop.  Events of the two kinds arrive over    *)
(* two Redis connections, in order on each and in any order between them.  *)
(* What the device does is reduced to the events it may publish.           *)
(***************************************************************************)
EXTENDS Naturals, Sequences

CONSTANTS
  Trips, Stops,   \* identifiers the device gives to its trips and stops
  MaxPending      \* bound: events on their way at a time

ASSUME IntervalAssumption == Trips \cap Stops = {} /\ MaxPending \in Nat

Intervals == Trips \cup Stops

VARIABLES
  phase,     \* per interval, what the motion state in Redis says of it
  inbox,     \* per connection, events published and not yet taken by a handler
  handler,   \* the event handler in progress
  rows,      \* per interval, its row
  sweep,     \* the run of the orphan cleanup in progress
  over       \* history: intervals whose row was active once and no longer is

vars == <<phase, inbox, handler, rows, sweep, over>>

Connections == {"trips", "stops"}
Connection(i) == IF i \in Trips THEN "trips" ELSE "stops"
Phases == {"future", "open", "announced", "settled"}
Events == [kind : {"started", "completed", "discarded"}, id : Intervals]

\* Of a row: is_active, metadata.closureType, and whether updated_at is older
\* than orphanTripTimeout (kept for active rows only, nobody else asks).
NoRow == [active |-> FALSE, closure |-> "absent", stale |-> FALSE]
NewRow == [active |-> TRUE, closure |-> "none", stale |-> FALSE]
OldRow == [active |-> TRUE, closure |-> "none", stale |-> TRUE]
Closed(closure) == [active |-> FALSE, closure |-> closure, stale |-> FALSE]
Rows == {NoRow, NewRow, OldRow, Closed("natural"), Closed("timeout")}

\* The handler past its findById: what it is about to write, for which row.
Free == [step |-> "free"]
Handlers == {Free} \cup [step : {"create", "update", "delete"}, id : Intervals]

\* The cleanup works through the rows it listed; those in loaded were read by
\* update and are about to be saved (one at a time).
Asleep == [table |-> "none", listed |-> {}, loaded |-> {}]
Sweeps == [table : {"none"} \cup Connections,
           listed : SUBSET Intervals, loaded : SUBSET Intervals]

\* repository.save writes the whole entity, whether or not its row is there.
Save(i, row) ==
  /\ rows' = [rows EXCEPT ![i] = row]
  /\ over' = IF rows[i].active /\ ~row.active THEN over \cup {i} ELSE over

Init ==
  /\ phase = [i \in Intervals |-> "future"]
  /\ inbox = [c \in Connections |-> << >>]
  /\ handler = Free
  /\ rows = [i \in Intervals |-> NoRow]
  /\ sweep = Asleep
  /\ over = {}

-----------------------------------------------------------------------------
(* The device's motion state and the events it gives rise to.              *)

\* EventPublisherService swallows an error of publish: the event is lost.
Publish(kind, i) ==
  LET c == Connection(i)
  IN  /\ Len(inbox["trips"]) + Len(inbox["stops"]) < MaxPending
      /\ \/ inbox' = [inbox EXCEPT ![c] = Append(@, [kind |-> kind, id |-> i])]
         \/ UNCHANGED inbox

\* The state is saved after the event is out.  When that fails, or the process
\* dies between the two, the interval is still what it was and the event may be
\* published again.
SetPhase(i, new) ==
  \/ phase' = [phase EXCEPT ![i] = new]
  \/ UNCHANGED phase

Begin(i) ==
  /\ phase[i] = "future"
  /\ phase' = [phase EXCEPT ![i] = "open"]
  /\ UNCHANGED <<inbox, handler, rows, sweep, over>>

\* trip:started once the trip is confirmed, which the saved state says after the
\* event; stop:started at once, when the saved state holds the stop already.
Announce(i) ==
  /\ phase[i] = "open"
  /\ Publish("started", i)
  /\ SetPhase(i, "announced")
  /\ i \in Stops => phase'[i] = "announced"
  /\ UNCHANGED <<handler, rows, sweep, over>>

\* A trip may be completed without ever having been announced.
Complete(i) ==
  /\ phase[i] = "announced" \/ (phase[i] = "open" /\ i \in Trips)
  /\ Publish("completed", i)
  /\ SetPhase(i, "settled")
  /\ UNCHANGED <<handler, rows, sweep, over>>

\* Only announced trips are discarded with an event.
Discard(i) ==
  /\ i \in Trips /\ phase[i] = "announced"
  /\ Publish("discarded", i)
  /\ SetPhase(i, "settled")
  /\ UNCHANGED <<handler, rows, sweep, over>>

\* The motion state forgets the interval without an event: an unannounced trip
\* is dropped, the key expires or cannot be read, the cleanup resets it, or the
\* process dies after the state was saved and before its events are out.
Forget(i) ==
  /\ phase[i] \in {"open", "announced"}
  /\ phase' = [phase EXCEPT ![i] = "settled"]
  /\ UNCHANGED <<inbox, handler, rows, sweep, over>>

\* touchTrip, touchStop: an UPDATE that finds the row or does nothing.
Touch(i) ==
  /\ phase[i] \in {"open", "announced"} /\ rows[i] = OldRow
  /\ rows' = [rows EXCEPT ![i] = NewRow]
  /\ UNCHANGED <<phase, inbox, handler, sweep, over>>

\* orphanTripTimeout goes by without a change of the row.
Age(i) ==
  /\ rows[i] = NewRow
  /\ rows' = [rows EXCEPT ![i] = OldRow]
  /\ UNCHANGED <<phase, inbox, handler, sweep, over>>

-----------------------------------------------------------------------------
(* The event handlers.                                                     *)

\* Mutant: the row is created without looking for one.
StepAlways(e) ==
  CASE e.kind = "started" -> "create"
    [] e.kind = "completed" /\ rows[e.id] # NoRow -> "update"
    [] e.kind = "discarded" /\ rows[e.id] # NoRow -> "delete"
    [] OTHER -> "free"

\* Mutant: an end writes its row whether or not there is one.
StepUpserting(e) ==
  CASE e.kind = "started" /\ rows[e.id] = NoRow -> "create"
    [] e.kind = "completed" -> "update"
    [] e.kind = "discarded" /\ rows[e.id] # NoRow -> "delete"
    [] OTHER -> "free"

\* A start is ignored when the row is there, an end when it is not.
StepFor(e) ==
  CASE e.kind = "started" /\ rows[e.id] = NoRow -> "create"
    [] e.kind = "completed" /\ rows[e.id] # NoRow -> "update"
    [] e.kind = "discarded" /\ rows[e.id] # NoRow -> "delete"
    [] OTHER -> "free"

\* findById; an error there is logged and the event is gone.
LookUp(c) ==
  /\ handler = Free /\ inbox[c] # << >>
  /\ inbox' = [inbox EXCEPT ![c] = Tail(@)]
  /\ LET e == Head(inbox[c])
     IN  handler' \in {Free, IF StepFor(e) = "free" THEN Free
                             ELSE [step |-> StepFor(e), id |-> e.id]}
  /\ UNCHANGED <<phase, rows, sweep, over>>

\* Mutant: the final data are written, the flag is not.
RowForLeftActive(step) ==
  CASE step = "create" -> NewRow
    [] step = "update" -> [Closed("natural") EXCEPT !.active = TRUE]
    [] step = "delete" -> NoRow

RowFor(step) ==
  CASE step = "create" -> NewRow
    [] step = "update" -> Closed("natural")
    [] step = "delete" -> NoRow

\* create, update or delete, after geocoding; an error is logged as well.
Write ==
  /\ handler # Free
  /\ handler' = Free
  /\ Save(handler.id, RowFor(handler.step)) \/ UNCHANGED <<rows, over>>
  /\ UNCHANGED <<phase, inbox, sweep>>

-----------------------------------------------------------------------------
(* The orphan cleanup: trips first, then stops.                            *)

Members(c) == IF c = "trips" THEN Trips ELSE Stops

\* Mutant: the query for orphan stops finds nothing.
OrphanTrips(c) == {i \in Members(c) \cap Trips : rows[i] = OldRow}

Orphans(c) == {i \in Members(c) : rows[i] = OldRow}

FindOrphans(c) ==
  /\ sweep = [Asleep EXCEPT !.table = IF c = "trips" THEN "none" ELSE "trips"]
  /\ \/ sweep' = [table |-> c, listed |-> Orphans(c), loaded |-> {}]
     \/ sweep' = [Asleep EXCEPT !.table = c]   \* the query failed
  /\ UNCHANGED <<phase, inbox, handler, rows, over>>

EndCleanup ==
  /\ sweep = [Asleep EXCEPT !.table = "stops"]
  /\ sweep' = Asleep
  /\ UNCHANGED <<phase, inbox, handler, rows, over>>

\* update begins with findById and leaves a missing row alone.
LoadOrphan(i) ==
  /\ i \in sweep.listed /\ sweep.loaded = {}
  /\ sweep' = [sweep EXCEPT !.listed = @ \ {i},
                            !.loaded = IF rows[i] = NoRow THEN {} ELSE {i}]
  /\ UNCHANGED <<phase, inbox, handler, rows, over>>

CloseOrphan(i) ==
  /\ i \in sweep.loaded
  /\ sweep' = [sweep EXCEPT !.loaded = {}]
  /\ Save(i, Closed("timeout"))
  /\ UNCHANGED <<phase, inbox, handler>>

\* An error is logged and the next orphan is taken up.
CloseFails(i) ==
  /\ i \in sweep.loaded
  /\ sweep' = [sweep EXCEPT !.loaded = {}]
  /\ UNCHANGED <<phase, inbox, handler, rows, over>>

\* The process dies: Redis and PostgreSQL keep their data, events on their way
\* and handlers in progress are lost.
Restart ==
  /\ inbox' = [c \in Connections |-> << >>]
  /\ handler' = Free
  /\ sweep' = Asleep
  /\ UNCHANGED <<phase, rows, over>>

-----------------------------------------------------------------------------

Device(i) ==
  Begin(i) \/ Announce(i) \/ Complete(i) \/ Discard(i) \/ Forget(i) \/ Touch(i)

Cleanup(i) == LoadOrphan(i) \/ CloseOrphan(i) \/ CloseFails(i)

Next ==
  \/ \E i \in Intervals : Device(i) \/ Age(i) \/ Cleanup(i)
  \/ \E c \in Connections : LookUp(c) \/ FindOrphans(c)
  \/ Write \/ EndCleanup \/ Restart

Spec == Init /\ [][Next]_vars

\* Time passes, and the hourly cleanup is not for ever prevented from one of its
\* steps: outages and restarts do not go on and on.  Handlers may hang.
FairSpec ==
  /\ Spec
  /\ \A i \in Intervals :
       WF_vars(Age(i)) /\ SF_vars(LoadOrphan(i)) /\ SF_vars(CloseOrphan(i))
  /\ \A c \in Connections : SF_vars(FindOrphans(c) /\ sweep'.listed = Orphans(c))
  /\ SF_vars(EndCleanup)

-----------------------------------------------------------------------------

TypeOK ==
  /\ phase \in [Intervals -> Phases]
  /\ inbox \in [Connections -> Seq(Events)]
  /\ handler \in Handlers
  /\ rows \in [Intervals -> Rows]
  /\ sweep \in Sweeps
  /\ over \subseteq Intervals

\* A trip or stop once closed or deleted never becomes active again, whichever
\* events are repeated or lost and however the cleanup interleaves with the
\* handlers: no zombie shows up on the map.
FinishedStaysFinished == \A i \in over : ~rows[i].active

\* The row of a discarded trip stays deleted, except that the cleanup saves it
\* back when it had loaded it before, and then as closed: no repeated or delayed
\* event of the device brings it back.
OnlyTheCleanupRevives ==
  [][\A i \in over : rows[i] = NoRow /\ rows'[i] # NoRow
       => i \in sweep.loaded /\ rows'[i] = Closed("timeout")]_vars

\* The rows live as module RowLifecycle promises: created active and only once,
\* never created closed, stops never deleted, whatever handlers and cleanup do
\* to the same row between each other's lookup and save.
LifeOf(i) ==
  IF rows[i] = NoRow THEN (IF i \in over THEN "deleted" ELSE "absent")
  ELSE IF rows[i].active THEN "active" ELSE rows[i].closure

life == [i \in Intervals |-> LifeOf(i)]

Lifecycle == INSTANCE RowLifecycle
ImplementsRowLifecycle == Lifecycle!Spec

\* Whatever the device is through with does not stay active for ever: when the
\* event that should close it is lost or its handler fails or hangs, the cleanup
\* does.
NothingStaysActive ==
  \A i \in Intervals : []<>(phase[i] # "settled") \/ <>[](~rows[i].active)

-----------------------------------------------------------------------------
(* Statements of the repository that the code does not keep.               *)

\* Only genuine orphans are closed by the cleanup: a natural closure stands.
NaturalClosureStands ==
  [][\A i \in Intervals :
       rows[i].closure = "natural" => rows'[i].closure # "timeout"]_vars

=============================================================================
