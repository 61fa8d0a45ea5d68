# Tripero in TLA+

Tripero turns a stream of GPS positions into trips and stops. This directory
holds its formal model: what each part does, what it promises, what TLC checks
on small instances and what TLAPS proves for all of them. Paths such as
`state-machine.service.ts` are under `src/detection/services/` of the repository
unless they say otherwise.

## 1. The system

### Components, their state, their operations

| Component | State | Operations |
|---|---|---|
| Position subscriber (`position-subscriber.service.ts`) | Redis connection | validate a message, fill in a missing ignition flag, enqueue, reconnect |
| Ignition subscriber | Redis connection | hand ignition events to the tracker state |
| Device queues (`device-queue.manager.ts`) | a map from device to queue object; per object an array and the flag `processing` | `enqueue`, `processQueue`, cleanup of inactive queues |
| Position processor (`position-processor.service.ts`) | none between positions | throttle, tracker state, motion state, state machine, save, actions, heartbeat |
| State machine (`state-machine.service.ts`) | none: motion state in, motion state out | first position, transitions, gaps |
| Distance validator | none | distance a segment is credited with |
| Device state (`device-state.service.ts`) | motion state per device in Redis, throttle key of 5 s | get, save, throttle |
| Tracker state (`tracker-state.service.ts`) | odometer, ignition sensor, trip anchor, in Redis and PostgreSQL | updates by position, ignition, trip events, API |
| Event publisher | none | publish, errors swallowed |
| Event queues (`device-event-queue.manager.ts`) | as the device queues | as the device queues |
| Trip and stop persistence | Redis connection | create, complete, delete rows |
| Repositories (`src/database/`) | rows of `trips` and `stops` | find, create, update, touch, delete, find orphans |
| Orphan cleanup (`orphan-trip-cleanup.service.ts`) | hourly timer | close orphan trips, then stops, then reset motion states |
| Reports, trackers API, health, geocoding, configuration | none of interest | reads, HTTP |

### How they interact

A position comes in over Redis, waits in the queue of its device, and is
processed from beginning to end before the next one of that device. Processing
reads the motion state, runs the state machine, saves the new state and then
publishes events. Trip and stop events leave over Redis and come back to the same
process through two subscribers (one for trips, one for stops), wait in an event
queue per device, and become rows. While a device reports, the processor also
refreshes `updated_at` of the rows of its current trip and stop. Once an hour
the cleanup closes active rows that nobody refreshed. Cleanup, event handlers and
processor share the rows; cleanup and processor share the motion state; processor,
ignition subscriber and API share the tracker state. Nothing locks anything: the
queues are the only mutual exclusion.

### What is hard, and what correctness means

* *State machine and processor.* Behaviour emerges from long sequences: stops,
  ignition toggles, idling, medium gaps, nights. Correct: a stop is open exactly
  while the device stands; a trip is closed by a real stop or a night and by
  nothing else; parked time is not driving time; intervals do not overlap; what
  is announced is settled.
* *Time.* Gaps, and positions that arrive late once the throttle key is gone.
* *Queues.* Callbacks and a cleanup task that forgets queue objects. Correct: one
  item at a time, in order, none forgotten.
* *Persistence.* Lost and repeated events, failing or hanging handlers, restarts,
  and a cleanup that interleaves with the handlers. Correct: what is finished
  stays finished, what is over does not stay active.
* *Failures inside a position.* A read that fails, a call that throws, a crash, or
  the cleanup between two calls. Correct: what the motion state claims was
  published was published; an announced trip is not forgotten silently; the next undisturbed
  position makes up for what was missed.
* *Tracker state.* Read-modify-write sequences of position, ignition events and HTTP
  requests over a cache that expires and a table that lags. Correct: the odometer invents no
  distance, loses some only by a stale write, and measures trips.

`PROJECT.json` lists every component with its status, and under `hazards` each
place where one of these can go wrong, with the properties that would notice.

## 2. The modules

| Module | What it models |
|---|---|
| `StateMachine` | the decisions of `StateMachineService`, as operators |
| `TripDetection` | one device: processor, motion state, throttle, driving `StateMachine` |
| `ActionExecution` | what `executeActions` does to the record and publishes, as operators; shared by the two modules around it |
| `PositionProcessor` | the same position one remote call at a time, with failures, crashes and the cleanup |
| `TrackerState` | odometer and trip anchor: Redis, PostgreSQL and the callers of `TrackerStateService` |
| `OrphanCutoff` | when the cleanup calls a row or a motion state old |
| `Timeline` | abstract: what trip detection promises about a device's history |
| `DeviceQueue` | the queue objects and the manager, for positions and for events |
| `SerialExecutor` | abstract: what a per-device queue promises |
| `Persistence` | rows, events on their way, handlers, heartbeat, cleanup, restarts |
| `RowLifecycle` | abstract: what becomes of the row of a trip or stop |
| `*_proofs` | the theorems about the module of that name; `StateMachine_proofs` holds the lemmas detection and processor share |
| `MC*` | small instances for TLC |

### StateMachine and TripDetection

`device` is the motion state saved in Redis. A record keeps the fields that some
branch or property tells apart; unset fields (`currentTripId === undefined`) are
`NoTrip` and `NoStop`. A trip is named by the time it began. Speeds matter only against
`minMovingSpeed`, so a position says whether its speed reaches it, and the 30 s
average is a class: when the window holds the current position alone its class
is known, otherwise it is either (an over-approximation: every average the code
can compute is allowed). Distances are numbers up to the threshold that
confirms a trip; a short slow segment may count as GPS noise or not.

`ProcessPosition(p)` is `processPosition` and `executeActions` together, one step
per position. That is what the device queue guarantees (`OneAtATime`, below). In
this module no call to Redis or PostgreSQL fails. `SensorExpires` is the
passage of `IGNITION_EXPIRY_DAYS`. With `LatePositions` a position may carry any
timestamp, which is what remains of `isPositionThrottled` once its 5 s key
is gone; without it time goes forward.

`tripEnd`, `stopEnd` and `outcome` are history: what the published events say.

### ActionExecution and PositionProcessor

`TripDetection` takes a position in one step because the device queue runs one at
a time. That hides what happens when one of its calls fails. `PositionProcessor` has the same
state machine and the same actions, but each step is one remote call: read the motion state,
save it, then the calls of `executeActions` in their order (`Calls`), each taken only when the
result `Asks` for it. `work` is the position in progress with the record in
memory: `RecordAt` says what of it each saving call finds there.

* `ReadFails`: `getDeviceState` catches its error, and the position is processed as the first of the device.
* `Drop`: one of the calls in `Throwing` throws; before the first save the whole position is given
  up, after it the remaining actions. Publishing and the odometer update swallow their
  errors: losing an event there is a matter of `Persistence`, and here the call counts as made.
* `Crash` empties memory; Redis keeps the motion state.
* `SweepRead`, `SweepWrite`: `cleanupOrphanRedisStates` reads a record that is half an hour old and resets
  it in a later step. It can only have read before the position in progress saved for the first
  time, since that save renews `lastUpdate`; the write may come at any point.
* `Begin` lets a position through that is no later than the last one taken (`clock`): the throttle key expires after
  5 s, and `isPositionThrottled` answers false when it cannot read it. A late position counts as an upset. It is
  no failure: it is processed like any other, only with intervals that may be negative.
* The ignition sensor's state in the tracker state is an arbitrary boolean.

`announced`, `settled`, `lost`, `clean` and `inOrder` are history: the trip of the last `trip:started`, whether an end event
settled it or its record was given up, whether anything went wrong since the last position
began, and whether every position of the trip in the motion state came in order since it began.

### TrackerState

One device whose places lie on a line, so that distances are exact. `redis` is the cached record,
`row` its row, `call` what each caller is in the middle of: the worker (the queue's loop, one
operation after the other in the order `processPosition` makes them) and `Outsiders` (ignition
events and HTTP requests, at any time). An operation is several steps: `Get` (Redis), `Find`
(the table), `Fill` (`getState` writes the row it found back into Redis), `Save`, and `Persist`, in some
operations always and for positions when the counter in Redis reaches its limit (100, here `PersistEvery`). That
counter takes up to three calls, `Increment` (INCR), `SetTtl` (EXPIRE for the first position) and `ClearCounter`
(DEL at the limit, before the save), any of which may fail or be cut off by a crash. A call is `stale` once
somebody else wrote the record after it was read. `AsRow` turns an undefined anchor
into the 0 that null counts as. `Fail`, `Crash` and `ExpireState` interrupt any of it; the counter may
have expired (`Expirable`). `path`, `since` and `published` are history: the metres the tracker drove from position to
position, the path at which the trip set its anchor, and what the `trip:completed` event says beside
what was driven. `since` is `None` once something has `Disturbs`: a stale write, a reset, a
stretch left out for an impossible speed, a position that was not saved, a lost key, a crash.

### OrphanCutoff

The repositories subtract the timeout in hours, 0.5 as configured, from the hour of a `Date`,
and `setHours` drops the fraction towards zero; the reset of motion states subtracts milliseconds. In
`Persistence` a row may grow old at any time, so nothing there depends on this; the module
proves how far the two are apart.

### Timeline

A device's history with no word about ignition, speed or distance: at most one
trip and one stop open; a trip ends where a stop of `minStopDuration` began or
where a long silence began, and never before it began; the next one begins at
least `minStopDuration` later; stops do not overlap. `TripDetection` implements
it under a refinement mapping of its variables.

### DeviceQueue and SerialExecutor

A step is what JavaScript runs between two awaits: `Enqueue` runs through `add` up to
the first await of `processQueue`, `HandlerSettles` from the settled handler to
the next await or through the `finally` block. Queue objects are kept even after
the manager's map has forgotten them, since a running loop does not need
the map. `DeviceEventQueueManager` is the same algorithm with handlers for items.

### Persistence

One device. `phase` is all that is left of trip detection: whether an interval (a
trip or a stop) is open, announced or over in the saved motion state. Each
publication may be lost; saving the state after it may fail, in which case the
event may be published again; the motion state may forget an interval. A handler
is two steps, lookup and write, and may fail at either. The cleanup is one step
per await: find, load, save. `Restart` empties everything in memory. Rows keep
`is_active`, the kind of closure, and whether `updated_at` is beyond the cutoff.

### RowLifecycle

A row seen by those who read the tables: absent, active, closed one way or the other, or deleted. It
is created active and once, closed, perhaps closed again for the other reason, and never active again;
only trips are deleted, and a deleted one comes back only as the cleanup closes it.
`Persistence` implements it: `life` derives each row's life from `rows` and `over`.

## 3. What TLC checks

| Run | Instance | Result |
|---|---|---|
| `detection` | times 1..11, distances 0, 1, 3 | 10 properties hold, 60 473 states |
| `late_positions` | times 1, 4, 8 in any order, distances 0, 1, 3 | 6 properties hold, 23 624 states |
| `queues` | two devices, one whose handlers may hang, 4 items each | 5 properties hold, 5 041 states |
| `persistence` | a trip and a stop, 2 events on their way | 5 properties hold, 49 256 states |
| `faults` | times 1, 2, 4, 6, 10, distances 0, 3, 2 failures, crashes, resets or late positions | 6 properties hold, 3 579 943 states |
| `tracker` | 2 places, a path of 1, one outside caller, a save every 3 positions, 2 disturbances | 5 properties hold, 2 107 444 states |

What they say, apart from the type invariants (that of `tracker` also bounds the counter of positions: a DEL that
failed leaves it at its limit, and each later position tries again):

* `StopOpenIffStanding`, `TripOpensBeforeStop`, `ParkedTripIsClosed`,
  `TripsAreSeparated`, `ShortStopsNeverEndTrips`: the history of a device is
  consistent whatever sequence of stops, toggles and gaps led there.
* `AnnouncedTripIsSettled`: no announced trip disappears without its end event.
* `EarnedTripIsConfirmed`: a trip far or long enough to be announced is announced by the end of its position.
* `ImplementsTimeline`: the refinement.
* `StandingKeepsItsStop`: while the device stands it keeps one stop: no toggle of the ignition and no silence ends
  it, or ends it and opens another in the same step, which an equivalence of stop and standing would not notice.
* `OnlyNightsLeaveDriversTripless`, `ParkedTripsAreLongEnough`: even for late positions, a moving device
  has a trip unless a night took it, and a trip completed because the device parked has the published
  length it was judged by. These two and `EarnedTripIsConfirmed` say how far the
  disagreements listed below go.
* `StopsEndAfterBeginning`: late positions end no stop before it began.
* `OneAtATime`, `NoLostWakeup`, `ImplementsSerialExecutor`, `EveryItemIsHandled`:
  the promises of the queues.
* `FinishedStaysFinished`, `NothingStaysActive`: the promises of persistence.
* `ImplementsRowLifecycle`: the second refinement.
* `OnlyTheCleanupRevives`: `save` is an upsert, so a write after the delete brings a row back. Only the
  cleanup does that, with a closed row.
* `ConfirmedTripWasAnnounced`: the confirmation is saved after its event, so an interruption repeats
  `trip:started` and never loses it.
* `AnnouncedTripIsNotForgotten`: an announced trip is in the motion state, settled, about to be, or was
  given up in one of the named ways: a failed read, a reset, or an interruption of a
  position whose first save had already replaced the trip or whose confirmation was not saved.
* `CompletedTripsAreNotNegative`: an interrupted position may leave a stop open that is older than the
  trip; the state machine does not end the trip there as long as the positions of that trip arrive in order, whatever
  came late before it. One late position of its own is enough to break it (below).
* `CleanPositionsAreAtomic`: a position nothing disturbs does what `ProcessPosition` of
  `TripDetection` does, to whatever record earlier interruptions left.
* `ParkedTripIsClosedAgain`: after any interruption, one undisturbed position of a device that has
  parked or idled long enough closes the trip.
* `OdometerIsEarned`: no copy of the record, cached, stored or in a call, counts a metre that was
  not driven or granted by a reset, even with the stretch from its last place still to come.
* `OnlyStaleWritesForget`: while Redis holds the record, the odometer falls only by a reset or a stale write.
* `UndisturbedTripsAreMeasured`: a trip nothing disturbed is published with the distance really driven since it
  began, position by position, whatever outside calls ran beside it.
* `OnlyResetsMakeTripsNegative`: anchor and odometer travel in one record, so no stale write, late row or lost key
  parts them; only a reset makes a trip's distance negative.

Some behaviours the last two runs allow, and no document of the repository denies:

* When the save of a confirmation fails and the next position closes the trip as too short, the
  trip was announced and vanishes without an event. Its row waits for the cleanup.
* A position that resumes and is dropped after its first save leaves a stop open that is older
  than the trip it began. The first standing position measures the trip up to that
  stop, finds no positive length and discards it, however far it went.
* When `onTripCompleted` throws after `trip:completed` went out, the next position of the parked
  device publishes `trip:completed` again.
* A position that arrives later than one with a greater timestamp, more than 5 s after it or while the
  throttle key cannot be read, and finds the device standing, opens a stop at its own time. If that is before the trip began, resuming after
  `minStopDuration` publishes a `trip:completed` that ends before it begins.
* Resetting the odometer during a trip gives its end a meaningless, possibly negative distance;
  `UndisturbedTripsAreMeasured` excludes such a trip, `OnlyResetsMakeTripsNegative` names it.
* An outside call that read before a position and writes after it takes that position's
  distance back. The next position measures from the older place, so driving out and back is lost.

`TripOpensBeforeStop`, `TripsAreSeparated`, `ShortStopsNeverEndTrips` and `ImplementsTimeline` need
positions in order; they are not claimed for late ones.

### Statements of the repository the code does not keep

Each of these has a run that finds it violated; `findings` in `PROJECT.json` quotes the text.

| Property | What happens |
|---|---|
| `DrivingBelongsToTrip` | moving before a night and moving after it: the trip is closed, none is begun |
| `ParkedTimeBelongsToStop` | parked, then a night before the next report: the trip ends at the last report, inside the stop |
| `CompletedTripsAreLongEnough` | judged up to now, published up to the stop |
| `CompletedTripsWereAnnounced` | the position that would confirm a trip closes it: completed, never announced, lost |
| `FinishedStopCountsOnce` | state machine and processor both count the stop |
| `NaturalClosureStands` | the cleanup overwrites a closure written after it listed the row |

Other statements are older than the code they describe. The code says what it does instead, in comments of its
own, and a property that *holds* is the counterexample:

| Statement | What the code does, and the property that says so |
|---|---|
| `TESTING.md:236-244` (case 1) and `:258-265` (case 2, the line that also promises `stopsCount: 1`) expect `trip:completed` from the report that switches the ignition off, seconds after driving; `REDIS_EVENTS.md:271` lists "Ignición OFF" among its triggers | Switching off opens a stop. The trip is closed once that stop has lasted `minStopDuration`, by a night, or by long idling: `ShortStopsNeverEndTrips`. |
| `state-machine.service.spec.ts:79-121`, `:137-163` and `:233-277` expect `endStop` and `startStop` together, a new stop and a new beginning when the ignition is toggled while the device stands; the comment at `position-processor.service.ts:426-430` takes that for granted | `state-machine.service.ts:768-778`: the vehicle still stands, the same stop stays open. `StandingKeepsItsStop`, and `ImplementsTimeline`, whose `Timeline` has no step from one stop to another. |
| `REDIS_EVENTS.md:384`: `stop:completed` is published when "el trip finaliza con un stop activo" | Closing a trip leaves the stop alone; it ends when the device moves: `StopOpenIffStanding`, `StandingKeepsItsStop`. |
| `tracker-state.service.ts:577`: the record is persisted "cada 100 posiciones o cada hora" | The hour is the TTL of the counter: the key is dropped and nothing is saved, so a device that sends fewer than a hundred positions an hour is saved by its events alone (`Expirable`, `Increment`). No property. |

### Bounds

* `MaxTime` = 11 with `MinStopDuration` = 3, `MaxGapDuration` = 3,
  `OvernightGapDuration` = 5, `MaxIdleDuration` = 5, `EffWindow` = 3: the order of the
  thresholds is that of the code (300 s, 600 s, 1800 s, 1800 s, 300 s), every comparison occurs
  on both sides, and there is time for a trip, a night or a long stop, and another trip.
* `StopsCap`, `ConfirmPositions` and `MinTripDistance` cap counters that are compared with nothing larger.
* The late instance has three timestamps, 3 (`MinStopDuration`), 4 (a gap) and 7 (a night) apart, in any order and repeated.
* `MaxItems` = 4: a queue object can be forgotten, replaced and forgotten again.
* `MaxPending` = 2 events on their way: enough to repeat an event, and to have a
  trip's and a stop's event wait together.
* `faults`: `MinStopDuration` = `MaxGapDuration` = `MaxIdleDuration` = 2 and `OvernightGapDuration` = 4 with gaps of 1, 2, 4 and
  more between the five timestamps; a move confirms a trip or is nothing. `MaxUpsets` = 2 lets a
  second failure hit what the first one left, a crash hit a pending reset, or a failure follow a late position.
  A late position carries the timestamp in the middle (`LateTimes` = {4}): after it a position in order may follow, or
  the second late one. With it, `CompletedTripsAreNotNegative` without `inOrder` is violated.
* `tracker`: `PersistEvery` = 3, so that a position may be the first one counted, one in between, or the one
  at the limit, and the row lags and catches up; a path of one metre
  there and no further, repeated positions as many as one likes; `Resets` = {0}. Two disturbances allow an outside operation with a
  lost key, a failure or a crash in the middle. A path of two, there and back
  (9 969 612 states), passes as well and takes longer; the proofs hold for all of these constants.

`detection` and `faults` end when the timestamps are used up, so `CHECK_DEADLOCK FALSE`
there; the other systems never stop, and deadlock is checked. `faults` and `tracker` claim no liveness:
what they are about is what must not happen.

### Fairness

* `DeviceQueue`: weak fairness of `HandlerSettles` for the devices in `Healthy`, whose
  handlers settle. Nothing is assumed of the others, of the callers, of time
  or of the cleanup task.
* `Persistence`: weak fairness of `Age` (time passes) and strong fairness of the
  cleanup's steps: the timer fires for ever, and outages or restarts do not
  prevent one of its queries every single time. Handlers are assumed nothing of; they may hang.

## 4. What TLAPS proves

All for every value of the constants that satisfies the stated assumptions
(`ThresholdAssumption`, `InputAssumption`, `ProcessorAssumption`, `TrackerAssumption`, `DeviceAssumption`, `IntervalAssumption`); TLC
evaluates them in each run. The thresholds' assumption is about their order, as in `DEFAULT_THRESHOLDS`; it also says that a trip is not
confirmed by going nowhere or by its first position (`minTripDistance` 100 m, three positions).

**`TripDetection_proofs`.** For any order of arrival: `TypesArePreserved`,
`StandingDevicesHaveStops`, `ParkingClosesTrips`, `AnnouncedTripsAreSettled`, `StopsEndInOrder`, `EarnedTripsAreConfirmed`,
`DriversHaveTripsExceptAfterNights`, `ParkedTripsAreKeptForLength`, `StandingDevicesKeepTheirStop`. When positions arrive in order:
`TripsPrecedeTheirStops`, `TripsStaySeparated`, `SegmentationNeedsRest`,
`DetectionImplementsTimeline`. The argument: `StopOpenIffStanding` is inductive
with the types, because what the state machine opens the processor does not
clear in the same step. `ParkedTripIsClosed` needs it to know that a stopped device
has a stop to be measured. In order of time, the invariant adds that the trip is older than the
stop, that the stop and every end lie in the past, and the distance between
trips; with these each way of closing a trip (resumption, parking, idling, the night) gives
an end that `Timeline` allows. `StandingDevicesKeepTheirStop` follows from `StopOpenIffStanding`: the
actions that begin a stop while the device stands ask for none in progress. `AnnouncedTripsAreSettled` needs that a record without a state is
`Unseen`, so that a first position finds no trip to replace. The proof goes by the outcome of one position,
since `Next` is one action with many branches.

**`Timeline_proofs`.** `HistoryIsChronological`: the abstract history is in order.

**`DeviceQueue_proofs`.** `QueueTypes`, `ItemsRunOneAtATime`, `WaitingItemsAreServed`,
`QueueImplementsSerialExecutor`. The invariant: an object runs an item exactly
when it is processing; objects the map has forgotten are idle and empty; the item
in progress and those waiting are the consecutive numbers after the handled ones.

**`Persistence_proofs`.** `TypesArePreserved`, `FinishedRowsStayFinished`. The
property alone is not inductive: a start event may be repeated when its row is
long over. The invariant adds that a handler about to create a row is in time
(the row is absent and was never active), that a deleted row is beyond any
further start, and that events come in order: no start behind a discard. `DeletedRowsStayDeleted` needs in
addition that a handler about to write the end of a row still has the row: handlers run one
at a time, and only they delete. `RowsImplementLifecycle` adds (`LifeInv`) that a closed row was active
once, so that a row never comes into being closed; that what the cleanup has loaded was there, so that
its write revives and never creates; and that discards, on their way or in hand, concern trips.

**`OrphanCutoff`.** `CutoffsDifferByLessThanAnHour`, `WholeHoursAgree`, `FractionsAreNotKept`: for whole hours the two cutoffs
agree; with the configured half hour a row is given an hour, and in the hour after local midnight
none at all, so that a cleanup at 00:20 closes every active row. Times are whole minutes and the day has 24 hours.

**`PositionProcessor_proofs`.** For any number of failures, crashes, resets and late positions: `ProcessorTypes`, `ConfirmedTripsWereAnnounced`,
`AnnouncedTripsAreNotForgotten`, `CompletedTripsStayPositive`, `UndisturbedPositionsAreAtomic`,
`ParkedTripsAreClosedAgain`. None of them is inductive: each is about what the saved record and the
position in progress say together. The invariants follow the place in `Calls`:

* `Typed`: what a position carries at each place, its result an outcome of the state machine on the record it read.
* `ConfirmationsTold`: a confirmed trip was announced, in the saved record, in the record read, and
  in memory once `announce` is behind.
* `AnnouncedTripHeld`: where an announced trip still is: in the record, or closed by the result while `settle` is ahead.
* `RecordsInOrder`, while the positions of the trip arrive in order: it does not begin in the future of its record, nor
  is that record ahead of the last position taken; while the device stands its stop is not older than
  its trip (while it moves, a stop left behind may be); the end of a completed trip is not before its beginning.
* `StepsInOrder`: the record saved so far and the events published so far are those of the result up to
  that place, as long as the position is clean; at `done` this is `CleanPositionsAreAtomic`, at rest
  it leaves the parked trip closed.

**`TrackerState_proofs`.** For any places, outsiders and disturbances: `TrackerTypes`, `OdometerNeverInflated`,
`TripsAreMeasured`, `OdometerForgetsWhenStale`, `NegativeTripsNeedResets`. `OdometerIsEarned` is inductive with the types and the
operations a caller can be in the middle of (`OdoInv`; `CounterInv` adds that unless the worker
is about to delete the counter it is below its limit plus the disturbances so far): by the triangle inequality the stretch to a new place is covered by what a
copy still had to come. `Measured` adds that a call which is not stale works on the cached record, and,
as long as a trip is undisturbed, that the cached odometer plus the stretch a position under way has
yet to add is ahead of the anchor by what was driven (`OnRoad`); between positions that stretch is nothing,
which is when the distance is read. For `NegativeTripsNeedResets` every record an operation other than a reset writes
is shown not to be behind its anchor unless the copy it was made from was.

Every safety property a passing run checks is proved. Only model-checked, because out of reach of
the prover: liveness (`EveryItemIsHandled`, `NothingStaysActive`).

## 5. What is not modelled

* Subscribers: validation, the ignition flag filled in from the tracker state, and the second
  subscriber created when a connection closes. Each of them only changes which positions
  reach the queue, in which order and how often; `late_positions` takes any.
* Redis as such: prefixes, connection, TTLs. An expired motion state acts as a failed read.
* The tracker state's statistics, status report, ignition expiry in days (a step of `TripDetection`) and its events.
* Failing publications inside `PositionProcessor`: swallowed, and lost in `Persistence`.
* Coordinates, speeds as numbers, quality metrics, GPS noise heuristics: choices among what the code can answer.
* The quality metrics and the backfill of closed orphans: data of a row that is over.
* Reports, HTTP routing, health, geocoding, configuration: no state of their own.

## 6. Plan

In order of importance; all but 6 and 7 are done.

1. `StateMachine`, `TripDetection`, `Timeline`: the core, its refinement, its proofs.
2. `DeviceQueue`, `SerialExecutor`: what lets `TripDetection` take a position as one step.
3. `Persistence`, `RowLifecycle`, `OrphanCutoff`: rows against lost events and cleanup.
4. `PositionProcessor`: the same position with failing calls, crashes and resets.
5. `TrackerState`: read-modify-write of position, ignition, trip events and API.
6. `Subscriber`: duplication of positions before the queue, composed with `DeviceQueue`.
7. `DistanceValidator`: adjusted distances against a reference, over bounded tracks.
8. Theorems: every safety property of 1 to 5, for any constants.
