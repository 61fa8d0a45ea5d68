---------------------------- MODULE TrackerState ----------------------------
(***************************************************************************)
(* TrackerStateService (src/detection/services/tracker-state.service.ts):  *)
(* the odometer, last position and trip anchor of one tracker, cached in   *)
(* Redis and saved from time to time in PostgreSQL.  Every operation reads *)
(* the whole record, changes its own copy and writes the whole record      *)
(* back, one remote call at a time.  The worker of the device queue runs   *)
(* the operations of a position in order; ignition events and HTTP         *)
(* requests run beside it, outside the queue.  Any call may fail, the      *)
(* process may crash and Redis may drop the keys.                          *)
(*                                                                         *)
(* Places are points of a line, so the distance between two of them obeys  *)
(* the triangle inequality, which is all that is used of haversine.        *)
(***************************************************************************)
EXTENDS Integers

CONSTANTS
  Places,        \* where the tracker may be
  Resets,        \* values resetOdometer may be given
  PersistEvery,  \* positions between two periodic saves (100)
  Outsiders,     \* concurrent callers other than the worker
  MaxPath,       \* bound: the distance driven
  MaxUpsets      \* bound: outside operations, failures, crashes and lost keys together

CONSTANT Worker  \* the caller that processes the positions of the device

ASSUME TrackerAssumption ==
  /\ Places \subseteq Nat /\ Resets \subseteq Nat
  /\ PersistEvery \in Nat \ {0, 1} /\ MaxPath \in Nat /\ MaxUpsets \in Nat
  /\ Worker \notin Outsiders

VARIABLES
  redis,      \* tracker:state:<id>, or Gone
  row,        \* the row of tracker_state, or Gone
  counter,    \* tracker:state:<id>:persist_counter, or NoCounter
  call,       \* the operation each caller is in the middle of
  stage,      \* where the worker is in the operations of its position
  here,       \* history: place of the last position, None before the first
  path,       \* history: distance driven from position to position
  granted,    \* history: largest value an odometer reset asked for
  since,      \* history: path when the current trip set its anchor, None
              \* without one or after a disturbance
  published,  \* history: distance of the last trip:completed beside the one driven
  upsets      \* outside operations, failures, crashes and lost keys so far

vars == <<redis, row, counter, call, stage, here, path, granted, since, published, upsets>>

None    == -1
Callers == Outsiders \cup {Worker}

-----------------------------------------------------------------------------
(* The record, of which the fields that drive a decision are kept.         *)

\* tripOdometerStart: None when undefined.
States == [odo : Nat, place : Places \cup {None}, anchor : Nat \cup {None}]

Gone  == [odo |-> None]
\* createInitialState
Fresh == [odo |-> 0, place |-> None, anchor |-> None]

\* How many positions the counter counts and whether the key has its hour to live.
Counters  == [value : Nat, ttl : BOOLEAN]
NoCounter == [value |-> 0, ttl |-> FALSE]

\* The column holds null for an absent anchor, and null counts as 0 once read.
AsRow(s) == [s EXCEPT !.anchor = IF @ = None THEN 0 ELSE @]

Dist(a, b) == IF a < b THEN b - a ELSE a - b

\* Mutant: without a last position the distance is taken from the origin.
DeltaFromOrigin(s, op) == IF op.jump THEN 0 ELSE Dist(IF s.place = None THEN 0 ELSE s.place, op.place)

\* Nothing without a last position or for an impossible jump forwards in time.
Delta(s, op) ==
  IF s.place = None \/ op.jump THEN 0 ELSE Dist(s.place, op.place)

-----------------------------------------------------------------------------
(* Operations.                                                             *)

Plain(name)     == [name |-> name]
Position(q, j)  == [name |-> "position", place |-> q, jump |-> j]
Reset(v)        == [name |-> "reset", value |-> v]

\* What follows a position, in order: hasIgnition is read, an overnight gap
\* noted, the anchor read, a trip closed, a trip opened, a state change
\* announced and noted.  The state machine decides which of them happen.
StageOf == [sensor |-> 1, gap |-> 2, anchor |-> 3, completed |-> 4, started |-> 5,
            announce |-> 6, motion |-> 7]
StageNames == DOMAIN StageOf
Done       == 8
Optional   == {"gap", "started"}
\* Where a position may be over: no transition, or all of it done.
Resting    == {StageOf["started"], StageOf["announce"], Done}

Reads    == {"sensor", "anchor", "announce", "status"}    \* getState alone
Creates  == {"position", "motion", "ignition"}            \* else createInitialState
Persists == {"completed", "gap", "ignition", "reset", "setOdometer"}

\* jump: faster than 200 km/h since lastPositionTime, which ignition events move
\* as well and with any timestamp, so both answers are possible everywhere.
PositionOps == {Position(q, j) : q \in Places, j \in BOOLEAN}
OutsiderOps == {Reset(v) : v \in Resets}
                 \cup {Plain(n) : n \in {"ignition", "setOdometer", "status"}}
Ops == PositionOps \cup OutsiderOps \cup {Plain(n) : n \in StageNames}

\* Mutant: a trip keeps the anchor an earlier one left, a discarded one say.
AnchorKept(s, op) ==
  CASE op.name = "position"  ->
         [odo |-> s.odo + Delta(s, op), place |-> op.place, anchor |-> s.anchor]
    [] op.name = "started" /\ s.anchor = None -> [s EXCEPT !.anchor = s.odo]
    [] op.name = "completed" -> [s EXCEPT !.anchor = None]
    [] op.name = "reset"     -> [s EXCEPT !.odo = op.value]
    [] OTHER -> s

\* The changed record each operation writes back.
Changed(s, op) ==
  CASE op.name = "position"  ->
         [odo |-> s.odo + Delta(s, op), place |-> op.place, anchor |-> s.anchor]
    [] op.name = "started"   -> [s EXCEPT !.anchor = s.odo]
    [] op.name = "completed" -> [s EXCEPT !.anchor = None]
    [] op.name = "reset"     -> [s EXCEPT !.odo = op.value]
    [] OTHER -> s

-----------------------------------------------------------------------------
(* Calls.  Each step is one remote call and what the code does until the   *)
(* next one.  A call is stale once somebody else has written the record    *)
(* after this call began to read it.                                       *)

Steps == {"idle", "get", "find", "fill", "save", "incr", "expire", "clear", "persist"}
Calls == [op : Ops, pc : Steps, copy : States, stale : BOOLEAN]

Calling(op) == [op |-> op, pc |-> "get", copy |-> Fresh, stale |-> FALSE]
Idle == [op |-> Plain("status"), pc |-> "idle", copy |-> Fresh, stale |-> FALSE]

At(c, pc) == call[c].pc = pc
\* The call of c at its next step, with the record it now works on.
Carrying(c, s, pc) == [op |-> call[c].op, pc |-> pc, copy |-> s, stale |-> call[c].stale]
Goto(c, s, pc) == call' = [call EXCEPT ![c] = Carrying(c, s, pc)]
Return(c) == call' = [call EXCEPT ![c] = Idle]

\* A write: every other call between its read and its write turns stale.
AfterWrite(c, next) ==
  [d \in Callers |->
     IF d = c THEN next
     ELSE IF call[d].pc \in {"find", "fill", "save"} THEN [call[d] EXCEPT !.stale = TRUE]
     ELSE call[d]]

Unpublished == [distance |-> 0, driven |-> None]

\* What the tracker really drove since the current trip set its anchor.
Driven == IF since = None THEN None ELSE path - since

\* What the worker makes of the answer s of getState.  With the anchor read, a
\* closed trip gets the distance of the odometer since the anchor, if there is
\* one, and onTripCompleted comes next; without a state nothing is announced.
Answer(c, s) ==
  CASE call[c].op.name = "anchor" ->
         \/ stage' = StageOf["started"] /\ UNCHANGED published
         \/ /\ UNCHANGED stage
            /\ published' = IF s = Gone \/ s.anchor = None THEN Unpublished
                            ELSE [distance |-> s.odo - s.anchor, driven |-> Driven]
    [] call[c].op.name = "announce" /\ s = Gone -> stage' = Done /\ UNCHANGED published
    [] OTHER -> UNCHANGED <<stage, published>>

Upset == upsets < MaxUpsets /\ upsets' = upsets + 1

Init ==
  /\ redis = Gone /\ row = Gone /\ counter = NoCounter
  /\ call = [c \in Callers |-> Idle]
  /\ stage = Done
  /\ here = None /\ path = 0 /\ granted = 0 /\ since = None
  /\ published = Unpublished /\ upsets = 0

\* processPosition: updateWithPosition now, the rest as the state machine says.
BeginPosition(op) ==
  LET step == IF here = None THEN 0 ELSE Dist(here, op.place)
  IN  /\ At(Worker, "idle") /\ stage \in Resting
      /\ path + step <= MaxPath
      /\ path' = path + step
      /\ here' = op.place
      /\ stage' = StageOf["sensor"]
      /\ call' = [call EXCEPT ![Worker] = Calling(op)]
      /\ published' = Unpublished
      /\ UNCHANGED <<redis, row, counter, granted, since, upsets>>

BeginStage(n) ==
  /\ At(Worker, "idle")
  /\ \/ stage = StageOf[n]
     \/ stage + 1 = StageOf[n] /\ \E m \in Optional : stage = StageOf[m]
  /\ stage' = StageOf[n] + 1
  /\ call' = [call EXCEPT ![Worker] = Calling(Plain(n))]
  /\ since' = IF n \in {"started", "completed"} THEN None ELSE since
  /\ UNCHANGED <<redis, row, counter, here, path, granted, published, upsets>>

\* An ignition event or an HTTP request.
BeginOutside(c, op) ==
  /\ Upset
  /\ At(c, "idle")
  /\ call' = [call EXCEPT ![c] = Calling(op)]
  /\ granted' = IF op.name = "reset" /\ op.value > granted THEN op.value ELSE granted
  /\ UNCHANGED <<redis, row, counter, stage, here, path, since, published>>

\* Mutant: updateWithPosition takes the row and never looks into Redis.
GetFromRow(c) ==
  /\ At(c, "get")
  /\ IF redis = Gone \/ call[c].op.name = "position"
     THEN Goto(c, Fresh, "find") /\ UNCHANGED <<stage, published>>
     ELSE IF call[c].op.name \in Reads
     THEN Return(c) /\ Answer(c, redis)
     ELSE Goto(c, redis, "save") /\ UNCHANGED <<stage, published>>
  /\ UNCHANGED <<redis, row, counter, here, path, granted, since, upsets>>

\* getStateFromRedis
Get(c) ==
  /\ At(c, "get")
  /\ IF redis = Gone
     THEN Goto(c, Fresh, "find") /\ UNCHANGED <<stage, published>>
     ELSE IF call[c].op.name \in Reads
     THEN Return(c) /\ Answer(c, redis)
     ELSE /\ Goto(c, redis, "save")
          /\ UNCHANGED <<stage, published>>
  /\ UNCHANGED <<redis, row, counter, here, path, granted, since, upsets>>

\* findByTrackerId: getState will put the row back into Redis, updateWithPosition
\* will not; without a row the operation creates the record or gives up.
Find(c) ==
  LET name == call[c].op.name
  IN  /\ At(c, "find")
      /\ CASE row # Gone ->
                /\ Goto(c, row, IF name = "position" THEN "save" ELSE "fill")
                /\ UNCHANGED <<stage, published>>
           [] row = Gone /\ name \in Creates ->
                Goto(c, Fresh, "save") /\ UNCHANGED <<stage, published>>
           [] OTHER -> Return(c) /\ Answer(c, Gone)
      /\ UNCHANGED <<redis, row, counter, here, path, granted, since, upsets>>

\* getState writes the row it found to Redis, whatever is there by now.
Fill(c) ==
  LET reads == call[c].op.name \in Reads
  IN  /\ At(c, "fill")
      /\ redis' = call[c].copy
      /\ call' = AfterWrite(c, IF reads THEN Idle ELSE Carrying(c, call[c].copy, "save"))
      /\ IF reads THEN Answer(c, call[c].copy) ELSE UNCHANGED <<stage, published>>
      /\ since' = None
      /\ UNCHANGED <<row, counter, here, path, granted, upsets>>

\* A write that takes back what others wrote, sets the odometer, or leaves out
\* a stretch for an impossible speed.
Disturbs(c) ==
  LET op == call[c].op
  IN  call[c].stale \/ op.name = "reset" \/ (op.name = "position" /\ op.jump)

\* since after call c saves its record: an anchor counts if it is set where the
\* tracker is.
SinceSave(c) ==
  IF Disturbs(c) THEN None
  ELSE IF call[c].op.name # "started" THEN since
  ELSE IF call[c].copy.place = here THEN path ELSE None

\* A position is under way that the record does not have yet.
Unsaved(c) == call[c].op.name = "position" /\ call[c].pc \in {"get", "find", "save"}

AfterSave(name) ==
  IF name = "position" THEN "incr" ELSE IF name \in Persists THEN "persist" ELSE "idle"

\* saveStateToRedis
Save(c) ==
  LET new == Changed(call[c].copy, call[c].op)
      pc  == AfterSave(call[c].op.name)
  IN  /\ At(c, "save")
      /\ redis' = new
      /\ call' = AfterWrite(c, IF pc = "idle" THEN Idle ELSE Carrying(c, new, pc))
      /\ since' = SinceSave(c)
      /\ UNCHANGED <<row, counter, stage, here, path, granted, published, upsets>>

\* updateMotionState writes nothing when the motion state is what it was.
SkipSave(c) ==
  /\ At(c, "save") /\ call[c].op.name = "motion"
  /\ Return(c)
  /\ UNCHANGED <<redis, row, counter, stage, here, path, granted, since, published, upsets>>

\* The counter key as INCR finds it: an hour after its EXPIRE it may be gone.
Expirable == IF counter.ttl THEN {counter, NoCounter} ELSE {counter}

\* Mutant: only the limit itself resets the counter, not what lies beyond it.
AfterIncrExactly(n) == IF n = PersistEvery THEN "clear" ELSE IF n = 1 THEN "expire" ELSE "idle"

\* What shouldPersistToDb does with the answer of INCR.
AfterIncr(n) == IF n >= PersistEvery THEN "clear" ELSE IF n = 1 THEN "expire" ELSE "idle"

\* shouldPersistToDb: INCR
Increment(c) ==
  /\ At(c, "incr")
  /\ \E found \in Expirable :
       LET n  == found.value + 1
           pc == AfterIncr(n)
       IN  /\ counter' = [found EXCEPT !.value = n]
           /\ IF pc = "idle" THEN Return(c) ELSE Goto(c, call[c].copy, pc)
  /\ UNCHANGED <<redis, row, stage, here, path, granted, since, published, upsets>>

\* EXPIRE, for the first position the key counts.
SetTtl(c) ==
  /\ At(c, "expire")
  /\ counter' = [counter EXCEPT !.ttl = TRUE]
  /\ Return(c)
  /\ UNCHANGED <<redis, row, stage, here, path, granted, since, published, upsets>>

\* DEL at the limit, and the periodic save follows.
ClearCounter(c) ==
  /\ At(c, "clear")
  /\ counter' = NoCounter
  /\ Goto(c, call[c].copy, "persist")
  /\ UNCHANGED <<redis, row, stage, here, path, granted, since, published, upsets>>

\* Mutant: the upsert leaves out the odometer of a row that is there.
PersistWithoutOdometer(c) ==
  /\ At(c, "persist")
  /\ row' = IF row = Gone THEN AsRow(call[c].copy) ELSE [AsRow(call[c].copy) EXCEPT !.odo = row.odo]
  /\ Return(c)
  /\ UNCHANGED <<redis, counter, stage, here, path, granted, since, published, upsets>>

\* persistToDb
Persist(c) ==
  /\ At(c, "persist")
  /\ row' = AsRow(call[c].copy)
  /\ Return(c)
  /\ UNCHANGED <<redis, counter, stage, here, path, granted, since, published, upsets>>

\* A remote call throws.  updateWithPosition and updateMotionState swallow it,
\* executeActions drops its remaining actions, processPosition gives up.
Fail(c) ==
  LET name == call[c].op.name
  IN  /\ Upset /\ ~At(c, "idle")
      /\ Return(c)
      /\ stage' = IF c # Worker \/ name = "position" THEN stage
                  ELSE IF name \in {"anchor", "completed", "started"}
                  THEN StageOf["announce"]
                  ELSE Done
      /\ since' = IF Unsaved(c) THEN None ELSE since
      /\ UNCHANGED <<redis, row, counter, here, path, granted, published>>

Crash ==
  /\ Upset
  /\ \E c \in Callers : ~At(c, "idle")
  /\ call' = [c \in Callers |-> Idle]
  /\ stage' = Done
  /\ since' = None
  /\ UNCHANGED <<redis, row, counter, here, path, granted, published>>

\* TRACKER_STATE_TTL after the last write, or an eviction.
ExpireState ==
  /\ Upset
  /\ redis # Gone
  /\ redis' = Gone
  /\ since' = None
  /\ UNCHANGED <<row, counter, call, stage, here, path, granted, published>>

RemoteCall(c) ==
  Get(c) \/ Find(c) \/ Fill(c) \/ Save(c) \/ SkipSave(c)
    \/ Increment(c) \/ SetTtl(c) \/ ClearCounter(c) \/ Persist(c)

Next ==
  \/ \E op \in PositionOps : BeginPosition(op)
  \/ \E n \in StageNames : BeginStage(n)
  \/ \E c \in Outsiders, op \in OutsiderOps : BeginOutside(c, op)
  \/ \E c \in Callers : RemoteCall(c) \/ Fail(c)
  \/ Crash \/ ExpireState

Spec == Init /\ [][Next]_vars

-----------------------------------------------------------------------------

Shapes ==
  /\ redis \in States \cup {Gone}
  /\ row \in States \cup {Gone}
  /\ counter \in Counters
  /\ call \in [Callers -> Calls]
  /\ stage \in 1..Done
  /\ here \in Places \cup {None}
  /\ path \in Nat /\ granted \in Nat
  /\ since \in 0..path \cup {None}
  /\ upsets \in 0..MaxUpsets
  /\ published.distance \in Int /\ published.driven \in Nat \cup {None}

\* Every variable keeps its shape, and the counter passes its limit by one position
\* for each disturbance at most: when DEL failed, the next position deletes it.
TypeOK == Shapes /\ counter.value <= PersistEvery + upsets

\* The odometer, in every copy of the record, never counts a metre that was
\* not driven or granted by a reset, even with the stretch from its last
\* position to here still to be added: whatever is lost, repeated or overwritten.
Earned(s, place, driven, gift) ==
  s # Gone =>
    IF s.place = None THEN s.odo <= gift
    ELSE /\ place # None
         /\ Dist(s.place, place) <= driven
         /\ s.odo + Dist(s.place, place) <= driven + gift

OdometerIsEarned ==
  /\ Earned(redis, here, path, granted)
  /\ Earned(row, here, path, granted)
  /\ \A c \in Callers : Earned(call[c].copy, here, path, granted)

\* The published distance of a trip is what the tracker drove since that trip
\* began, position by position, unless a stale write, a reset, an impossible
\* speed, a lost key or a failure came between (processPosition: the odometer
\* holds all the distance of the trip).
UndisturbedTripsAreMeasured ==
  published.driven # None => published.distance = published.driven

\* The odometer never goes backwards while Redis holds the record, except by a
\* reset or a stale write.
OnlyStaleWritesForget ==
  [][(redis # Gone /\ redis' # Gone /\ redis'.odo < redis.odo)
       => \E c \in Callers : /\ call'[c] # call[c]
                             /\ call[c].stale \/ call[c].op.name = "reset"]_vars

\* The odometer is behind the anchor of the trip, in some copy of the record or
\* in the trip published last.
Behind(s) == s # Gone /\ s.anchor # None /\ s.odo < s.anchor
NegativeTrip ==
  \/ published.distance < 0
  \/ \E s \in {redis, row} \cup {call[c].copy : c \in Callers} : Behind(s)

\* Only resetOdometer makes a trip's distance negative: it sets totalOdometer
\* and leaves tripOdometerStart.  No stale write, late row or lost key can,
\* since the two travel in one record.
OnlyResetsMakeTripsNegative ==
  [][(NegativeTrip' /\ ~NegativeTrip)
       => \E c \in Callers : /\ call[c].op.name = "reset" /\ At(c, "save")
                             /\ call'[c] # call[c]]_vars

=============================================================================
