---------------------- MODULE PositionProcessor_proofs ----------------------
(***************************************************************************)
(* Theorems about PositionProcessor, for every value of its constants and  *)
(* any number of upsets.  The argument:                                    *)
(*   1. AdvanceFacts turns "the next call asked for" into an inequality    *)
(*      between places, so that every invariant speaks of places alone;    *)
(*   2. the lemmas of StateMachine_proofs describe the result that Save    *)
(*      takes into memory, RecordFacts what each later call saves of it;   *)
(*   3. on top of the form of the work in progress, each property has an   *)
(*      inductive strengthening of its own.                                *)
(***************************************************************************)
EXTENDS PositionProcessor, StateMachine_proofs

USE ThresholdAssumption, ProcessorAssumption

-----------------------------------------------------------------------------
(* The calls of a position, by place.                                      *)

LEMMA Places ==
  /\ Place("read") = 1 /\ Place("save") = 2 /\ Place("actions") = 3
  /\ Place("settle") = 4 /\ Place("note") = 5 /\ Place("clear") = 6
  /\ Place("open") = 7 /\ Place("announce") = 8 /\ Place("keepTrip") = 9
  /\ Place("endStop") = 10 /\ Place("keepEnd") = 11 /\ Place("startStop") = 12
  /\ Place("keepStart") = 13 /\ Place("gapStop") = 14 /\ Place("done") = 15
<1>1. DOMAIN Calls = 1..15
  BY DEF Calls
<1>2. /\ Calls[1] = "read" /\ Calls[2] = "save" /\ Calls[3] = "actions"
      /\ Calls[4] = "settle" /\ Calls[5] = "note" /\ Calls[6] = "clear"
      /\ Calls[7] = "open" /\ Calls[8] = "announce" /\ Calls[9] = "keepTrip"
      /\ Calls[10] = "endStop" /\ Calls[11] = "keepEnd" /\ Calls[12] = "startStop"
      /\ Calls[13] = "keepStart" /\ Calls[14] = "gapStop" /\ Calls[15] = "done"
  BY DEF Calls
<1>3. \A i, j \in 1..15 : Calls[i] = Calls[j] => i = j
  BY <1>2
<1>4. \A i \in 1..15 : Place(Calls[i]) = i
  BY <1>1, <1>3 DEF Place
<1> QED BY <1>2, <1>4

LEMMA Named ==
  /\ CallNames = {"read", "save", "actions", "settle", "note", "clear", "open", "announce",
                  "keepTrip", "endStop", "keepEnd", "startStop", "keepStart", "gapStop", "done"}
  /\ \A i \in DOMAIN Calls : i \in 1..15 /\ Calls[i] \in CallNames /\ Place(Calls[i]) = i
  /\ \A name \in CallNames : Place(name) \in DOMAIN Calls /\ Calls[Place(name)] = name
<1>1. DOMAIN Calls = 1..15
  BY DEF Calls
<1>2. /\ Calls[1] = "read" /\ Calls[2] = "save" /\ Calls[3] = "actions"
      /\ Calls[4] = "settle" /\ Calls[5] = "note" /\ Calls[6] = "clear"
      /\ Calls[7] = "open" /\ Calls[8] = "announce" /\ Calls[9] = "keepTrip"
      /\ Calls[10] = "endStop" /\ Calls[11] = "keepEnd" /\ Calls[12] = "startStop"
      /\ Calls[13] = "keepStart" /\ Calls[14] = "gapStop" /\ Calls[15] = "done"
  BY DEF Calls
<1>3. \A i \in 1..15 : Place(Calls[i]) = i
  BY <1>2, Places
<1>4. CallNames = {"read", "save", "actions", "settle", "note", "clear", "open", "announce",
                  "keepTrip", "endStop", "keepEnd", "startStop", "keepStart", "gapStop", "done"}
  BY <1>1, <1>2 DEF CallNames
<1> QED BY <1>1, <1>2, <1>3, <1>4, Places DEF CallNames

Resolved == CallNames \ {"read", "save"}

\* The work in progress once the state machine has decided.
Deciphered(w) ==
  w = [call |-> w.call, pos |-> w.pos, from |-> w.from, ign |-> w.ign,
       res |-> w.res, told |-> w.told]

\* Advance goes to a later call the result asks for and skips none.
LEMMA AdvanceFacts ==
  ASSUME work.call \in Resolved, Deciphered(work), NEW told, Advance(told)
  PROVE  /\ Deciphered(work')
         /\ work'.pos = work.pos /\ work'.from = work.from /\ work'.ign = work.ign
         /\ work'.res = work.res /\ work'.told = work.told \cup told
         /\ work'.call \in Resolved /\ Asks(work.res, work'.call)
         /\ Place(work.call) \in 3..15 /\ Place(work'.call) \in 3..15
         /\ Place(work'.call) > Place(work.call)
         /\ \A name \in CallNames :
              Place(work.call) < Place(name) /\ Place(name) < Place(work'.call)
                => ~Asks(work.res, name)
<1>1. PICK j \in DOMAIN Calls :
         /\ j > Place(work.call) /\ Asks(work.res, Calls[j])
         /\ \A k \in Place(work.call) + 1..j - 1 : ~Asks(work.res, Calls[k])
         /\ work' = [work EXCEPT !.call = Calls[j], !.told = @ \cup told]
  BY DEF Advance
<1>2. work' = [call |-> Calls[j], pos |-> work.pos, from |-> work.from, ign |-> work.ign,
               res |-> work.res, told |-> work.told \cup told]
  BY <1>1 DEF Deciphered
<1>3. /\ Place(work.call) \in 3..15 /\ j \in 1..15 /\ j > Place(work.call)
      /\ Calls[j] \in CallNames /\ Place(Calls[j]) = j
  BY <1>1, Named, Places DEF Resolved
<1>4. Calls[j] \in Resolved
  BY <1>3, Places DEF Resolved
<1>5. ASSUME NEW name \in CallNames, Place(work.call) < Place(name), Place(name) < j
      PROVE  ~Asks(work.res, name)
  <2>1. Place(name) \in Int /\ Calls[Place(name)] = name
    BY Named
  <2> QED BY <1>1, <1>3, <1>5, <2>1
<1>6. /\ work'.call = Calls[j] /\ work'.pos = work.pos /\ work'.from = work.from
      /\ work'.ign = work.ign /\ work'.res = work.res /\ work'.told = work.told \cup told
      /\ Deciphered(work')
  BY <1>2 DEF Deciphered
<1>7. Place(work'.call) = j /\ Asks(work.res, work'.call)
  BY <1>1, <1>3, <1>6
<1> QED BY <1>3, <1>4, <1>5, <1>6, <1>7

-----------------------------------------------------------------------------
(* What a result is, and what each call saves of it.                       *)

\* The part of TripCarriedOver that remains without the trip found before.
Decided(r) ==
  /\ r.device \in DeviceRecords /\ r.device.state # "UNKNOWN"
  /\ "startTrip" \in r.acts /\ r.trip.start # None => Closes(r.acts)
  /\ "startTrip" \in r.acts => ~r.device.trip.confirmed /\ r.device.trip.start # None
  /\ "startTrip" \notin r.acts => /\ r.device.trip.start = r.trip.start
                                  /\ r.device.trip.confirmed <=> r.trip.confirmed

TripAt(r, name) ==
  CASE name = "clear" -> TripAfterClosing(r)
    [] name = "keepTrip" -> Confirmed(r)
    [] name \in {"keepEnd", "keepStart"} -> TripAfterActions(r)
    [] OTHER -> r.device.trip

StopAt(r, name) ==
  IF name \in {"keepEnd", "keepStart"} THEN StopAfterActions(r) ELSE r.device.stop

LEMMA RecordFacts ==
  ASSUME NEW r, r.device \in DeviceRecords, NEW name
  PROVE  /\ RecordAt(r, name) \in DeviceRecords
         /\ RecordAt(r, name).state = r.device.state
         /\ RecordAt(r, name).since = r.device.since
         /\ RecordAt(r, name).last = r.device.last
         /\ RecordAt(r, name).trip = TripAt(r, name)
         /\ RecordAt(r, name).stop = StopAt(r, name)
         /\ RecordAt(r, name) = [r.device EXCEPT !.trip = TripAt(r, name),
                                                 !.stop = StopAt(r, name)]
<1>1. r.device.trip \in TripRecords /\ r.device.stop \in StopRecords
  BY DEF DeviceRecords
<1>2. /\ TripAfterClosing(r) \in TripRecords /\ Confirmed(r) \in TripRecords
      /\ TripAfterActions(r) \in TripRecords /\ StopAfterActions(r) \in StopRecords
  BY <1>1, ActionsKeepStarts
<1>3. TripAt(r, name) \in TripRecords /\ StopAt(r, name) \in StopRecords
  BY <1>1, <1>2 DEF TripAt, StopAt
<1>4. RecordAt(r, name) = [r.device EXCEPT !.trip = TripAt(r, name),
                                           !.stop = StopAt(r, name)]
  BY DEF RecordAt, TripAt, StopAt
<1> QED BY <1>3, <1>4 DEF DeviceRecords

\* The motion state the cleanup writes.
LEMMA PreservedFacts ==
  ASSUME NEW last \in Nat
  PROVE  /\ Preserved(last) \in DeviceRecords /\ Preserved(last).state = "STOPPED"
         /\ Preserved(last).last = last /\ Preserved(last).since = last
         /\ Preserved(last).trip = NoTrip /\ Preserved(last).stop = NoStop
BY DEF Preserved, Unseen, DeviceRecords, TripRecords, StopRecords, MotionStates, SpeedClasses

LEMMA UnseenFacts ==
  Unseen \in DeviceRecords /\ Unseen.state = "UNKNOWN" /\ Unseen.last = 0
    /\ Unseen.trip = NoTrip /\ Unseen.stop = NoStop
BY DEF Unseen, DeviceRecords, TripRecords, StopRecords, MotionStates, SpeedClasses

-----------------------------------------------------------------------------
(* Types: the form of the position in progress at each call.               *)

\* A device never seen has no trip.
Known(d) == d \in DeviceRecords /\ (d.state = "UNKNOWN" => d.trip = NoTrip)

Reading(w) == w = [call |-> "read", pos |-> w.pos] /\ w.pos \in Positions

Saving(w) ==
  /\ w = [call |-> "save", pos |-> w.pos, from |-> w.from]
  /\ w.pos \in Positions /\ Known(w.from)

Executing(w) ==
  /\ Deciphered(w) /\ w.call \in Resolved
  /\ w.pos \in Positions /\ Known(w.from)
  /\ Decided(w.res) /\ Asks(w.res, w.call)

InProgress(w) == w = Rest \/ Reading(w) \/ Saving(w) \/ Executing(w)

Typed == TypeOK /\ Known(device) /\ InProgress(work)

\* Which form a call belongs to.
LEMMA FormFacts ==
  ASSUME NEW w, InProgress(w)
  PROVE  /\ w.call \in CallNames \cup {"rest"}
         /\ w.call = "rest" <=> w = Rest
         /\ w.call = "read" <=> Reading(w)
         /\ w.call = "save" <=> Saving(w)
         /\ w.call \in Resolved <=> Executing(w)
<1>1. CallNames = {"read", "save", "actions", "settle", "note", "clear", "open", "announce",
                   "keepTrip", "endStop", "keepEnd", "startStop", "keepStart", "gapStop", "done"}
  BY Named
<1>2. w = Rest => w.call = "rest"
  BY DEF Rest
<1>3. Reading(w) => w.call = "read"
  BY DEF Reading
<1>4. Saving(w) => w.call = "save"
  BY DEF Saving
<1>5. Executing(w) => w.call \in Resolved
  BY DEF Executing
<1> QED BY <1>1, <1>2, <1>3, <1>4, <1>5 DEF Resolved, InProgress

\* Every result for a record the processor may find is decided.
LEMMA ResultFacts ==
  ASSUME NEW d, Known(d), NEW p \in Positions, NEW useIgnition,
         NEW r \in Outcomes(d, p, useIgnition)
  PROVE  Decided(r) /\ TripCarriedOver(d, p, r)
<1>1. p.ts \in Nat \ {0} /\ p.move \in Nat
  BY DEF Positions
<1>2. r.device \in DeviceRecords /\ r.device.state # "UNKNOWN" /\ TripCarriedOver(d, p, r)
  BY <1>1, OutcomeFacts DEF Known
<1> QED BY <1>1, <1>2 DEF Decided, TripCarriedOver, None

LEMMA SaveFacts ==
  ASSUME Typed, Save
  PROVE  /\ Saving(work) /\ Executing(work') /\ work'.call = "actions"
         /\ work'.pos = work.pos /\ work'.from = work.from /\ work'.told = {}
         /\ work'.res \in Outcomes(work'.from, work'.pos, work'.ign)
         /\ TripCarriedOver(work.from, work.pos, work'.res)
         /\ device' = work'.res.device
<1>1. Saving(work)
  BY FormFacts DEF Save, Typed
<1> PICK useIgnition \in BOOLEAN :
       \E r \in Outcomes(work.from, work.pos, useIgnition) :
         /\ device' = RecordAt(r, "save")
         /\ work' = [call |-> "actions", pos |-> work.pos, from |-> work.from,
                     ign |-> useIgnition, res |-> r, told |-> {}]
  BY DEF Save
<1>2. PICK r \in Outcomes(work.from, work.pos, useIgnition) :
         /\ device' = RecordAt(r, "save")
         /\ work' = [call |-> "actions", pos |-> work.pos, from |-> work.from,
                     ign |-> useIgnition, res |-> r, told |-> {}]
  OBVIOUS
<1>3. Decided(r) /\ TripCarriedOver(work.from, work.pos, r)
  BY <1>1, ResultFacts DEF Saving
<1>4. /\ work'.call = "actions" /\ work'.pos = work.pos /\ work'.from = work.from
      /\ work'.told = {} /\ work'.res = r /\ work'.ign = useIgnition
      /\ Deciphered(work')
  BY <1>2 DEF Deciphered
<1>5. Asks(r, "actions")
  BY DEF Asks
<1>6. "actions" \in Resolved
  BY Named DEF Resolved
<1>7. Executing(work')
  BY <1>1, <1>3, <1>4, <1>5, <1>6 DEF Executing, Saving
<1>8. device' = r.device
  <2>1. device' = [r.device EXCEPT !.trip = r.device.trip, !.stop = r.device.stop]
    BY <1>2, <1>3, RecordFacts DEF Decided, TripAt, StopAt
  <2> QED BY <1>3, <2>1 DEF Decided, DeviceRecords
<1> QED BY <1>1, <1>2, <1>3, <1>4, <1>7, <1>8

\* The calls that Advance leaves behind.
LEMMA ExecutingAdvances ==
  ASSUME Typed, NEW told, Advance(told), work.call \in Resolved
  PROVE  /\ Executing(work) /\ Executing(work')
         /\ work'.pos = work.pos /\ work'.from = work.from /\ work'.ign = work.ign
         /\ work'.res = work.res /\ work'.told = work.told \cup told
         /\ Place(work.call) \in 3..15 /\ Place(work'.call) \in 3..15
         /\ Place(work'.call) > Place(work.call)
         /\ \A name \in CallNames :
              Place(work.call) < Place(name) /\ Place(name) < Place(work'.call)
                => ~Asks(work.res, name)
<1>1. Executing(work)
  BY FormFacts DEF Typed
<1> QED BY <1>1, AdvanceFacts DEF Executing

\* What a saving call leaves in Redis.
LEMMA SaveAgainFacts ==
  ASSUME Typed, SaveAgain
  PROVE  /\ work.call \in {"clear", "keepTrip", "keepEnd", "keepStart"}
         /\ work.call \in Resolved /\ Executing(work)
         /\ device' \in DeviceRecords /\ device'.state # "UNKNOWN"
         /\ device'.state = work.res.device.state /\ device'.since = work.res.device.since
         /\ device'.last = work.res.device.last
         /\ device'.trip = TripAt(work.res, work.call)
         /\ device'.stop = StopAt(work.res, work.call)
<1>1. work.call \in {"clear", "keepTrip", "keepEnd", "keepStart"}
  BY DEF SaveAgain
<1>2. work.call \in Resolved
  BY <1>1, Named DEF Resolved
<1>3. Executing(work)
  BY <1>2, FormFacts DEF Typed
<1>4. device' = RecordAt(work.res, work.call)
  BY DEF SaveAgain
<1> QED BY <1>1, <1>2, <1>3, <1>4, RecordFacts DEF Executing, Decided

\* TLAPS's rule for UNCHANGED of Typed.
LEMMA TypedStutters ==
  ASSUME Typed, UNCHANGED vars
  PROVE  Typed'
BY DEF Typed, TypeOK, vars, Known, InProgress, Reading, Saving, Executing, Deciphered

LEMMA TypedInitially == Init => Typed
BY UnseenFacts DEF Init, Typed, TypeOK, Known, InProgress, Rest

\* The bound of an upset.
LEMMA UpsetFacts ==
  ASSUME TypeOK, Upset
  PROVE  upsets' \in 0..MaxUpsets /\ clean' \in BOOLEAN
<1>1. upsets' \in 0..MaxUpsets
  BY DEF TypeOK, Upset
<1> QED BY <1>1 DEF Upset

LEMMA TypedStep ==
  ASSUME Typed, [Next]_vars
  PROVE  Typed'
<1> USE DEF Typed
<1>1. ASSUME NEW p \in Positions, Begin(p) PROVE Typed'
  <2>1. Reading(work') /\ p.ts \in Nat
    BY <1>1 DEF Begin, Reading, Positions
  <2>2. work'.call \in CallNames
    BY <2>1, Named DEF Reading
  <2>3. clock' \in Nat /\ inOrder' \in BOOLEAN /\ clean' \in BOOLEAN /\ upsets' \in 0..MaxUpsets
    <3>1. /\ clock' = p.ts /\ clean' = TRUE
          /\ inOrder' = (HasTrip(device) => inOrder /\ p.ts > clock)
          /\ upsets' = upsets \/ (upsets < MaxUpsets /\ upsets' = upsets + 1)
      BY <1>1 DEF Begin
    <3>2. upsets \in 0..MaxUpsets
      BY DEF TypeOK
    <3> QED BY <2>1, <3>1, <3>2
  <2>4. UNCHANGED <<device, sweep, announced, settled, lost>>
    BY <1>1 DEF Begin
  <2> QED BY <2>1, <2>2, <2>3, <2>4 DEF TypeOK, Known, InProgress
<1>2. ASSUME work.call = "read", NEW d, Known(d), Deciding(d)
      PROVE  InProgress(work') /\ work'.call \in CallNames
  <2>1. Saving(work')
    BY <1>2, FormFacts DEF Deciding, Reading, Saving
  <2>2. work'.call \in CallNames
    BY <2>1, Named DEF Saving
  <2> QED BY <2>1, <2>2 DEF InProgress
<1>3. CASE Read
  BY <1>2, <1>3 DEF Read, TypeOK, Known
<1>4. CASE ReadFails
  <2>1. Known(Unseen)
    BY UnseenFacts DEF Known
  <2> QED BY <1>2, <1>4, <2>1, UpsetFacts DEF ReadFails, TypeOK, Known
<1>5. CASE Save
  <2>1. Executing(work') /\ device' = work'.res.device
    BY <1>5, SaveFacts
  <2>2. Known(device') /\ InProgress(work') /\ work'.call \in CallNames
    BY <2>1 DEF Executing, Decided, Known, InProgress, Resolved
  <2> QED BY <1>5, <2>2 DEF Save, TypeOK, Known
<1>6. ASSUME NEW told, Advance(told), work.call \in Resolved
      PROVE  InProgress(work') /\ work'.call \in CallNames
  BY <1>6, ExecutingAdvances DEF InProgress, Executing, Resolved
<1>7. CASE Pass
  <2>1. work.call \in Resolved
    BY <1>7, Named DEF Pass, Resolved
  <2> QED BY <1>6, <1>7, <2>1 DEF Pass, TypeOK, Known
<1>8. CASE Settle
  <2>1. work.call \in Resolved
    BY <1>8, Named DEF Settle, Resolved
  <2> QED BY <1>6, <1>8, <2>1 DEF Settle, TypeOK, Known
<1>9. CASE Announce
  <2>1. work.call \in Resolved
    BY <1>9, Named DEF Announce, Resolved
  <2>2. TripAfterClosing(work.res).start \in Nat \cup {None}
    <3>1. work.res.device.trip \in TripRecords /\ work.res.device.stop \in StopRecords
      BY <2>1, FormFacts DEF Executing, Decided, DeviceRecords
    <3>2. TripAfterClosing(work.res) \in TripRecords
      BY <3>1, ActionsKeepStarts
    <3> QED BY <3>2 DEF TripRecords, NoTrip
  <2> QED BY <1>6, <1>9, <2>1, <2>2 DEF Announce, TypeOK, Known
<1>10. CASE PublishStop
  <2>1. work.call \in Resolved
    BY <1>10, Named DEF PublishStop, Resolved
  <2> QED BY <1>6, <1>10, <2>1 DEF PublishStop, TypeOK, Known
<1>11. CASE SaveAgain
  <2>1. Known(device') /\ work.call \in Resolved
    BY <1>11, SaveAgainFacts DEF Known
  <2> QED BY <1>6, <1>11, <2>1 DEF SaveAgain, TypeOK, Known
<1>12. CASE Finish
  BY <1>12 DEF Finish, TypeOK, Known, InProgress, Rest
<1>13. CASE Drop
  <2>1. lost' \in Nat \cup {None}
    BY <1>13 DEF Drop, GivenUp, TypeOK
  <2>2. work' = Rest /\ work'.call = "rest"
    BY <1>13 DEF Drop, Rest
  <2>3. UNCHANGED <<device, sweep, clock, inOrder, announced, settled>> /\ Upset
    BY <1>13 DEF Drop
  <2> QED BY <2>1, <2>2, <2>3, UpsetFacts DEF TypeOK, Known, InProgress
<1>14. CASE Crash
  <2>1. lost' \in Nat \cup {None}
    BY <1>14 DEF Crash, GivenUp, TypeOK
  <2>2. work' = Rest /\ work'.call = "rest"
    BY <1>14 DEF Crash, Rest
  <2>3. UNCHANGED <<device, clock, inOrder, announced, settled>> /\ sweep' = None /\ Upset
    BY <1>14 DEF Crash
  <2> QED BY <2>1, <2>2, <2>3, UpsetFacts DEF TypeOK, Known, InProgress
<1>15. CASE SweepRead
  <2>1. device.last \in Nat
    BY DEF TypeOK, DeviceRecords
  <2> QED BY <1>15, <2>1, UpsetFacts DEF SweepRead, TypeOK, Known
<1>16. CASE SweepWrite
  <2>1. Known(device')
    BY <1>16, PreservedFacts DEF SweepWrite, TypeOK, Known
  <2> QED BY <1>16, <2>1 DEF SweepWrite, TypeOK, Known
<1>17. CASE UNCHANGED vars
  BY <1>17, TypedStutters
<1> QED
  BY <1>1, <1>3, <1>4, <1>5, <1>7, <1>8, <1>9, <1>10, <1>11, <1>12, <1>13, <1>14,
     <1>15, <1>16, <1>17 DEF Next

\* Whatever fails, the records the processor and the cleanup write are motion
\* states, and the position in progress has what its next call needs.
THEOREM ProcessorTypes == Spec => []TypeOK
<1>1. Typed /\ [Next]_vars => Typed'
  BY TypedStep
<1>2. Typed => TypeOK
  BY DEF Typed
<1> QED BY <1>1, <1>2, TypedInitially, PTL DEF Spec

-----------------------------------------------------------------------------
(* Facts the invariants about announced trips share.                       *)

\* A trip is confirmed only by a position that neither closes nor opens one.
LEMMA ConfirmsFacts ==
  ASSUME NEW r, Decided(r)
  PROVE  /\ Confirms(r) => /\ ~Closes(r.acts) /\ "startTrip" \notin r.acts
                           /\ ~r.device.trip.confirmed
                           /\ Confirmed(r).confirmed
         /\ ~Confirms(r) => Confirmed(r) = TripAfterClosing(r)
         /\ TripAfterClosing(r) = IF Closes(r.acts) /\ "startTrip" \notin r.acts
                                  THEN NoTrip ELSE r.device.trip
         /\ Confirmed(r).start = TripAfterClosing(r).start
         /\ TripAfterActions(r).start = Confirmed(r).start
         /\ TripAfterActions(r).confirmed = Confirmed(r).confirmed
         /\ ~NoTrip.confirmed /\ NoTrip.start = None
<1>1. r.device.trip \in TripRecords /\ r.device.stop \in StopRecords
  BY DEF Decided, DeviceRecords
<1>2. /\ TripAfterClosing(r) \in TripRecords
      /\ Confirmed(r).start = TripAfterClosing(r).start
      /\ TripAfterActions(r).start = Confirmed(r).start
      /\ TripAfterActions(r).confirmed = Confirmed(r).confirmed
  BY <1>1, ActionsKeepStarts
<1>3. /\ TripAfterClosing(r) = IF Closes(r.acts) /\ "startTrip" \notin r.acts
                               THEN NoTrip ELSE r.device.trip
      /\ ~NoTrip.confirmed /\ NoTrip.start = None
  BY DEF TripAfterClosing, NoTrip
<1>4. ASSUME Confirms(r)
      PROVE  /\ ~Closes(r.acts) /\ "startTrip" \notin r.acts
             /\ ~r.device.trip.confirmed /\ Confirmed(r).confirmed
  <2>1. /\ "startTrip" \notin r.acts /\ TripAfterClosing(r).start # None
        /\ ~TripAfterClosing(r).confirmed
    BY <1>4 DEF Confirms
  <2>2. ~Closes(r.acts)
    BY <1>3, <2>1
  <2>3. TripAfterClosing(r) \in
          [start : Nat, dist : 0..MinTripDistance, count : 0..ConfirmPositions,
           stops : 0..StopsCap, confirmed : BOOLEAN]
    BY <1>2, <2>1 DEF TripRecords, NoTrip
  <2>4. Confirmed(r) = [TripAfterClosing(r) EXCEPT !.confirmed = TRUE]
    BY <1>4 DEF Confirmed
  <2>5. Confirmed(r).confirmed
    BY <2>3, <2>4
  <2> QED BY <1>3, <2>1, <2>2, <2>5
<1>5. ~Confirms(r) => Confirmed(r) = TripAfterClosing(r)
  BY DEF Confirmed
<1> QED BY <1>2, <1>3, <1>4, <1>5

LEMMA AskedFacts ==
  ASSUME NEW r
  PROVE  /\ Asks(r, "settle") <=> OutcomeOf(r) \in {"completed", "discarded"}
         /\ Asks(r, "clear") <=> Closes(r.acts) /\ "startTrip" \notin r.acts
         /\ Asks(r, "announce") <=> Confirms(r)
         /\ Asks(r, "keepTrip") <=> Confirms(r)
         /\ Asks(r, "endStop") <=> EndsOpenStop(r)
         /\ Asks(r, "keepEnd") <=> EndsOpenStop(r) /\ "startStop" \notin r.acts
         /\ Asks(r, "startStop") <=> "startStop" \in r.acts
         /\ Asks(r, "keepStart") <=> "startStop" \in r.acts
         /\ Asks(r, "gapStop") <=> r.gapStop
         /\ Asks(r, "settle") => Closes(r.acts)
         /\ Closes(r.acts) /\ r.trip.confirmed => Asks(r, "settle")
<1>1. /\ OutcomeOf(r) \in {"completed", "discarded"} => Closes(r.acts)
      /\ Closes(r.acts) /\ r.trip.confirmed => OutcomeOf(r) \in {"completed", "discarded"}
  BY DEF OutcomeOf, Closes
<1>2. /\ Asks(r, "settle") <=> OutcomeOf(r) \in {"completed", "discarded"}
      /\ Asks(r, "clear") <=> Closes(r.acts) /\ "startTrip" \notin r.acts
      /\ Asks(r, "announce") <=> Confirms(r)
      /\ Asks(r, "keepTrip") <=> Confirms(r)
      /\ Asks(r, "endStop") <=> EndsOpenStop(r)
      /\ Asks(r, "keepEnd") <=> EndsOpenStop(r) /\ "startStop" \notin r.acts
      /\ Asks(r, "startStop") <=> "startStop" \in r.acts
      /\ Asks(r, "keepStart") <=> "startStop" \in r.acts
      /\ Asks(r, "gapStop") <=> r.gapStop
  BY DEF Asks
<1> QED BY <1>1, <1>2

\* The steps of executeActions that save nothing and announce nothing.
Quiet == Pass \/ Settle \/ PublishStop

LEMMA QuietFacts ==
  ASSUME Typed, Quiet
  PROVE  /\ \E told : Advance(told)
         /\ work.call \in Resolved /\ Place(work.call) \notin {6, 8, 9, 11, 13}
         /\ UNCHANGED <<device, sweep, clock, inOrder, clean, announced, lost, upsets>>
<1>1. work.call \in {"actions", "settle", "note", "open", "endStop", "startStop", "gapStop"}
  BY DEF Quiet, Pass, Settle, PublishStop
<1>2. work.call \in Resolved /\ Place(work.call) \notin {6, 8, 9, 11, 13}
  BY <1>1, Named, Places DEF Resolved
<1>3. /\ \E told : Advance(told)
      /\ UNCHANGED <<device, sweep, clock, inOrder, clean, announced, lost, upsets>>
  BY DEF Quiet, Pass, Settle, PublishStop
<1> QED BY <1>2, <1>3

\* A call is named by its place.
LEMMA CallAt ==
  ASSUME NEW name \in CallNames
  PROVE  /\ Place(name) \in 1..15
         /\ Place(name) = 3 <=> name = "actions"
         /\ Place(name) = 4 <=> name = "settle"
         /\ Place(name) = 6 <=> name = "clear"
         /\ Place(name) = 8 <=> name = "announce"
         /\ Place(name) = 9 <=> name = "keepTrip"
         /\ Place(name) = 10 <=> name = "endStop"
         /\ Place(name) = 11 <=> name = "keepEnd"
         /\ Place(name) = 12 <=> name = "startStop"
         /\ Place(name) = 13 <=> name = "keepStart"
         /\ Place(name) = 14 <=> name = "gapStop"
         /\ Place(name) = 15 <=> name = "done"
BY Named, Places

-----------------------------------------------------------------------------
(* A confirmed trip was announced.                                         *)

ToldOf(trip) == trip.confirmed => announced = trip.start

\* Every confirmed trip the processor holds, saved or in memory, was announced.
ConfirmationsTold ==
  /\ ToldOf(device.trip)
  /\ work.call = "save" => ToldOf(work.from.trip)
  /\ work.call \in Resolved /\ Place(work.call) <= 8 =>
       /\ ToldOf(work.res.device.trip)
       /\ device.trip.confirmed => work.res.device.trip.confirmed
  /\ work.call \in Resolved /\ Place(work.call) > 8 => ToldOf(Confirmed(work.res))

LEMMA ConfirmationsToldStep ==
  ASSUME Typed, ConfirmationsTold, [Next]_vars
  PROVE  ConfirmationsTold'
<1> Typed'
  BY TypedStep
<1>1. \A name \in {"rest", "read", "save"} : name \notin Resolved
  BY Named DEF Resolved
<1>2. ~NoTrip.confirmed
  BY DEF NoTrip
<1>3. ASSUME NEW p \in Positions, Begin(p) PROVE ConfirmationsTold'
  <2>1. work'.call = "read" /\ UNCHANGED <<device, announced>>
    BY <1>3 DEF Begin
  <2> QED BY <1>1, <2>1 DEF ConfirmationsTold, ToldOf
<1>4. CASE Read
  <2>1. work'.call = "save" /\ work'.from = device /\ UNCHANGED <<device, announced>>
    BY <1>4 DEF Read, Deciding
  <2> QED BY <1>1, <2>1 DEF ConfirmationsTold, ToldOf
<1>5. CASE ReadFails
  <2>1. work'.call = "save" /\ work'.from = Unseen /\ UNCHANGED <<device, announced>>
    BY <1>5 DEF ReadFails, Deciding
  <2> QED BY <1>1, <1>2, <2>1, UnseenFacts DEF ConfirmationsTold, ToldOf
<1>6. CASE Save
  <2>1. /\ work.call = "save" /\ work'.call = "actions"
        /\ TripCarriedOver(work.from, work.pos, work'.res)
        /\ device' = work'.res.device /\ announced' = announced
    BY <1>6, SaveFacts DEF Save
  <2>2. ToldOf(work'.res.device.trip)
    BY <2>1 DEF ConfirmationsTold, ToldOf, TripCarriedOver
  <2>3. Place(work'.call) = 3 /\ work'.call # "save"
    BY <2>1, Places
  <2> QED BY <2>1, <2>2, <2>3 DEF ConfirmationsTold, ToldOf
<1>7. CASE Quiet
  <2>1. PICK told : Advance(told)
    BY <1>7, QuietFacts
  <2>2. /\ work.call \in Resolved /\ Place(work.call) # 8
        /\ device' = device /\ announced' = announced
    BY <1>7, QuietFacts
  <2>3. /\ Executing(work) /\ work'.res = work.res /\ work'.call \in Resolved
        /\ Place(work.call) \in 3..15 /\ Place(work'.call) \in 3..15
        /\ Place(work'.call) > Place(work.call)
        /\ \A name \in CallNames :
             Place(work.call) < Place(name) /\ Place(name) < Place(work'.call)
               => ~Asks(work.res, name)
    BY <2>1, <2>2, ExecutingAdvances DEF Executing
  <2>4. ASSUME Place(work.call) <= 8, Place(work'.call) > 8
        PROVE  ToldOf(Confirmed(work.res))
    <3>1. ~Confirms(work.res)
      BY <2>2, <2>3, <2>4, Places, Named, AskedFacts
    <3>2. ToldOf(work.res.device.trip)
      BY <2>2, <2>4 DEF ConfirmationsTold
    <3> QED BY <1>2, <2>3, <3>1, <3>2, ConfirmsFacts DEF Executing, ToldOf
  <2>5. work'.call # "save"
    BY <1>1, <2>3
  <2> QED BY <2>2, <2>3, <2>4, <2>5 DEF ConfirmationsTold, ToldOf
<1>8. CASE Announce
  <2>1. /\ work.call = "announce" /\ Advance({"started"}) /\ device' = device
        /\ announced' = TripAfterClosing(work.res).start
    BY <1>8 DEF Announce
  <2>2. work.call \in Resolved /\ Place(work.call) = 8
    BY <2>1, Named, Places DEF Resolved
  <2>3. /\ Executing(work) /\ work'.res = work.res /\ work'.call \in Resolved
        /\ Place(work'.call) \in 3..15 /\ Place(work'.call) > 8
    BY <2>1, <2>2, ExecutingAdvances DEF Executing
  <2>4. Confirms(work.res) /\ ~device.trip.confirmed
    BY <2>1, <2>2, <2>3, AskedFacts, ConfirmsFacts DEF Executing, ConfirmationsTold
  <2>5. announced' = Confirmed(work.res).start
    BY <2>1, <2>3, ConfirmsFacts DEF Executing
  <2>6. work'.call # "save"
    BY <1>1, <2>3
  <2> QED BY <2>1, <2>3, <2>4, <2>5, <2>6 DEF ConfirmationsTold, ToldOf
<1>9. CASE SaveAgain
  <2>1. /\ work.call \in {"clear", "keepTrip", "keepEnd", "keepStart"}
        /\ work.call \in Resolved /\ Executing(work)
        /\ device'.trip = TripAt(work.res, work.call)
    BY <1>9, SaveAgainFacts
  <2>2. Advance({}) /\ announced' = announced
    BY <1>9 DEF SaveAgain
  <2>3. /\ work'.res = work.res /\ work'.call \in Resolved
        /\ Place(work.call) \in 3..15 /\ Place(work'.call) \in 3..15
        /\ Place(work'.call) > Place(work.call)
        /\ \A name \in CallNames :
             Place(work.call) < Place(name) /\ Place(name) < Place(work'.call)
               => ~Asks(work.res, name)
    BY <2>1, <2>2, ExecutingAdvances DEF Executing
  <2>4. work'.call # "save"
    BY <1>1, <2>3
  <2>5. CASE work.call = "clear"
    <3>1. device'.trip = NoTrip /\ Place(work.call) = 6
      BY <2>1, <2>5, Places, AskedFacts, ConfirmsFacts DEF Executing, TripAt
    <3>2. ToldOf(work.res.device.trip)
      BY <2>1, <3>1 DEF ConfirmationsTold
    <3>3. ASSUME Place(work'.call) > 8 PROVE ToldOf(Confirmed(work.res))
      <4>1. ~Confirms(work.res)
        BY <2>1, <2>5, AskedFacts, ConfirmsFacts DEF Executing
      <4> QED BY <1>2, <2>1, <3>2, <4>1, ConfirmsFacts DEF Executing, ToldOf
    <3> QED BY <1>2, <2>2, <2>3, <2>4, <3>1, <3>2, <3>3 DEF ConfirmationsTold, ToldOf
  <2>6. CASE work.call # "clear"
    <3>1. Place(work.call) > 8
      BY <2>1, <2>6, Places
    <3>2. ToldOf(Confirmed(work.res))
      BY <2>1, <3>1 DEF ConfirmationsTold
    <3>3. device'.trip \in {Confirmed(work.res), TripAfterActions(work.res)}
      BY <2>1, <2>6 DEF TripAt
    <3>4. device'.trip.confirmed => announced = device'.trip.start
      BY <2>1, <3>2, <3>3, ConfirmsFacts DEF Executing, ToldOf
    <3> QED BY <2>2, <2>3, <2>4, <3>1, <3>2, <3>4 DEF ConfirmationsTold, ToldOf
  <2> QED BY <2>5, <2>6
<1>10. CASE Finish \/ Drop \/ Crash
  <2>1. work'.call = "rest" /\ UNCHANGED <<device, announced>>
    BY <1>10 DEF Finish, Drop, Crash, Rest
  <2> QED BY <1>1, <2>1 DEF ConfirmationsTold, ToldOf
<1>11. CASE SweepRead
  BY <1>11 DEF SweepRead, ConfirmationsTold, ToldOf
<1>12. CASE SweepWrite
  <2>1. device'.trip = NoTrip /\ UNCHANGED <<work, announced>>
    BY <1>12, PreservedFacts DEF SweepWrite, Typed, TypeOK
  <2> QED BY <1>2, <2>1 DEF ConfirmationsTold, ToldOf
<1>13. CASE UNCHANGED vars
  BY <1>13 DEF vars, ConfirmationsTold, ToldOf
<1> QED
  BY <1>3, <1>4, <1>5, <1>6, <1>7, <1>8, <1>9, <1>10, <1>11, <1>12, <1>13 DEF Next, Quiet

\* A trip the motion state calls confirmed has been announced, whatever failed.
THEOREM ConfirmedTripsWereAnnounced == Spec => []ConfirmedTripWasAnnounced
<1>1. Init => ConfirmationsTold
  <2>1. \A name \in {"rest", "read", "save"} : name \notin Resolved
    BY Named DEF Resolved
  <2> QED BY <2>1, UnseenFacts DEF Init, Rest, ConfirmationsTold, ToldOf, NoTrip
<1>2. Typed /\ ConfirmationsTold /\ [Next]_vars => (Typed /\ ConfirmationsTold)'
  BY TypedStep, ConfirmationsToldStep
<1>3. ConfirmationsTold => ConfirmedTripWasAnnounced
  BY DEF ConfirmationsTold, ToldOf, ConfirmedTripWasAnnounced
<1> QED BY <1>1, <1>2, <1>3, TypedInitially, PTL DEF Spec

-----------------------------------------------------------------------------
(* An announced trip is not forgotten.                                     *)

\* The last announced trip, while nothing has settled it or given it up.
Alive == announced # None /\ announced \notin {settled, lost}

Held(trip) == trip.start = announced /\ trip.confirmed

\* Where an announced trip is, by the place of the next call: in Redis between
\* positions, in memory while its confirmation is to be saved, and in both
\* otherwise, unless this position closes it.
AnnouncedTripHeld ==
  Alive =>
    /\ work.call \in {"rest", "read", "save"} => Held(device.trip)
    /\ work.call = "save" => Held(work.from.trip)
    /\ work.call \in Resolved /\ Place(work.call) <= 4 =>
         /\ Held(work.res.trip)
         /\ ~Closes(work.res.acts) => Held(work.res.device.trip)
         /\ ~(Closes(work.res.acts) /\ "startTrip" \in work.res.acts) => Held(device.trip)
    /\ work.call \in Resolved /\ Place(work.call) \in 5..8 =>
         ~Closes(work.res.acts) /\ Held(device.trip) /\ Held(work.res.device.trip)
    /\ work.call \in Resolved /\ Place(work.call) > 8 => Held(Confirmed(work.res))
    /\ work.call \in Resolved /\ Place(work.call) > 9 => Held(device.trip)

\* An alive trip that the position goes on with is held up to the next call.
LEMMA HeldAdvances ==
  ASSUME Typed, AnnouncedTripHeld, Alive, NEW told, Advance(told),
         work.call \in Resolved, Place(work.call) \notin {8, 9},
         Place(work.call) = 4 => ~Closes(work.res.acts),
         UNCHANGED <<announced, settled, lost>>, device'.trip = device.trip
  PROVE  AnnouncedTripHeld'
<1>1. /\ Executing(work) /\ work'.res = work.res /\ work'.call \in Resolved
      /\ Place(work.call) \in 3..15 /\ Place(work'.call) \in 3..15
      /\ Place(work'.call) > Place(work.call)
      /\ \A name \in CallNames :
           Place(work.call) < Place(name) /\ Place(name) < Place(work'.call)
             => ~Asks(work.res, name)
  BY ExecutingAdvances DEF Executing
<1>2. work'.call \notin {"rest", "read", "save"}
  BY <1>1, Named DEF Resolved
<1>3. ASSUME Place(work.call) <= 8, Place(work'.call) > 4
      PROVE  /\ ~Closes(work.res.acts)
             /\ Held(device.trip) /\ Held(work.res.device.trip)
  <2>1. CASE Place(work.call) = 3
    <3>1. ~Asks(work.res, "settle")
      BY <1>1, <1>3, <2>1, Places, Named
    <3>2. work.res.trip.confirmed
      BY <2>1 DEF AnnouncedTripHeld, Held
    <3>3. ~Closes(work.res.acts)
      BY <3>1, <3>2, AskedFacts
    <3> QED BY <2>1, <3>3 DEF AnnouncedTripHeld
  <2>2. CASE Place(work.call) = 4
    BY <2>2 DEF AnnouncedTripHeld
  <2>3. CASE Place(work.call) \in 5..8
    BY <2>3 DEF AnnouncedTripHeld
  <2> QED BY <1>1, <1>3, <2>1, <2>2, <2>3
<1>4. ASSUME Place(work'.call) > 8
      PROVE  Held(Confirmed(work.res)) /\ Held(device.trip)
  <2>1. CASE Place(work.call) <= 8
    <3>1. ~Confirms(work.res)
      BY <1>1, <1>4, <2>1, Places, Named, AskedFacts
    <3>2. Confirmed(work.res) = work.res.device.trip
      BY <1>1, <1>3, <1>4, <2>1, <3>1, ConfirmsFacts DEF Executing
    <3> QED BY <1>1, <1>3, <1>4, <2>1, <3>2
  <2>2. CASE Place(work.call) > 9
    BY <1>1, <2>2 DEF AnnouncedTripHeld
  <2> QED BY <1>1, <2>1, <2>2
<1>5. ASSUME Place(work'.call) <= 4
      PROVE  /\ Held(work.res.trip)
             /\ ~Closes(work.res.acts) => Held(work.res.device.trip)
             /\ ~(Closes(work.res.acts) /\ "startTrip" \in work.res.acts)
                  => Held(device.trip)
  BY <1>1, <1>5 DEF AnnouncedTripHeld
<1>6. /\ Held(device.trip)' <=> Held(device.trip)
      /\ Held(work.res.trip)' <=> Held(work.res.trip)
      /\ Held(work.res.device.trip)' <=> Held(work.res.device.trip)
      /\ Held(Confirmed(work.res))' <=> Held(Confirmed(work.res))
  BY <1>1 DEF Held
<1> QED BY <1>1, <1>2, <1>3, <1>4, <1>5, <1>6 DEF AnnouncedTripHeld

LEMMA AnnouncedTripHeldStep ==
  ASSUME Typed, AnnouncedTripHeld, [Next]_vars
  PROVE  AnnouncedTripHeld'
<1> Typed'
  BY TypedStep
<1>1. \A name \in {"rest", "read", "save"} : name \notin Resolved
  BY Named DEF Resolved
<1>2. ASSUME NEW p \in Positions, Begin(p) PROVE AnnouncedTripHeld'
  <2>1. /\ work.call = "rest" /\ work'.call = "read"
        /\ UNCHANGED <<device, announced, settled, lost>>
    BY <1>2 DEF Begin, Rest
  <2> QED BY <1>1, <2>1 DEF AnnouncedTripHeld, Alive, Held
<1>3. CASE Read
  <2>1. /\ work.call = "read" /\ work'.call = "save" /\ work'.from = device
        /\ UNCHANGED <<device, announced, settled, lost>>
    BY <1>3 DEF Read, Deciding
  <2> QED BY <1>1, <2>1 DEF AnnouncedTripHeld, Alive, Held
<1>4. CASE ReadFails \/ SweepWrite
  <2>1. ~Alive'
    BY <1>4 DEF ReadFails, SweepWrite, Alive
  <2> QED BY <2>1 DEF AnnouncedTripHeld
<1>5. CASE Save
  <2>1. /\ work.call = "save" /\ work'.call = "actions" /\ Executing(work')
        /\ TripCarriedOver(work.from, work.pos, work'.res)
        /\ device' = work'.res.device /\ UNCHANGED <<announced, settled, lost>>
    BY <1>5, SaveFacts DEF Save
  <2>2. Place(work'.call) = 3 /\ work'.call \notin {"rest", "read", "save"}
    BY <2>1, Places
  <2>3. ASSUME Alive
        PROVE  /\ work'.res.trip.start = announced /\ work'.res.trip.confirmed
               /\ ~Closes(work'.res.acts) => "startTrip" \notin work'.res.acts
               /\ "startTrip" \notin work'.res.acts =>
                    work'.res.device.trip.start = announced /\ work'.res.device.trip.confirmed
    BY <2>1, <2>3 DEF AnnouncedTripHeld, Alive, Held, TripCarriedOver
  <2> QED BY <2>1, <2>2, <2>3 DEF AnnouncedTripHeld, Alive, Held
<1>6. CASE Pass \/ PublishStop
  <2>1. PICK told : Advance(told)
    BY <1>6, QuietFacts DEF Quiet
  <2>2. /\ work.call \in Resolved /\ Place(work.call) \notin {4, 8, 9}
        /\ UNCHANGED <<device, announced, settled, lost>>
    BY <1>6, QuietFacts, Places DEF Quiet, Pass, PublishStop
  <2>3. CASE Alive
    BY <2>1, <2>2, <2>3, HeldAdvances
  <2>4. CASE ~Alive
    BY <2>2, <2>4 DEF AnnouncedTripHeld, Alive
  <2> QED BY <2>3, <2>4
<1>7. CASE Settle
  <2>1. /\ work.call = "settle" /\ work.call \in Resolved /\ Place(work.call) = 4
        /\ settled' = IF work.res.trip.start = announced THEN announced ELSE settled
        /\ UNCHANGED <<device, announced, lost>>
    BY <1>7, Named, Places DEF Settle, Resolved
  <2>2. ~Alive'
    BY <2>1 DEF AnnouncedTripHeld, Held, Alive
  <2> QED BY <2>2 DEF AnnouncedTripHeld
<1>8. CASE Announce
  <2>1. /\ work.call = "announce" /\ Advance({"started"})
        /\ announced' = TripAfterClosing(work.res).start
    BY <1>8 DEF Announce
  <2>2. work.call \in Resolved /\ Place(work.call) = 8
    BY <2>1, Named, Places DEF Resolved
  <2>3. /\ Executing(work) /\ work'.res = work.res /\ work'.call \in Resolved
        /\ Place(work'.call) \in 3..15 /\ Place(work'.call) > 8
        /\ \A name \in CallNames :
             8 < Place(name) /\ Place(name) < Place(work'.call) => ~Asks(work.res, name)
    BY <2>1, <2>2, ExecutingAdvances DEF Executing
  <2>4. Confirms(work.res)
    BY <2>1, <2>3, AskedFacts DEF Executing
  <2>5. Place(work'.call) = 9
    BY <2>3, <2>4, Places, Named, AskedFacts
  <2>6. announced' = Confirmed(work.res).start /\ Confirmed(work.res).confirmed
    BY <2>1, <2>3, <2>4, ConfirmsFacts DEF Executing
  <2>7. work'.call \notin {"rest", "read", "save"}
    BY <1>1, <2>3
  <2> QED BY <2>3, <2>5, <2>6, <2>7 DEF AnnouncedTripHeld, Held
<1>9. CASE SaveAgain
  <2>1. /\ work.call \in {"clear", "keepTrip", "keepEnd", "keepStart"}
        /\ work.call \in Resolved /\ Executing(work)
        /\ device'.trip = TripAt(work.res, work.call)
    BY <1>9, SaveAgainFacts
  <2>2. Advance({}) /\ UNCHANGED <<announced, settled, lost>>
    BY <1>9 DEF SaveAgain
  <2>3. /\ work'.res = work.res /\ work'.call \in Resolved
        /\ Place(work.call) \in 3..15 /\ Place(work'.call) \in 3..15
        /\ Place(work'.call) > Place(work.call)
    BY <2>1, <2>2, ExecutingAdvances DEF Executing
  <2>4. work'.call \notin {"rest", "read", "save"}
    BY <1>1, <2>3
  <2>5. Alive' <=> Alive
    BY <2>2 DEF Alive
  <2>6. CASE work.call = "clear"
    <3>1. ~Alive
      BY <2>1, <2>6, Places, AskedFacts DEF Executing, AnnouncedTripHeld
    <3> QED BY <2>5, <3>1 DEF AnnouncedTripHeld
  <2>7. CASE work.call # "clear"
    <3>1. Place(work.call) > 8 /\ Place(work'.call) > 9
      BY <2>1, <2>3, <2>7, Places
    <3>2. Alive => Held(Confirmed(work.res))
      BY <2>1, <3>1 DEF AnnouncedTripHeld
    <3>3. device'.trip \in {Confirmed(work.res), TripAfterActions(work.res)}
      BY <2>1, <2>7 DEF TripAt
    <3>4. Alive => device'.trip.start = announced /\ device'.trip.confirmed
      BY <2>1, <3>2, <3>3, ConfirmsFacts DEF Executing, Held
    <3>5. Alive => Held(device.trip)' /\ Held(Confirmed(work.res))'
      BY <2>2, <2>3, <3>2, <3>4 DEF Held
    <3> QED BY <2>3, <2>4, <2>5, <3>1, <3>5 DEF AnnouncedTripHeld
  <2> QED BY <2>6, <2>7
<1>10. CASE Finish
  <2>1. /\ work.call = "done" /\ work.call \in Resolved /\ Place(work.call) = 15
        /\ work'.call = "rest" /\ UNCHANGED <<device, announced, settled, lost>>
    BY <1>10, Named, Places DEF Finish, Rest, Resolved
  <2> QED BY <1>1, <2>1 DEF AnnouncedTripHeld, Alive, Held
<1>11. CASE Drop \/ Crash
  <2>1. /\ work'.call = "rest" /\ UNCHANGED <<device, announced, settled>>
        /\ lost' = IF AtRisk THEN announced ELSE lost
    BY <1>11 DEF Drop, Crash, GivenUp, Rest
  <2>2. CASE AtRisk \/ ~Alive
    <3>1. ~Alive'
      BY <2>1, <2>2 DEF Alive
    <3> QED BY <3>1 DEF AnnouncedTripHeld
  <2>3. CASE ~AtRisk /\ Alive
    <3>1. Held(device.trip)
      <4>1. CASE work.call \in {"rest", "read", "save"}
        BY <2>3, <4>1 DEF AnnouncedTripHeld
      <4>2. CASE work.call \in Resolved
        <5>1. /\ Place(work.call) \in 3..15 /\ Place(work.call) # 9
              /\ Place(work.call) <= 4 => work.call \in {"actions", "settle"}
          BY <2>3, <4>2, Named, Places DEF Resolved, AtRisk
        <5>2. CASE Place(work.call) <= 4
          <6>1. ~(Closes(work.res.acts) /\ "startTrip" \in work.res.acts)
            BY <2>3, <5>1, <5>2 DEF AtRisk
          <6> QED BY <2>3, <4>2, <5>2, <6>1 DEF AnnouncedTripHeld
        <5>3. CASE Place(work.call) \in 5..8
          BY <2>3, <4>2, <5>3 DEF AnnouncedTripHeld
        <5>4. CASE Place(work.call) > 9
          BY <2>3, <4>2, <5>4 DEF AnnouncedTripHeld
        <5> QED BY <5>1, <5>2, <5>3, <5>4
      <4> QED BY <4>1, <4>2, FormFacts DEF Typed, Resolved
    <3>2. Held(device.trip)'
      BY <2>1, <3>1 DEF Held
    <3> QED BY <1>1, <2>1, <3>2 DEF AnnouncedTripHeld
  <2> QED BY <2>2, <2>3
<1>12. CASE SweepRead
  BY <1>12 DEF SweepRead, AnnouncedTripHeld, Alive, Held
<1>13. CASE UNCHANGED vars
  BY <1>13 DEF vars, AnnouncedTripHeld, Alive, Held
<1> QED
  BY <1>2, <1>3, <1>4, <1>5, <1>6, <1>7, <1>8, <1>9, <1>10, <1>11, <1>12, <1>13 DEF Next

\* An announced trip stays in the motion state until an event settles it or its
\* record is given up, whatever fails in between.
THEOREM AnnouncedTripsAreNotForgotten == Spec => []AnnouncedTripIsNotForgotten
<1>1. Init => AnnouncedTripHeld
  BY DEF Init, AnnouncedTripHeld, Alive
<1>2. Typed /\ AnnouncedTripHeld /\ [Next]_vars => (Typed /\ AnnouncedTripHeld)'
  BY TypedStep, AnnouncedTripHeldStep
<1>3. Typed /\ AnnouncedTripHeld => AnnouncedTripIsNotForgotten
  <2> SUFFICES ASSUME Typed, AnnouncedTripHeld, Alive,
                      announced # device.trip.start
               PROVE  \/ /\ work.call \in {"actions", "settle"}
                         /\ Closes(work.res.acts) /\ work.res.trip.start = announced
                      \/ work.call = "keepTrip"
    BY DEF AnnouncedTripIsNotForgotten, Alive
  <2>1. work.call \in Resolved
    BY FormFacts DEF Typed, Resolved, AnnouncedTripHeld, Held
  <2>2. /\ Place(work.call) \in 3..15
        /\ Place(work.call) <= 4 => work.call \in {"actions", "settle"}
        /\ Place(work.call) = 9 => work.call = "keepTrip"
    BY <2>1, Named, Places DEF Resolved
  <2>3. Place(work.call) <= 4 \/ Place(work.call) = 9
    BY <2>1, <2>2 DEF AnnouncedTripHeld, Held
  <2> QED BY <2>1, <2>2, <2>3 DEF AnnouncedTripHeld, Held
<1> QED BY <1>1, <1>2, <1>3, TypedInitially, PTL DEF Spec

-----------------------------------------------------------------------------
(* A completed trip does not end before it began.                          *)

\* A trip is older than the last position, and older than the stop of a device
\* that stands.  The stop of a device that moves may be one an interrupted
\* position left open, and older than the trip.
TripInOrder(d) ==
  /\ HasTrip(d) => d.trip.start <= d.last
  /\ d.state \in Stationary /\ HasTrip(d) /\ HasStop(d) => d.trip.start <= d.stop.start

EndsInOrder(r) == "endTrip" \in r.acts => r.tripEnd >= r.trip.start

\* What can complete a trip: parking measures it up to the stop.
LEMMA CompletionFacts ==
  ASSUME NEW d, NEW p, NEW u,
         "endTrip" \in HandleLargeGap(d, p, u, DetermineActions(d.state, u))
  PROVE  \/ Resumes(d.state, u) /\ HasTrip(u)
         \/ IdleTooLong(u)
         \/ ParkedLong(u) /\ WorthKeeping(u, u.stop.start)
         \/ Overnight(d, p)
<1>1. ASSUME "endTrip" \in ClosingVerdicts(d.state, u)
      PROVE  \/ Resumes(d.state, u) /\ HasTrip(u)
             \/ IdleTooLong(u)
             \/ ParkedLong(u) /\ WorthKeeping(u, u.stop.start)
  BY <1>1 DEF ClosingVerdicts, Verdict, BeginsTrip
<1>2. \/ "endTrip" \in ClosingVerdicts(d.state, u)
      \/ Overnight(d, p)
  BY DEF HandleLargeGap, DetermineActions, ForcedClosure
<1> QED BY <1>1, <1>2

LEMMA NextInOrder ==
  ASSUME NEW d, Known(d), d.state # "UNKNOWN", TripInOrder(d),
         NEW p \in Positions, HasTrip(d) => d.last <= p.ts, NEW useIgnition,
         NEW avg \in SpeedClasses, NEW adj \in Nat
  PROVE  LET r == NextPosition(d, p, useIgnition, avg, adj)
         IN  TripInOrder(r.device) /\ r.device.last = p.ts /\ EndsInOrder(r)
<1> DEFINE r == NextPosition(d, p, useIgnition, avg, adj)
           new == DetermineState(d, p, useIgnition)
           u == UpdateState(d, p, new, avg, adj)
           acts == HandleLargeGap(d, p, u, DetermineActions(d.state, u))
<1>1. d \in DeviceRecords /\ new \in MotionStates /\ p.ts \in Nat
  BY StateTyped DEF Known, DeviceRecords, Positions
<1>2. /\ u \in DeviceRecords
      /\ u.state = new /\ u.last = p.ts /\ u.stop = d.stop
      /\ u.since = IF new # d.state THEN p.ts ELSE d.since
      /\ u.trip.start = d.trip.start
  BY <1>1, UpdateFacts
<1>3. r.acts = acts /\ r.trip = u.trip /\ r.device = ApplyTransition(d, p, u, acts)
        /\ r.tripEnd = TripEnd(d, p, u)
  BY DEF NextPosition
<1> HIDE DEF new, u
<1>4. /\ acts \in SUBSET ActionNames
      /\ "startTrip" \in acts <=> BeginsTrip(d.state, u)
      /\ "startStop" \in acts <=>
           BeginsStop(d.state, u) \/ (SilentStop(d, p) /\ u.state \in Stationary)
  BY ActionFacts
<1>5. "endTrip" \in acts =>
        \/ Resumes(d.state, u) /\ HasTrip(u)
        \/ IdleTooLong(u)
        \/ ParkedLong(u) /\ WorthKeeping(u, u.stop.start)
        \/ Overnight(d, p)
  BY CompletionFacts
<1> HIDE DEF acts, r
<1>6. /\ r.device.state = u.state /\ r.device.last = u.last
      /\ r.device.trip.start = IF "startTrip" \in acts THEN p.ts ELSE u.trip.start
      /\ r.device.stop = IF "startStop" \in acts THEN StopStarted(d, p) ELSE u.stop
  <2>1. TransitionApplied(d, p, u, acts, ApplyTransition(d, p, u, acts))
    BY <1>1, <1>2, <1>4, ApplyFacts
  <2> QED BY <1>3, <2>1 DEF TransitionApplied
<1>7. /\ d.last \in Nat /\ d.trip.start \in Nat \cup {None}
      /\ d.stop.start \in Nat \cup {None} /\ d.state \in MotionStates
      /\ d.since \in Nat
  BY <1>1 DEF DeviceRecords, TripRecords, StopRecords, NoTrip, NoStop
<1>8. TripInOrder(r.device)
  <2>1. HasTrip(r.device) => r.device.trip.start <= r.device.last
    BY <1>1, <1>2, <1>6, <1>7 DEF TripInOrder, HasTrip
  <2>2. ASSUME u.state \in Stationary, HasTrip(r.device), HasStop(r.device)
        PROVE  r.device.trip.start <= r.device.stop.start
    <3>1. "startTrip" \notin acts /\ HasTrip(d) /\ r.device.trip.start = d.trip.start
      BY <1>2, <1>4, <1>6, <2>2 DEF BeginsTrip, Resumes, Stationary, HasTrip
    <3>2. CASE "startStop" \in acts
      <4>1. r.device.stop.start \in {d.last, p.ts}
        BY <1>6, <3>2 DEF StopStarted, StopStart
      <4>2. d.trip.start <= d.last /\ d.trip.start \in Int
        BY <1>7, <3>1 DEF TripInOrder, None
      <4> QED BY <1>1, <1>7, <3>1, <4>1, <4>2
    <3>3. CASE "startStop" \notin acts
      <4>1. d.state \in Stationary /\ HasStop(d) /\ r.device.stop = d.stop
        BY <1>2, <1>4, <1>6, <1>7, <2>2, <3>3
           DEF BeginsStop, HasStop, MotionStates, Stationary
      <4> QED BY <3>1, <4>1 DEF TripInOrder
    <3> QED BY <3>2, <3>3
  <2> QED BY <1>6, <2>1, <2>2 DEF TripInOrder
<1>9. EndsInOrder(r)
  <2> SUFFICES ASSUME "endTrip" \in acts PROVE r.tripEnd >= u.trip.start
    BY <1>3 DEF EndsInOrder
  <2>1. u.trip.start <= d.last /\ u.trip.start <= u.last
    BY <1>1, <1>2, <1>7 DEF TripInOrder, HasTrip, None
  <2>2. CASE Overnight(d, p)
    BY <1>3, <1>7, <2>1, <2>2 DEF TripEnd
  <2>3. CASE ~Overnight(d, p) /\ ~HasStop(u)
    BY <1>1, <1>2, <1>3, <1>7, <2>1, <2>3 DEF TripEnd
  <2>4. CASE ~Overnight(d, p) /\ HasStop(u)
    <3>1. r.tripEnd = d.stop.start /\ HasStop(d)
      BY <1>2, <1>3, <2>4 DEF TripEnd, HasStop
    <3>2. CASE Resumes(d.state, u) /\ HasTrip(u)
      BY <1>2, <1>7, <3>1, <3>2 DEF Resumes, HasTrip, TripInOrder
    <3>3. CASE IdleTooLong(u)
      <4>1. HasTrip(d) /\ d.state = "IDLE"
        BY <1>1, <1>2, <1>7, <3>3 DEF IdleTooLong, HasTrip
      <4> QED BY <1>2, <1>7, <3>1, <4>1 DEF TripInOrder, Stationary
    <3>4. CASE WorthKeeping(u, u.stop.start)
      <4>1. u.stop.start - u.trip.start >= MinTripDuration
        BY <3>4 DEF WorthKeeping
      <4>2. d.stop.start - d.trip.start >= MinTripDuration
        BY <1>2, <4>1
      <4>3. MinTripDuration \in Nat /\ d.stop.start \in Int /\ d.trip.start \in Int
        BY <1>7 DEF None
      <4> QED BY <1>2, <3>1, <4>2, <4>3
    <3> QED BY <1>5, <2>4, <3>2, <3>3, <3>4
  <2> QED BY <2>2, <2>3, <2>4
<1> QED BY <1>2, <1>6, <1>8, <1>9 DEF r

LEMMA ResultInOrder ==
  ASSUME NEW d, Known(d), TripInOrder(d), NEW p \in Positions,
         HasTrip(d) => d.last <= p.ts, NEW useIgnition, NEW r \in Outcomes(d, p, useIgnition)
  PROVE  TripInOrder(r.device) /\ r.device.last = p.ts /\ EndsInOrder(r)
<1>1. CASE d.state = "UNKNOWN"
  <2>1. r = FirstPosition(d, p, useIgnition)
    BY <1>1 DEF Outcomes
  <2> DEFINE moves == FirstState(p, useIgnition) = "MOVING"
  <2>2. /\ r.acts = IF moves THEN {"startTrip"} ELSE {"startStop"}
        /\ r.device.last = p.ts
        /\ r.device.trip.start = IF moves THEN p.ts ELSE None
        /\ r.device.stop.start = IF moves THEN None ELSE p.ts
    BY <2>1 DEF FirstPosition, NewTrip, NoTrip, NoStop
  <2> HIDE DEF moves
  <2>3. p.ts \in Nat
    BY DEF Positions
  <2> QED BY <2>2, <2>3 DEF TripInOrder, HasTrip, HasStop, EndsInOrder
<1>2. CASE d.state # "UNKNOWN"
  <2>1. PICK avg \in NextAverages(d, p), adj \in AdjustedDistances(d, p) :
          r = NextPosition(d, p, useIgnition, avg, adj)
    BY <1>2 DEF Outcomes
  <2>2. avg \in SpeedClasses /\ adj \in Nat
    BY <2>1 DEF NextAverages, SpeedClasses, AdjustedDistances, Positions
  <2> QED BY <1>2, <2>1, <2>2, NextInOrder
<1> QED BY <1>1, <1>2

\* A trip in order is not ahead of the clock, a record without a trip may be.
BehindClock(d) == TripInOrder(d) /\ (HasTrip(d) => d.last <= clock)

\* The clock is the position in progress.  While the positions of a trip arrive
\* in order, so are its records.
RecordsInOrder ==
  /\ work # Rest => clock = work.pos.ts
  /\ inOrder =>
       /\ BehindClock(device)
       /\ work.call = "save" => BehindClock(work.from)
       /\ work.call \in Resolved =>
            TripInOrder(work.res.device) /\ work.res.device.last = clock /\ EndsInOrder(work.res)

LEMMA RecordsInOrderStep ==
  ASSUME Typed, RecordsInOrder, [Next]_vars
  PROVE  RecordsInOrder'
<1> Typed'
  BY TypedStep
<1> USE DEF BehindClock
<1>1. \A name \in {"rest", "read", "save"} : name \notin Resolved
  BY Named DEF Resolved
<1>2. /\ device \in DeviceRecords /\ device.last \in Nat
      /\ clock \in Nat /\ sweep \in Nat \cup {None}
  BY DEF Typed, TypeOK, DeviceRecords
<1>3. ASSUME NEW p \in Positions, Begin(p) PROVE RecordsInOrder'
  <2>1. /\ work'.call = "read" /\ work'.pos.ts = p.ts /\ clock' = p.ts
        /\ inOrder' => (HasTrip(device) => inOrder /\ p.ts > clock)
        /\ UNCHANGED <<device, sweep>> /\ p.ts \in Nat
    BY <1>3 DEF Begin, Positions
  <2> QED BY <1>1, <1>2, <2>1 DEF RecordsInOrder, TripInOrder, HasTrip, HasStop
<1>4. CASE Read
  <2>1. /\ work'.call = "save" /\ work'.from = device /\ work'.pos = work.pos
        /\ work # Rest /\ UNCHANGED <<device, sweep, clock, inOrder>>
    BY <1>4 DEF Read, Deciding, Rest
  <2> QED BY <1>1, <2>1 DEF RecordsInOrder, TripInOrder, HasTrip, HasStop
<1>5. CASE ReadFails
  <2>1. /\ work'.call = "save" /\ work'.from = Unseen /\ work'.pos = work.pos
        /\ work # Rest /\ UNCHANGED <<device, sweep, clock, inOrder>>
    BY <1>5 DEF ReadFails, Deciding, Rest
  <2>2. ~HasTrip(Unseen)
    BY UnseenFacts DEF HasTrip, NoTrip
  <2> QED BY <1>1, <2>1, <2>2 DEF RecordsInOrder, TripInOrder, HasTrip, HasStop
<1>6. CASE Save
  <2>1. /\ Saving(work) /\ work.call = "save" /\ work'.call = "actions"
        /\ work'.from = work.from /\ work'.pos = work.pos
        /\ work'.res \in Outcomes(work.from, work.pos, work'.ign)
        /\ device' = work'.res.device /\ UNCHANGED <<sweep, clock, inOrder>>
    BY <1>6, SaveFacts DEF Save
  <2>2. work # Rest
    BY <2>1 DEF Rest
  <2>3. inOrder => /\ TripInOrder(work'.res.device) /\ work'.res.device.last = clock
                   /\ EndsInOrder(work'.res)
    BY <2>1, <2>2, ResultInOrder DEF RecordsInOrder, Saving
  <2> QED BY <1>2, <2>1, <2>2, <2>3
          DEF RecordsInOrder, TripInOrder, HasTrip, HasStop, EndsInOrder
<1>7. ASSUME NEW told, Advance(told), work.call \in Resolved,
             inOrder => BehindClock(device)',
             UNCHANGED <<clock, inOrder>>
      PROVE  RecordsInOrder'
  <2>1. /\ work'.call \in Resolved /\ work'.res = work.res /\ work'.pos = work.pos
        /\ work # Rest
    BY <1>1, <1>7, ExecutingAdvances DEF Executing, Rest
  <2> QED BY <1>1, <1>7, <2>1
          DEF RecordsInOrder, TripInOrder, HasTrip, HasStop, EndsInOrder
<1>8. CASE Quiet \/ Announce
  <2>1. \E told : Advance(told)
    BY <1>8, QuietFacts DEF Announce
  <2>2. work.call \in Resolved /\ UNCHANGED <<device, clock, inOrder, sweep>>
    BY <1>8, QuietFacts, Named DEF Announce, Resolved
  <2>3. inOrder => BehindClock(device)'
    BY <2>2 DEF RecordsInOrder, TripInOrder, HasTrip, HasStop
  <2> QED BY <1>7, <2>1, <2>2, <2>3
<1>9. CASE SaveAgain
  <2>1. /\ work.call \in Resolved /\ Executing(work)
        /\ device'.state = work.res.device.state
        /\ device'.last = work.res.device.last
        /\ device'.trip = TripAt(work.res, work.call)
        /\ device'.stop = StopAt(work.res, work.call)
    BY <1>9, SaveAgainFacts
  <2>2. Advance({}) /\ UNCHANGED <<clock, inOrder, sweep>>
    BY <1>9 DEF SaveAgain
  <2>3. device'.trip.start \in {None, work.res.device.trip.start}
    BY <2>1, ConfirmsFacts DEF Executing, TripAt
  <2>4. device'.stop.start \in {None, work.res.device.stop.start}
    BY <2>1 DEF StopAt, StopAfterActions, NoStop
  <2>5. inOrder => TripInOrder(work.res.device) /\ work.res.device.last = clock
    BY <2>1 DEF RecordsInOrder
  <2>6. inOrder => BehindClock(device)'
    BY <1>2, <2>1, <2>2, <2>3, <2>4, <2>5 DEF TripInOrder, HasTrip, HasStop
  <2> QED BY <1>7, <2>1, <2>2, <2>6
<1>10. CASE Finish \/ Drop \/ Crash
  <2>1. work' = Rest /\ work'.call = "rest" /\ UNCHANGED <<device, clock, inOrder>>
    BY <1>10 DEF Finish, Drop, Crash, Rest
  <2> QED BY <1>1, <2>1 DEF RecordsInOrder, TripInOrder, HasTrip, HasStop
<1>11. CASE SweepRead
  BY <1>11 DEF SweepRead, RecordsInOrder, TripInOrder, HasTrip, HasStop, EndsInOrder
<1>12. CASE SweepWrite
  <2>1. /\ sweep \in Nat /\ device' = Preserved(sweep)
        /\ UNCHANGED <<work, clock, inOrder>>
    BY <1>2, <1>12 DEF SweepWrite
  <2>2. ~HasTrip(device')
    BY <2>1, PreservedFacts DEF HasTrip, NoTrip
  <2>3. BehindClock(device)'
    BY <2>2 DEF TripInOrder, HasTrip
  <2> QED BY <2>1, <2>3 DEF RecordsInOrder, TripInOrder, HasTrip, HasStop, EndsInOrder
<1>13. CASE UNCHANGED vars
  BY <1>13 DEF vars, RecordsInOrder, TripInOrder, HasTrip, HasStop, EndsInOrder
<1> QED
  BY <1>3, <1>4, <1>5, <1>6, <1>8, <1>9, <1>10, <1>11, <1>12, <1>13 DEF Next, Quiet

\* No completed trip ends before it began while its positions arrive in order,
\* whatever interruptions, and late positions before it, left behind.
THEOREM CompletedTripsStayPositive == Spec => []CompletedTripsAreNotNegative
<1>1. Init => RecordsInOrder
  <2>1. \A name \in {"rest", "read", "save"} : name \notin Resolved
    BY Named DEF Resolved
  <2> QED BY <2>1, UnseenFacts
          DEF Init, Rest, RecordsInOrder, BehindClock, TripInOrder, HasTrip, NoTrip, None
<1>2. Typed /\ RecordsInOrder /\ [Next]_vars => (Typed /\ RecordsInOrder)'
  BY TypedStep, RecordsInOrderStep
<1>3. Typed /\ RecordsInOrder => CompletedTripsAreNotNegative
  <2> SUFFICES ASSUME RecordsInOrder, work.call = "settle", inOrder,
                      OutcomeOf(work.res) = "completed"
               PROVE  work.res.tripEnd >= work.res.trip.start
    BY DEF CompletedTripsAreNotNegative
  <2>1. work.call \in Resolved
    BY Named DEF Resolved
  <2>2. "endTrip" \in work.res.acts
    BY DEF OutcomeOf
  <2> QED BY <2>1, <2>2 DEF RecordsInOrder, EndsInOrder
<1> QED BY <1>1, <1>2, <1>3, TypedInitially, PTL DEF Spec

-----------------------------------------------------------------------------
(* An undisturbed position is atomic.                                      *)

\* What a result leaves behind and what it publishes.
Final(r) == [r.device EXCEPT !.trip = TripAfterActions(r), !.stop = StopAfterActions(r)]

Published(r) ==
  {e \in {"completed", "discarded"} : OutcomeOf(r) = e}
    \cup {e \in {"started"} : Confirms(r)}
    \cup {e \in {"endStop"} : EndsOpenStop(r)}
    \cup {e \in {"startStop"} : e \in r.acts}
    \cup {e \in {"gapStop"} : r.gapStop}

\* The call that publishes an event, and the events of the calls before place n.
Publisher(e) ==
  CASE e \in {"completed", "discarded"} -> "settle"
    [] e = "started" -> "announce"
    [] OTHER -> e

PublishedBefore(r, n) == {e \in Published(r) : Place(Publisher(e)) < n}

\* The trip and the stop saved before the call at place n.
TripBefore(r, n) ==
  IF n <= 6 THEN r.device.trip
  ELSE IF n <= 9 THEN TripAfterClosing(r)
  ELSE IF n <= 13 THEN Confirmed(r)
  ELSE TripAfterActions(r)

StopBefore(r, n) == IF n <= 13 THEN r.device.stop ELSE StopAfterActions(r)

LEMMA PublisherFacts ==
  ASSUME NEW r, NEW e \in Published(r)
  PROVE  /\ Publisher(e) \in {"settle", "announce", "endStop", "startStop", "gapStop"}
         /\ Publisher(e) \in CallNames /\ Place(Publisher(e)) \in 4..14
         /\ Asks(r, Publisher(e))
         /\ Publisher(e) = "settle" <=> e = OutcomeOf(r)
         /\ Publisher(e) = "announce" <=> e = "started"
         /\ Publisher(e) = "endStop" <=> e = "endStop"
         /\ Publisher(e) = "startStop" <=> e = "startStop"
         /\ Publisher(e) = "gapStop" <=> e = "gapStop"
<1>1. OutcomeOf(r) \in {"none", "completed", "discarded", "dropped"}
  BY DEF OutcomeOf
<1>2. e \in {"completed", "discarded", "started", "endStop", "startStop", "gapStop"}
  BY DEF Published
<1>3. /\ e \in {"completed", "discarded"} => e = OutcomeOf(r)
      /\ e = "started" => Confirms(r)
      /\ e = "endStop" => EndsOpenStop(r)
      /\ e = "startStop" => "startStop" \in r.acts
      /\ e = "gapStop" => r.gapStop
  BY DEF Published
<1>4. /\ e \in {"completed", "discarded"} => Publisher(e) = "settle"
      /\ e = "started" => Publisher(e) = "announce"
      /\ e \in {"endStop", "startStop", "gapStop"} => Publisher(e) = e
  BY DEF Publisher
<1>5. Asks(r, Publisher(e))
  BY <1>2, <1>3, <1>4, AskedFacts
<1>6. Publisher(e) \in {"settle", "announce", "endStop", "startStop", "gapStop"}
  BY <1>2, <1>4
<1> QED BY <1>1, <1>2, <1>3, <1>4, <1>5, <1>6, Named, Places

\* What the call at the place of name publishes.
Tells(r, name) == {e \in Published(r) : Publisher(e) = name}

\* Going on to the next call asked for tells what this call publishes.
LEMMA PublishedAdvances ==
  ASSUME NEW r, NEW from \in CallNames, NEW to \in CallNames, Place(from) < Place(to),
         \A name \in CallNames :
           Place(from) < Place(name) /\ Place(name) < Place(to) => ~Asks(r, name)
  PROVE  PublishedBefore(r, Place(to)) = PublishedBefore(r, Place(from)) \cup Tells(r, from)
<1>1. ASSUME NEW e \in Published(r)
      PROVE  Place(Publisher(e)) < Place(to) <=>
               Place(Publisher(e)) < Place(from) \/ Publisher(e) = from
  <2>1. /\ Publisher(e) \in CallNames /\ Asks(r, Publisher(e))
        /\ Place(Publisher(e)) \in 4..14
    BY PublisherFacts
  <2>2. Place(from) \in 1..15 /\ Place(to) \in 1..15
    BY CallAt
  <2>3. Place(Publisher(e)) = Place(from) <=> Publisher(e) = from
    BY <2>1, Named
  <2> QED BY <2>1, <2>2, <2>3
<1> QED BY <1>1 DEF PublishedBefore, Tells

\* Each publishing call tells just that.
LEMMA TellsFacts ==
  ASSUME NEW r
  PROVE  /\ Asks(r, "settle") => Tells(r, "settle") = {OutcomeOf(r)}
         /\ Asks(r, "announce") => Tells(r, "announce") = {"started"}
         /\ \A name \in {"endStop", "startStop", "gapStop"} :
              Asks(r, name) => Tells(r, name) = {name}
         /\ \A name \in {"actions", "note", "clear", "open", "keepTrip", "keepEnd",
                         "keepStart", "done"} : Tells(r, name) = {}
<1>1. Asks(r, "settle") => Tells(r, "settle") = {OutcomeOf(r)}
  <2>1. Asks(r, "settle") => OutcomeOf(r) \in Published(r) /\ Publisher(OutcomeOf(r)) = "settle"
    BY AskedFacts DEF Published, Publisher
  <2> QED BY <2>1, PublisherFacts DEF Tells
<1>2. Asks(r, "announce") => Tells(r, "announce") = {"started"}
  <2>1. Asks(r, "announce") => "started" \in Published(r) /\ Publisher("started") = "announce"
    BY AskedFacts DEF Published, Publisher
  <2> QED BY <2>1, PublisherFacts DEF Tells
<1>3. ASSUME NEW name \in {"endStop", "startStop", "gapStop"}, Asks(r, name)
      PROVE  Tells(r, name) = {name}
  <2>1. name \in Published(r) /\ Publisher(name) = name
    BY <1>3, AskedFacts DEF Published, Publisher
  <2>2. ASSUME NEW e \in Tells(r, name) PROVE e = name
    <3>1. e \in Published(r) /\ Publisher(e) = name
      BY DEF Tells
    <3> QED BY <3>1, PublisherFacts
  <2>3. name \in Tells(r, name)
    BY <2>1 DEF Tells
  <2> QED BY <2>2, <2>3
<1>4. ASSUME NEW name \in {"actions", "note", "clear", "open", "keepTrip", "keepEnd",
                           "keepStart", "done"}
      PROVE  Tells(r, name) = {}
  BY PublisherFacts DEF Tells
<1> QED BY <1>1, <1>2, <1>3, <1>4

\* A saving call makes the difference up to the next one, any other call none.
LEMMA SavedAdvances ==
  ASSUME NEW r, Decided(r), NEW from \in Resolved, NEW to \in Resolved,
         Place(from) < Place(to), Asks(r, from), Asks(r, to),
         \A name \in CallNames :
           Place(from) < Place(name) /\ Place(name) < Place(to) => ~Asks(r, name)
  PROVE  IF from \in {"clear", "keepTrip", "keepEnd", "keepStart"}
         THEN /\ TripBefore(r, Place(to)) = TripAt(r, from)
              /\ StopBefore(r, Place(to)) = StopAt(r, from)
         ELSE /\ TripBefore(r, Place(to)) = TripBefore(r, Place(from))
              /\ StopBefore(r, Place(to)) = StopBefore(r, Place(from))
<1> DEFINE n == Place(from)
           m == Place(to)
<1>1. n \in 3..15 /\ m \in 3..15 /\ from \in CallNames /\ to \in CallNames
  BY Named, Places DEF Resolved
<1>2. \A name \in CallNames : n < Place(name) /\ Place(name) < m => ~Asks(r, name)
  OBVIOUS
<1>3. n < 6 /\ m > 6 => TripAfterClosing(r) = r.device.trip
  <2>1. n < 6 /\ m > 6 => ~Asks(r, "clear")
    BY <1>2, Named, Places
  <2> QED BY <2>1, AskedFacts, ConfirmsFacts
<1>4. n < 9 /\ m > 9 => Confirmed(r) = TripAfterClosing(r)
  <2>1. n < 9 /\ m > 9 => ~Asks(r, "keepTrip")
    BY <1>2, Named, Places
  <2> QED BY <2>1, AskedFacts, ConfirmsFacts
<1>5. n < 11 /\ m > 13 => ~EndsOpenStop(r)
  <2>1. n < 11 /\ m > 13 => ~Asks(r, "keepEnd")
    BY <1>1, <1>2, Named, Places
  <2>2. n < 11 /\ m > 13 => ~Asks(r, "keepStart")
    BY <1>1, <1>2, Named, Places
  <2> QED BY <2>1, <2>2, AskedFacts
<1>6. ~EndsOpenStop(r) => /\ TripAfterActions(r) = Confirmed(r)
                          /\ StopAfterActions(r) = r.device.stop
  BY DEF TripAfterActions, StopAfterActions
<1>7. n = 11 => m > 13
  BY <1>1, AskedFacts, CallAt
<1>8. n = 12 => m = 13
  <2>1. n = 12 => Asks(r, "keepStart")
    BY <1>1, AskedFacts, CallAt
  <2> QED BY <1>1, <1>2, <2>1, Named, Places
<1>9. /\ from = "clear" <=> n = 6
      /\ from = "keepTrip" <=> n = 9
      /\ from = "keepEnd" <=> n = 11
      /\ from = "keepStart" <=> n = 13
  BY <1>1, CallAt
<1> HIDE DEF n, m
<1>10. CASE from = "clear"
  <2>1. n = 6 /\ m > 6
    BY <1>9, <1>10 DEF n, m
  <2>2. /\ m <= 9 => TripBefore(r, m) = TripAfterClosing(r)
        /\ m > 9 => TripBefore(r, m) = TripAfterClosing(r)
        /\ StopBefore(r, m) = r.device.stop
    BY <1>1, <1>4, <1>5, <1>6, <2>1 DEF TripBefore, StopBefore
  <2> QED BY <1>1, <1>10, <2>2 DEF TripAt, StopAt, m
<1>11. CASE from = "keepTrip"
  <2>1. n = 9 /\ m > 9
    BY <1>9, <1>11 DEF n, m
  <2>2. TripBefore(r, m) = Confirmed(r) /\ StopBefore(r, m) = r.device.stop
    BY <1>1, <1>5, <1>6, <2>1 DEF TripBefore, StopBefore
  <2> QED BY <1>11, <2>2 DEF TripAt, StopAt, m
<1>12. CASE from \in {"keepEnd", "keepStart"}
  <2>1. m > 13
    BY <1>1, <1>7, <1>9, <1>12 DEF n, m
  <2>2. TripBefore(r, m) = TripAfterActions(r) /\ StopBefore(r, m) = StopAfterActions(r)
    BY <1>1, <2>1 DEF TripBefore, StopBefore
  <2> QED BY <1>12, <2>2 DEF TripAt, StopAt, m
<1>13. CASE from \notin {"clear", "keepTrip", "keepEnd", "keepStart"}
  <2>1. n \notin {6, 9, 11, 13} /\ n < m
    BY <1>9, <1>13 DEF n, m
  <2>2. TripBefore(r, m) = TripBefore(r, n)
    BY <1>1, <1>3, <1>4, <1>5, <1>6, <1>8, <2>1 DEF TripBefore
  <2>3. StopBefore(r, m) = StopBefore(r, n)
    BY <1>1, <1>5, <1>6, <1>8, <2>1 DEF StopBefore
  <2> QED BY <1>13, <2>2, <2>3 DEF n, m
<1> QED BY <1>10, <1>11, <1>12, <1>13

-----------------------------------------------------------------------------
(* What one undisturbed position leaves of a parked trip.                  *)

ParkedClosed(d) ==
  /\ d.state = "STOPPED" /\ HasStop(d) /\ d.last - d.stop.start >= MinStopDuration
       => ~HasTrip(d)
  /\ d.state = "IDLE" /\ d.last - d.since >= MaxIdleDuration => ~HasTrip(d)

LEMMA FinalFacts ==
  ASSUME NEW r, Decided(r)
  PROVE  /\ Final(r).state = r.device.state /\ Final(r).last = r.device.last
         /\ Final(r).since = r.device.since
         /\ Final(r).trip.start = IF Closes(r.acts) /\ "startTrip" \notin r.acts
                                  THEN None ELSE r.device.trip.start
         /\ HasStop(Final(r)) => Final(r).stop = r.device.stop
<1>1. r.device.trip \in TripRecords /\ r.device.stop \in StopRecords
        /\ r.device \in DeviceRecords
  BY DEF Decided, DeviceRecords
<1>2. /\ TripAfterActions(r) \in TripRecords /\ StopAfterActions(r) \in StopRecords
      /\ TripAfterActions(r).start = IF Closes(r.acts) /\ "startTrip" \notin r.acts
                                     THEN None ELSE r.device.trip.start
  BY <1>1, ActionsKeepStarts
<1>3. /\ Final(r).state = r.device.state /\ Final(r).last = r.device.last
      /\ Final(r).since = r.device.since /\ Final(r).trip = TripAfterActions(r)
      /\ Final(r).stop = StopAfterActions(r)
  BY <1>1 DEF Final, DeviceRecords
<1>4. HasStop(Final(r)) => Final(r).stop = r.device.stop
  BY <1>3 DEF HasStop, StopAfterActions, NoStop
<1> QED BY <1>2, <1>3, <1>4

LEMMA NextParked ==
  ASSUME NEW d, Known(d), d.state # "UNKNOWN", NEW p \in Positions, NEW useIgnition,
         NEW avg \in SpeedClasses, NEW adj \in Nat,
         Decided(NextPosition(d, p, useIgnition, avg, adj))
  PROVE  ParkedClosed(Final(NextPosition(d, p, useIgnition, avg, adj)))
<1> DEFINE r == NextPosition(d, p, useIgnition, avg, adj)
           new == DetermineState(d, p, useIgnition)
           u == UpdateState(d, p, new, avg, adj)
           acts == HandleLargeGap(d, p, u, DetermineActions(d.state, u))
<1>1. d \in DeviceRecords /\ new \in MotionStates /\ p.ts \in Nat
  BY StateTyped DEF Known, DeviceRecords, Positions
<1>2. u \in DeviceRecords /\ u.last = p.ts
  BY <1>1, UpdateFacts
<1>3. r.acts = acts /\ r.device = ApplyTransition(d, p, u, acts)
  BY DEF NextPosition
<1> HIDE DEF new, u
<1>4. /\ acts \in SUBSET ActionNames
      /\ "startTrip" \in acts <=> BeginsTrip(d.state, u)
      /\ Closes(acts) <=>
           \/ BeginsTrip(d.state, u) /\ HasTrip(u)
           \/ IdleTooLong(u) \/ ParkedLong(u)
           \/ Overnight(d, p) /\ HasTrip(u)
  BY ActionFacts
<1> HIDE DEF acts
<1>5. /\ r.device.state = u.state /\ r.device.last = u.last /\ r.device.since = u.since
      /\ r.device.trip.start = IF "startTrip" \in acts THEN p.ts ELSE u.trip.start
      /\ r.device.stop = IF "startStop" \in acts THEN StopStarted(d, p) ELSE u.stop
  <2>1. TransitionApplied(d, p, u, acts, ApplyTransition(d, p, u, acts))
    BY <1>1, <1>2, <1>4, ApplyFacts
  <2> QED BY <1>3, <2>1 DEF TransitionApplied
<1>6. /\ Final(r).state = u.state /\ Final(r).last = u.last /\ Final(r).since = u.since
      /\ Final(r).trip.start = IF Closes(acts) /\ "startTrip" \notin acts
                               THEN None ELSE r.device.trip.start
      /\ HasStop(Final(r)) => Final(r).stop = r.device.stop
  BY <1>3, <1>5, FinalFacts
<1> HIDE DEF r
<1> SUFFICES ASSUME u.state \in Stationary, HasTrip(Final(r))
             PROVE  /\ ~(/\ u.state = "STOPPED" /\ HasStop(Final(r))
                         /\ Final(r).last - Final(r).stop.start >= MinStopDuration)
                    /\ ~(u.state = "IDLE" /\ Final(r).last - Final(r).since >= MaxIdleDuration)
  BY <1>6 DEF ParkedClosed, Stationary, r
<1>7. "startTrip" \notin acts /\ ~Closes(acts) /\ HasTrip(u)
  BY <1>4, <1>5, <1>6 DEF BeginsTrip, Resumes, Stationary, HasTrip
<1>8. ~(u.state = "IDLE" /\ Final(r).last - Final(r).since >= MaxIdleDuration)
  BY <1>4, <1>6, <1>7 DEF IdleTooLong
<1>9. ASSUME u.state = "STOPPED", HasStop(Final(r)),
             Final(r).last - Final(r).stop.start >= MinStopDuration
      PROVE  FALSE
  <2>1. CASE "startStop" \in acts
    <3>1. Final(r).stop.start = p.ts
      BY <1>4, <1>5, <1>6, <1>7, <1>9, <2>1 DEF StopStarted, StopStart, SilentStop
    <3>2. Final(r).last - Final(r).stop.start = 0
      BY <1>1, <1>2, <1>6, <3>1
    <3> QED BY <1>9, <3>2
  <2>2. CASE "startStop" \notin acts
    <3>1. Final(r).stop = u.stop
      BY <1>5, <1>6, <1>9, <2>2
    <3> QED BY <1>4, <1>6, <1>7, <1>9, <3>1 DEF ParkedLong, HasStop
  <2> QED BY <2>1, <2>2
<1> QED BY <1>8, <1>9

LEMMA ResultParked ==
  ASSUME NEW d, Known(d), NEW p \in Positions, NEW useIgnition,
         NEW r \in Outcomes(d, p, useIgnition)
  PROVE  ParkedClosed(Final(r))
<1>1. Decided(r)
  BY ResultFacts
<1>2. CASE d.state = "UNKNOWN"
  <2>1. r = FirstPosition(d, p, useIgnition)
    BY <1>2 DEF Outcomes
  <2> DEFINE state == FirstState(p, useIgnition)
  <2>2. /\ r.device.state = state
        /\ state # "MOVING" => r.device.trip.start = None
    BY <2>1 DEF FirstPosition, NoTrip
  <2>3. state # "MOVING" => Final(r).trip.start = None
    BY <1>1, <2>2, FinalFacts
  <2> QED BY <1>1, <2>2, <2>3, FinalFacts DEF ParkedClosed, HasTrip
<1>3. CASE d.state # "UNKNOWN"
  <2>1. PICK avg \in NextAverages(d, p), adj \in AdjustedDistances(d, p) :
          r = NextPosition(d, p, useIgnition, avg, adj)
    BY <1>3 DEF Outcomes
  <2>2. avg \in SpeedClasses /\ adj \in Nat
    BY <2>1 DEF NextAverages, SpeedClasses, AdjustedDistances, Positions
  <2> QED BY <1>1, <1>3, <2>1, <2>2, NextParked
<1> QED BY <1>2, <1>3

-----------------------------------------------------------------------------
(* The invariant of an undisturbed position.                               *)

RecordBefore(r, n) == [r.device EXCEPT !.trip = TripBefore(r, n), !.stop = StopBefore(r, n)]

\* What the position in progress has told so far, and what it has saved so far
\* if nothing disturbed it.
StepsInOrder ==
  /\ work.call \in Resolved =>
       /\ work.res \in Outcomes(work.from, work.pos, work.ign)
       /\ work.told = PublishedBefore(work.res, Place(work.call))
       /\ clean => device = RecordBefore(work.res, Place(work.call))
  /\ work = Rest /\ clean => ParkedClosed(device)

LEMMA AllSaved == \A r : RecordBefore(r, 15) = Final(r)
BY DEF RecordBefore, TripBefore, StopBefore, Final

LEMMA StepsInOrderStep ==
  ASSUME Typed, StepsInOrder, [Next]_vars
  PROVE  StepsInOrder'
<1> Typed'
  BY TypedStep
<1>1. \A name \in {"rest", "read", "save"} : name \notin Resolved
  BY Named DEF Resolved
<1>2. ASSUME NEW p \in Positions, Begin(p) PROVE StepsInOrder'
  <2>1. work'.call = "read" /\ work' # Rest
    BY <1>2 DEF Begin, Rest
  <2> QED BY <1>1, <2>1 DEF StepsInOrder
<1>3. CASE Read \/ ReadFails
  <2>1. work'.call = "save" /\ work' # Rest
    BY <1>3 DEF Read, ReadFails, Deciding, Rest
  <2> QED BY <1>1, <2>1 DEF StepsInOrder
<1>4. CASE Save
  <2>1. /\ Executing(work') /\ work'.call = "actions" /\ work'.told = {}
        /\ work'.res \in Outcomes(work'.from, work'.pos, work'.ign)
        /\ device' = work'.res.device
    BY <1>4, SaveFacts
  <2>2. Place(work'.call) = 3 /\ work' # Rest
    BY <2>1, Places DEF Rest
  <2>3. work'.told = PublishedBefore(work'.res, 3)
    BY <2>1, PublisherFacts DEF PublishedBefore
  <2>4. device' = RecordBefore(work'.res, 3)
    <3>1. RecordBefore(work'.res, 3) = [work'.res.device EXCEPT
                                          !.trip = work'.res.device.trip,
                                          !.stop = work'.res.device.stop]
      BY DEF RecordBefore, TripBefore, StopBefore
    <3> QED BY <2>1, <3>1 DEF Executing, Decided, DeviceRecords
  <2> QED BY <2>1, <2>2, <2>3, <2>4 DEF StepsInOrder
<1>5. ASSUME NEW told, Advance(told), work.call \in Resolved, told = Tells(work.res, work.call),
             clean' = clean,
             IF work.call \in {"clear", "keepTrip", "keepEnd", "keepStart"}
             THEN device' = RecordAt(work.res, work.call)
             ELSE device' = device
      PROVE  StepsInOrder'
  <2>1. /\ Executing(work) /\ Executing(work') /\ work'.from = work.from
        /\ work'.pos = work.pos /\ work'.ign = work.ign
        /\ work'.res = work.res /\ work'.told = work.told \cup told
        /\ Place(work'.call) > Place(work.call)
        /\ \A name \in CallNames :
             Place(work.call) < Place(name) /\ Place(name) < Place(work'.call)
               => ~Asks(work.res, name)
    BY <1>5, ExecutingAdvances
  <2>2. /\ work'.call \in Resolved /\ work.call \in CallNames /\ work'.call \in CallNames
        /\ Decided(work.res) /\ Asks(work.res, work.call) /\ Asks(work.res, work'.call)
        /\ work' # Rest
    BY <1>1, <2>1 DEF Executing, Resolved, Rest
  <2>3. Place(work.call) \in 1..15 /\ Place(work'.call) \in 1..15
    BY <2>2, CallAt
  <2>4. work'.told = PublishedBefore(work.res, Place(work'.call))
    <3>1. PublishedBefore(work.res, Place(work'.call))
            = PublishedBefore(work.res, Place(work.call)) \cup Tells(work.res, work.call)
      BY <2>1, <2>2, <2>3, PublishedAdvances
    <3> QED BY <1>5, <2>1, <3>1 DEF StepsInOrder
  <2>5. IF work.call \in {"clear", "keepTrip", "keepEnd", "keepStart"}
        THEN /\ TripBefore(work.res, Place(work'.call)) = TripAt(work.res, work.call)
             /\ StopBefore(work.res, Place(work'.call)) = StopAt(work.res, work.call)
        ELSE /\ TripBefore(work.res, Place(work'.call))
                  = TripBefore(work.res, Place(work.call))
             /\ StopBefore(work.res, Place(work'.call))
                  = StopBefore(work.res, Place(work.call))
    BY <1>5, <2>1, <2>2, <2>3, SavedAdvances
  <2>6. clean => device' = RecordBefore(work.res, Place(work'.call))
    <3>1. CASE work.call \in {"clear", "keepTrip", "keepEnd", "keepStart"}
      <4>1. device' = [work.res.device EXCEPT !.trip = TripAt(work.res, work.call),
                                              !.stop = StopAt(work.res, work.call)]
        BY <1>5, <2>2, <3>1, RecordFacts DEF Decided
      <4> QED BY <2>5, <3>1, <4>1 DEF RecordBefore
    <3>2. CASE work.call \notin {"clear", "keepTrip", "keepEnd", "keepStart"}
      BY <1>5, <2>5, <3>2 DEF StepsInOrder, RecordBefore
    <3> QED BY <3>1, <3>2
  <2> QED BY <1>5, <2>1, <2>2, <2>4, <2>6 DEF StepsInOrder
<1>6. \A name \in CallNames \ {"read", "save"} : name \in Resolved
  BY DEF Resolved
<1>7. work.call \in Resolved => Asks(work.res, work.call)
  BY FormFacts DEF Typed, Executing
<1>8. CASE Pass
  BY <1>5, <1>6, <1>8, TellsFacts, Named DEF Pass
<1>9. CASE Settle
  BY <1>5, <1>6, <1>7, <1>9, TellsFacts, Named DEF Settle
<1>10. CASE Announce
  BY <1>5, <1>6, <1>7, <1>10, TellsFacts, Named DEF Announce
<1>11. CASE PublishStop
  <2>1. /\ work.call \in {"endStop", "startStop", "gapStop"} /\ Advance({work.call})
        /\ UNCHANGED <<device, clean>>
    BY <1>11 DEF PublishStop
  <2>2. work.call \in Resolved
    BY <1>6, <2>1, Named
  <2>3. Tells(work.res, work.call) = {work.call}
    BY <1>7, <2>1, <2>2, TellsFacts
  <2> QED BY <1>5, <2>1, <2>2, <2>3
<1>12. CASE SaveAgain
  <2>1. /\ work.call \in {"clear", "keepTrip", "keepEnd", "keepStart"} /\ Advance({})
        /\ device' = RecordAt(work.res, work.call) /\ clean' = clean
    BY <1>12 DEF SaveAgain
  <2>2. work.call \in Resolved
    BY <1>6, <2>1, Named
  <2>3. Tells(work.res, work.call) = {}
    BY <2>1, TellsFacts
  <2> QED BY <1>5, <2>1, <2>2, <2>3
<1>13. CASE Finish
  <2>1. /\ work.call = "done" /\ work.call \in Resolved /\ Place(work.call) = 15
        /\ work'.call = "rest" /\ UNCHANGED <<device, clean>>
    BY <1>6, <1>13, Named, Places DEF Finish, Rest
  <2>2. Executing(work)
    BY <2>1, FormFacts DEF Typed
  <2>3. clean => device = Final(work.res)
    BY <2>1, AllSaved DEF StepsInOrder
  <2>4. ParkedClosed(Final(work.res))
    BY <2>1, <2>2, ResultParked DEF StepsInOrder, Executing
  <2>5. clean' => ParkedClosed(device')
    BY <2>1, <2>3, <2>4
  <2> QED BY <1>1, <2>1, <2>5 DEF StepsInOrder, ParkedClosed, HasTrip, HasStop
<1>14. CASE Drop \/ Crash
  <2>1. work'.call = "rest" /\ ~clean'
    BY <1>14 DEF Drop, Crash, Upset, Rest
  <2> QED BY <1>1, <2>1 DEF StepsInOrder
<1>15. CASE SweepRead \/ SweepWrite
  <2>1. work' = work /\ ~clean'
    BY <1>15 DEF SweepRead, SweepWrite, Upset
  <2> QED BY <2>1 DEF StepsInOrder
<1>16. CASE UNCHANGED vars
  BY <1>16 DEF vars, StepsInOrder, ParkedClosed, HasTrip, HasStop
<1> QED
  BY <1>2, <1>3, <1>4, <1>8, <1>9, <1>10, <1>11, <1>12, <1>13, <1>14, <1>15, <1>16 DEF Next

LEMMA StepsInOrderAlways == Spec => [](Typed /\ StepsInOrder)
<1>1. Init => StepsInOrder
  <2>1. \A name \in {"rest", "read", "save"} : name \notin Resolved
    BY Named DEF Resolved
  <2> QED BY <2>1, UnseenFacts DEF Init, Rest, StepsInOrder, ParkedClosed
<1>2. Typed /\ StepsInOrder /\ [Next]_vars => (Typed /\ StepsInOrder)'
  BY TypedStep, StepsInOrderStep
<1> QED BY <1>1, <1>2, TypedInitially, PTL DEF Spec

\* One position that nothing disturbs does in many calls what ProcessPosition of
\* module TripDetection does in one step.
THEOREM UndisturbedPositionsAreAtomic == Spec => []CleanPositionsAreAtomic
<1>1. Typed /\ StepsInOrder => CleanPositionsAreAtomic
  <2> SUFFICES ASSUME StepsInOrder, work.call = "done", clean
               PROVE  /\ work.res \in Outcomes(work.from, work.pos, work.ign)
                      /\ device = Final(work.res) /\ work.told = Published(work.res)
    BY DEF CleanPositionsAreAtomic, Final, Published
  <2>1. work.call \in Resolved /\ Place(work.call) = 15
    BY Named, Places DEF Resolved
  <2>2. device = Final(work.res)
    BY <2>1, AllSaved DEF StepsInOrder
  <2>3. work.told = Published(work.res)
    BY <2>1, PublisherFacts DEF StepsInOrder, PublishedBefore
  <2> QED BY <2>1, <2>2, <2>3 DEF StepsInOrder
<1> QED BY <1>1, StepsInOrderAlways, PTL

\* Whatever went wrong before, the next undisturbed position of a parked or
\* idling device closes its trip.
THEOREM ParkedTripsAreClosedAgain == Spec => []ParkedTripIsClosedAgain
<1>1. Typed /\ StepsInOrder => ParkedTripIsClosedAgain
  BY DEF StepsInOrder, ParkedClosed, ParkedTripIsClosedAgain
<1> QED BY <1>1, StepsInOrderAlways, PTL

=============================================================================
