------------------------- MODULE Persistence_proofs -------------------------
(***************************************************************************)
(* A trip or stop that was closed or deleted never becomes active again,   *)
(* for any number of intervals and any bound on the events on their way.   *)
(*                                                                         *)
(* The danger is the row that was deleted: a trip:started handled later    *)
(* finds no row and would create it again.  The invariant says that a      *)
(* start never comes after the discard of the same trip, in the motion     *)
(* state, on the connection or in the handler.                             *)
(***************************************************************************)
EXTENDS Persistence, TLAPS

Started(i) == [kind |-> "started", id |-> i]
Working(step, i) == [step |-> step, id |-> i]

NoStartPending(i) ==
  \A c \in Connections : \A k \in 1..Len(inbox[c]) : inbox[c][k] # Started(i)

\* The start of the interval is behind it for good.
BeyondStart(i) == phase[i] \notin {"future", "open"} /\ NoStartPending(i)

DeletedIsBeyondStart ==
  \A i \in Intervals : i \in over /\ rows[i] = NoRow => BeyondStart(i)

HandlerIsInTime ==
  \A i \in Intervals :
    /\ handler = Working("delete", i) => BeyondStart(i)
    /\ handler = Working("create", i) => i \notin over /\ ~rows[i].active

EventsAreInOrder ==
  \A c \in Connections : \A j \in 1..Len(inbox[c]) :
    /\ Connection(inbox[c][j].id) = c
    /\ inbox[c][j].kind = "discarded" =>
         /\ phase[inbox[c][j].id] \notin {"future", "open"}
         /\ \A k \in 1..Len(inbox[c]) : j < k => inbox[c][k] # Started(inbox[c][j].id)

IInv ==
  /\ TypeOK
  /\ FinishedStaysFinished
  /\ DeletedIsBeyondStart
  /\ HandlerIsInTime
  /\ EventsAreInOrder

-----------------------------------------------------------------------------
(* What the pieces do.                                                     *)

\* Where a row is told apart from the others.
LEMMA RowFacts ==
  /\ NoRow \in Rows /\ NewRow \in Rows /\ OldRow \in Rows
  /\ Closed("natural") \in Rows /\ Closed("timeout") \in Rows
  /\ ~NoRow.active /\ NewRow.active /\ OldRow.active /\ NewRow # NoRow /\ OldRow # NoRow
  /\ ~Closed("natural").active /\ ~Closed("timeout").active
  /\ Closed("natural") # NoRow /\ Closed("timeout") # NoRow
BY DEF Rows, NoRow, NewRow, OldRow, Closed

\* Saving a row changes nothing else and remembers that it is over.
LEMMA SaveFacts ==
  ASSUME TypeOK, NEW i \in Intervals, NEW row \in Rows, Save(i, row)
  PROVE  /\ rows' \in [Intervals -> Rows]
         /\ over' \subseteq Intervals
         /\ rows'[i] = row
         /\ \A j \in Intervals : j # i => rows'[j] = rows[j]
         /\ over \subseteq over' /\ over' \subseteq over \cup {i}
         /\ i \in over' /\ i \notin over => rows[i].active /\ ~row.active
         /\ rows[i].active /\ ~row.active => i \in over'
BY DEF Save, TypeOK

\* An event that is published is the last of its connection.
LEMMA PublishFacts ==
  ASSUME TypeOK, NEW i \in Intervals,
         NEW kind \in {"started", "completed", "discarded"}, Publish(kind, i)
  PROVE  /\ inbox' \in [Connections -> Seq(Events)]
         /\ \A c \in Connections :
              \/ inbox'[c] = inbox[c]
              \/ /\ c = Connection(i)
                 /\ Len(inbox'[c]) = Len(inbox[c]) + 1
                 /\ \A k \in 1..Len(inbox[c]) : inbox'[c][k] = inbox[c][k]
                 /\ inbox'[c][Len(inbox[c]) + 1] = [kind |-> kind, id |-> i]
<1> DEFINE event == [kind |-> kind, id |-> i]
<1>1. event \in Events
  BY DEF Events
<1>2. Connection(i) \in Connections
  BY DEF Connection, Connections
<1>3. CASE inbox' = [inbox EXCEPT ![Connection(i)] = Append(@, event)]
  <2>1. inbox[Connection(i)] \in Seq(Events)
    BY <1>2 DEF TypeOK
  <2>2. Append(inbox[Connection(i)], event) \in Seq(Events)
    BY <2>1, <1>1
  <2>3. inbox' \in [Connections -> Seq(Events)]
    BY <1>3, <2>2, <1>2 DEF TypeOK
  <2>4. ASSUME NEW c \in Connections, c = Connection(i)
        PROVE  /\ Len(inbox'[c]) = Len(inbox[c]) + 1
               /\ \A k \in 1..Len(inbox[c]) : inbox'[c][k] = inbox[c][k]
               /\ inbox'[c][Len(inbox[c]) + 1] = event
    BY <1>3, <2>1, <2>4, <1>1 DEF TypeOK
  <2>5. ASSUME NEW c \in Connections, c # Connection(i) PROVE inbox'[c] = inbox[c]
    BY <1>3, <2>5 DEF TypeOK
  <2> QED
    BY <2>3, <2>4, <2>5
<1>4. CASE UNCHANGED inbox
  BY <1>4 DEF TypeOK
<1> QED
  BY <1>3, <1>4 DEF Publish

\* Taking the oldest event of a connection shifts the others.
LEMMA LookUpFacts ==
  ASSUME TypeOK, NEW c \in Connections, LookUp(c)
  PROVE  /\ inbox' \in [Connections -> Seq(Events)]
         /\ Len(inbox[c]) >= 1
         /\ Len(inbox'[c]) = Len(inbox[c]) - 1
         /\ \A k \in 1..Len(inbox'[c]) : inbox'[c][k] = inbox[c][k + 1]
         /\ \A b \in Connections : b # c => inbox'[b] = inbox[b]
         /\ inbox[c][1] \in Events
         /\ \/ handler' = Free
            \/ /\ StepFor(inbox[c][1]) # "free"
               /\ handler' = Working(StepFor(inbox[c][1]), inbox[c][1].id)
<1>1. inbox[c] \in Seq(Events) /\ inbox[c] # << >>
  BY DEF TypeOK, LookUp
<1>2. Tail(inbox[c]) \in Seq(Events) /\ inbox' = [inbox EXCEPT ![c] = Tail(inbox[c])]
  BY <1>1 DEF LookUp
<1>3. inbox' \in [Connections -> Seq(Events)] /\ inbox'[c] = Tail(inbox[c])
      /\ \A b \in Connections : b # c => inbox'[b] = inbox[b]
  BY <1>2 DEF TypeOK
<1>4. Len(inbox[c]) >= 1 /\ Head(inbox[c]) = inbox[c][1] /\ inbox[c][1] \in Events
  BY <1>1
<1>5. /\ Len(inbox'[c]) = Len(inbox[c]) - 1
      /\ \A k \in 1..Len(inbox'[c]) : inbox'[c][k] = inbox[c][k + 1]
  BY <1>1, <1>3, <1>4
<1>6. \/ handler' = Free
      \/ /\ StepFor(inbox[c][1]) # "free"
         /\ handler' = Working(StepFor(inbox[c][1]), inbox[c][1].id)
  BY <1>4 DEF LookUp, Working
<1> QED
  BY <1>3, <1>4, <1>5, <1>6

\* What a handler does after looking for the row.
LEMMA StepFacts ==
  ASSUME NEW e \in Events, StepFor(e) # "free"
  PROVE  \/ e = Started(e.id) /\ StepFor(e) = "create" /\ rows[e.id] = NoRow
         \/ StepFor(e) = "update"
         \/ e.kind = "discarded" /\ StepFor(e) = "delete"
BY DEF Events, StepFor, Started

-----------------------------------------------------------------------------
(* Types.                                                                  *)

LEMMA InitialTypes == Init => TypeOK
<1> SUFFICES ASSUME Init PROVE TypeOK
  OBVIOUS
<1>1. inbox \in [Connections -> Seq(Events)]
  <2>1. << >> \in Seq(Events)
    OBVIOUS
  <2> QED
    BY <2>1 DEF Init
<1>2. phase \in [Intervals -> Phases] /\ rows \in [Intervals -> Rows]
  BY DEF Init, Phases, Rows
<1>3. handler \in Handlers /\ sweep \in Sweeps /\ over \subseteq Intervals
  BY DEF Init, Handlers, Sweeps, Asleep
<1> QED
  BY <1>1, <1>2, <1>3 DEF TypeOK

LEMMA TypeStep == TypeOK /\ [Next]_vars => TypeOK'
<1> SUFFICES ASSUME TypeOK, [Next]_vars PROVE TypeOK'
  OBVIOUS
<1> USE DEF TypeOK
<1>1. ASSUME NEW i \in Intervals, Device(i) PROVE TypeOK'
  <2>1. CASE Begin(i) \/ Forget(i)
    BY <2>1 DEF Begin, Forget, Phases
  <2>2. CASE Announce(i)
    <3>1. Publish("started", i) /\ UNCHANGED <<handler, rows, sweep, over>>
      BY <2>2 DEF Announce
    <3>2. inbox' \in [Connections -> Seq(Events)]
      BY <3>1, PublishFacts
    <3>3. phase' \in [Intervals -> Phases]
      BY <2>2 DEF Announce, SetPhase, Phases
    <3> QED
      BY <3>1, <3>2, <3>3
  <2>3. CASE Complete(i)
    <3>1. Publish("completed", i) /\ UNCHANGED <<handler, rows, sweep, over>>
      BY <2>3 DEF Complete
    <3>2. inbox' \in [Connections -> Seq(Events)]
      BY <3>1, PublishFacts
    <3>3. phase' \in [Intervals -> Phases]
      BY <2>3 DEF Complete, SetPhase, Phases
    <3> QED
      BY <3>1, <3>2, <3>3
  <2>4. CASE Discard(i)
    <3>1. Publish("discarded", i) /\ UNCHANGED <<handler, rows, sweep, over>>
      BY <2>4 DEF Discard
    <3>2. inbox' \in [Connections -> Seq(Events)]
      BY <3>1, PublishFacts
    <3>3. phase' \in [Intervals -> Phases]
      BY <2>4 DEF Discard, SetPhase, Phases
    <3> QED
      BY <3>1, <3>2, <3>3
  <2>5. CASE Touch(i)
    BY <2>5, RowFacts DEF Touch
  <2> QED
    BY <1>1, <2>1, <2>2, <2>3, <2>4, <2>5 DEF Device
<1>2. ASSUME NEW i \in Intervals, Age(i) PROVE TypeOK'
  BY <1>2, RowFacts DEF Age
<1>3. ASSUME NEW i \in Intervals, Cleanup(i) PROVE TypeOK'
  <2>1. CASE LoadOrphan(i)
    BY <2>1 DEF LoadOrphan, Sweeps
  <2>2. CASE CloseOrphan(i)
    BY <2>2, RowFacts, SaveFacts DEF CloseOrphan, Sweeps
  <2>3. CASE CloseFails(i)
    BY <2>3 DEF CloseFails, Sweeps
  <2> QED
    BY <1>3, <2>1, <2>2, <2>3 DEF Cleanup
<1>4. ASSUME NEW c \in Connections, LookUp(c) PROVE TypeOK'
  <2>1. handler' \in Handlers
    <3>1. CASE handler' = Free
      BY <3>1 DEF Handlers
    <3>2. CASE /\ StepFor(inbox[c][1]) # "free"
               /\ handler' = Working(StepFor(inbox[c][1]), inbox[c][1].id)
      <4>1. inbox[c][1] \in Events
        BY <1>4, LookUpFacts
      <4>2. inbox[c][1].id \in Intervals /\ StepFor(inbox[c][1]) \in {"create", "update", "delete"}
        BY <4>1, <3>2, StepFacts DEF Events
      <4> QED
        BY <3>2, <4>2 DEF Handlers, Working
    <3> QED
      BY <3>1, <3>2, <1>4, LookUpFacts
  <2> QED
    BY <1>4, <2>1, LookUpFacts DEF LookUp
<1>5. ASSUME NEW c \in Connections, FindOrphans(c) PROVE TypeOK'
  BY <1>5 DEF FindOrphans, Asleep, Sweeps, Orphans, Members, Intervals
<1>6. CASE Write
  <2>1. PICK i \in Intervals, step \in {"create", "update", "delete"} :
          handler = [step |-> step, id |-> i]
    BY <1>6 DEF Write, Handlers
  <2>2. RowFor(step) \in Rows
    BY <2>1, RowFacts DEF RowFor
  <2>3. rows' \in [Intervals -> Rows] /\ over' \subseteq Intervals
    <3>1. CASE Save(i, RowFor(step))
      BY <3>1, <2>2, SaveFacts
    <3>2. CASE UNCHANGED <<rows, over>>
      BY <3>2
    <3> QED
      BY <3>1, <3>2, <2>1, <1>6 DEF Write
  <2>4. handler' \in Handlers
    BY <1>6 DEF Write, Handlers
  <2> QED
    BY <1>6, <2>3, <2>4 DEF Write
<1>7. CASE EndCleanup
  BY <1>7 DEF EndCleanup, Asleep, Sweeps
<1>8. CASE Restart
  <2>1. << >> \in Seq(Events)
    OBVIOUS
  <2> QED
    BY <1>8, <2>1 DEF Restart, Asleep, Sweeps, Handlers
<1>9. CASE UNCHANGED vars
  BY <1>9 DEF vars
<1> QED
  BY <1>1, <1>2, <1>3, <1>4, <1>5, <1>6, <1>7, <1>8, <1>9 DEF Next

-----------------------------------------------------------------------------
(* Starts come first.                                                      *)

\* While connections, motion states and the handler are as they were, rows may
\* be saved: what is over stays over.
LEMMA RowsKeepOrder ==
  ASSUME IInv, TypeOK', UNCHANGED <<phase, inbox>>
  PROVE  EventsAreInOrder' /\ \A i \in Intervals : BeyondStart(i) => BeyondStart(i)'
BY DEF IInv, EventsAreInOrder, BeyondStart, NoStartPending

\* A step of the device, or one that publishes nothing and shows the device
\* nothing new, keeps the order when starts are published only by open intervals.
LEMMA PublishKeepsOrder ==
  ASSUME IInv, TypeOK', NEW i \in Intervals,
         NEW kind \in {"started", "completed", "discarded"}, Publish(kind, i),
         UNCHANGED <<handler, rows, over>>,
         \A j \in Intervals : j # i => phase'[j] = phase[j],
         phase'[i] \in {"future", "open"} => phase[i] \in {"future", "open"},
         kind = "started" => phase[i] \in {"future", "open"},
         kind = "discarded" => phase'[i] \notin {"future", "open"}
  PROVE  IInv'
<1> USE DEF IInv
<1>1. /\ \A c \in Connections :
           \/ inbox'[c] = inbox[c]
           \/ /\ c = Connection(i)
              /\ Len(inbox'[c]) = Len(inbox[c]) + 1
              /\ \A k \in 1..Len(inbox[c]) : inbox'[c][k] = inbox[c][k]
              /\ inbox'[c][Len(inbox[c]) + 1] = [kind |-> kind, id |-> i]
  BY PublishFacts
<1>2. \A c \in Connections : Len(inbox[c]) \in Nat
  BY DEF TypeOK
<1>3. \A c \in Connections : \A k \in 1..Len(inbox'[c]) :
        \/ k \in 1..Len(inbox[c]) /\ inbox'[c][k] = inbox[c][k]
        \/ /\ c = Connection(i) /\ k = Len(inbox[c]) + 1
           /\ inbox'[c][k] = [kind |-> kind, id |-> i]
  BY <1>1, <1>2
<1>4. ASSUME NEW j \in Intervals, BeyondStart(j) PROVE BeyondStart(j)'
  <2>1. phase'[j] \notin {"future", "open"}
    BY <1>4 DEF BeyondStart
  <2>2. [kind |-> kind, id |-> i] # Started(j)
    BY <1>4 DEF BeyondStart, Started
  <2>3. NoStartPending(j)'
    BY <1>4, <1>3, <2>2 DEF BeyondStart, NoStartPending, Started
  <2> QED
    BY <2>1, <2>3 DEF BeyondStart
<1>5. DeletedIsBeyondStart' /\ HandlerIsInTime' /\ FinishedStaysFinished'
  BY <1>4 DEF DeletedIsBeyondStart, HandlerIsInTime, FinishedStaysFinished
<1>6. EventsAreInOrder'
  <2> SUFFICES ASSUME NEW c \in Connections, NEW j \in 1..Len(inbox'[c])
               PROVE  /\ Connection(inbox'[c][j].id) = c
                      /\ inbox'[c][j].kind = "discarded" =>
                           /\ phase'[inbox'[c][j].id] \notin {"future", "open"}
                           /\ \A k \in 1..Len(inbox'[c]) :
                                j < k => inbox'[c][k] # Started(inbox'[c][j].id)
    BY DEF EventsAreInOrder, Connections, Connection, Started
  <2>1. CASE j \in 1..Len(inbox[c]) /\ inbox'[c][j] = inbox[c][j]
    <3> DEFINE e == inbox[c][j]
    <3>1. e \in Events /\ e.id \in Intervals
      <4>1. inbox[c] \in Seq(Events)
        BY DEF TypeOK
      <4>2. e \in Events
        BY <4>1, <2>1
      <4> QED
        BY <4>2 DEF Events
    <3>2. Connection(e.id) = c
      BY <2>1 DEF EventsAreInOrder
    <3>3. ASSUME e.kind = "discarded"
          PROVE  phase[e.id] \notin {"future", "open"}
                 /\ \A k \in 1..Len(inbox[c]) : j < k => inbox[c][k] # Started(e.id)
      BY <2>1, <3>3 DEF EventsAreInOrder
    <3>4. ASSUME e.kind = "discarded" PROVE phase'[e.id] \notin {"future", "open"}
      BY <3>1, <3>3, <3>4
    <3>5. ASSUME e.kind = "discarded", NEW k \in 1..Len(inbox'[c]), j < k
          PROVE  inbox'[c][k] # Started(e.id)
      <4>1. CASE k \in 1..Len(inbox[c]) /\ inbox'[c][k] = inbox[c][k]
        BY <4>1, <3>3, <3>5
      <4>2. CASE inbox'[c][k] = [kind |-> kind, id |-> i]
        BY <4>2, <3>3, <3>5 DEF Started
      <4> QED
        BY <4>1, <4>2, <1>3
    <3> QED
      BY <2>1, <3>2, <3>4, <3>5
  <2>2. CASE c = Connection(i) /\ j = Len(inbox[c]) + 1 /\ inbox'[c][j] = [kind |-> kind, id |-> i]
    <3>1. inbox'[c][j].id = i /\ inbox'[c][j].kind = kind
      BY <2>2
    <3>2. \A k \in 1..Len(inbox'[c]) : ~(j < k)
      BY <2>2, <1>2, <1>3
    <3> QED
      BY <2>2, <3>1, <3>2
  <2> QED
    BY <2>1, <2>2, <1>3
<1> QED
  BY <1>5, <1>6

\* Taking an event: what a handler is about to do was announced in time.
LEMMA LookUpKeepsOrder ==
  ASSUME IInv, TypeOK', NEW c \in Connections, LookUp(c)
  PROVE  IInv'
<1> USE DEF IInv
<1> DEFINE e == inbox[c][1]
<1>1. /\ Len(inbox[c]) >= 1 /\ e \in Events
      /\ Len(inbox'[c]) = Len(inbox[c]) - 1
      /\ \A k \in 1..Len(inbox'[c]) : inbox'[c][k] = inbox[c][k + 1]
      /\ \A b \in Connections : b # c => inbox'[b] = inbox[b]
      /\ \/ handler' = Free
         \/ StepFor(e) # "free" /\ handler' = Working(StepFor(e), e.id)
  BY LookUpFacts
<1>2. UNCHANGED <<phase, rows, over>> /\ Len(inbox[c]) \in Nat
  BY DEF LookUp, TypeOK
<1>3. \A b \in Connections : \A k \in 1..Len(inbox'[b]) :
        \/ b # c /\ k \in 1..Len(inbox[b]) /\ inbox'[b][k] = inbox[b][k]
        \/ b = c /\ k + 1 \in 1..Len(inbox[b]) /\ inbox'[b][k] = inbox[b][k + 1]
  BY <1>1, <1>2
<1>4. ASSUME NEW j \in Intervals, BeyondStart(j) PROVE BeyondStart(j)'
  BY <1>4, <1>2, <1>3 DEF BeyondStart, NoStartPending, Started
<1>5. DeletedIsBeyondStart' /\ FinishedStaysFinished'
  BY <1>4, <1>2 DEF DeletedIsBeyondStart, FinishedStaysFinished
<1>6. EventsAreInOrder'
  <2> SUFFICES ASSUME NEW b \in Connections, NEW j \in 1..Len(inbox'[b])
               PROVE  /\ Connection(inbox'[b][j].id) = b
                      /\ inbox'[b][j].kind = "discarded" =>
                           /\ phase'[inbox'[b][j].id] \notin {"future", "open"}
                           /\ \A k \in 1..Len(inbox'[b]) :
                                j < k => inbox'[b][k] # Started(inbox'[b][j].id)
    BY DEF EventsAreInOrder, Connections, Connection, Started
  <2>1. CASE b # c
    BY <2>1, <1>1, <1>2 DEF EventsAreInOrder
  <2>2. CASE b = c
    <3>1. j + 1 \in 1..Len(inbox[c]) /\ inbox'[b][j] = inbox[c][j + 1]
      BY <2>2, <1>3
    <3>2. \A k \in 1..Len(inbox'[b]) : j < k =>
            k + 1 \in 1..Len(inbox[c]) /\ j + 1 < k + 1 /\ inbox'[b][k] = inbox[c][k + 1]
      BY <2>2, <1>3
    <3> QED
      BY <2>2, <3>1, <3>2, <1>2 DEF EventsAreInOrder
  <2> QED
    BY <2>1, <2>2
<1>7. HandlerIsInTime'
  <2>1. e.id \in Intervals /\ 1 \in 1..Len(inbox[c])
    BY <1>1, <1>2 DEF Events
  <2>2. CASE handler' = Free
    BY <2>2 DEF HandlerIsInTime, Free, Working
  <2>3. CASE StepFor(e) # "free" /\ handler' = Working(StepFor(e), e.id)
    <3>1. CASE e = Started(e.id) /\ StepFor(e) = "create" /\ rows[e.id] = NoRow
      <4>1. ~BeyondStart(e.id)
        BY <3>1, <2>1 DEF BeyondStart, NoStartPending
      <4>2. e.id \notin over /\ ~rows[e.id].active
        BY <4>1, <3>1, <2>1, RowFacts DEF DeletedIsBeyondStart
      <4> QED
        BY <4>2, <2>3, <3>1, <1>2 DEF HandlerIsInTime, Working
    <3>2. CASE StepFor(e) = "update"
      BY <3>2, <2>3 DEF HandlerIsInTime, Working
    <3>3. CASE e.kind = "discarded" /\ StepFor(e) = "delete"
      <4>1. PICK i \in Intervals : i = e.id
        BY <2>1
      <4>2. /\ Connection(i) = c
            /\ phase[i] \notin {"future", "open"}
            /\ \A k \in 1..Len(inbox[c]) : 1 < k => inbox[c][k] # Started(i)
        BY <3>3, <2>1, <4>1 DEF EventsAreInOrder
      <4>3. ASSUME NEW b \in Connections, NEW k \in 1..Len(inbox'[b])
            PROVE  inbox'[b][k] # Started(i)
        <5>1. CASE b = c
          BY <5>1, <4>2, <1>3
        <5>2. CASE b # c
          <6>1. Connection(inbox[b][k].id) = b
            BY <5>2, <1>3 DEF EventsAreInOrder
          <6> QED
            BY <6>1, <5>2, <4>2, <1>3 DEF Started
        <5> QED
          BY <5>1, <5>2
      <4>4. BeyondStart(i)'
        BY <4>2, <4>3, <1>2 DEF BeyondStart, NoStartPending, Started
      <4>5. handler' = Working("delete", i)
        BY <2>3, <3>3, <4>1
      <4> QED
        BY <4>4, <4>5 DEF HandlerIsInTime, Working
    <3> QED
      BY <3>1, <3>2, <3>3, <2>3, <1>1, StepFacts
  <2> QED
    BY <2>2, <2>3, <1>1
<1> QED
  BY <1>5, <1>6, <1>7

\* The end of a handler: a created row is the first of its interval, a deleted
\* one has its start behind it.
LEMMA WriteKeepsOrder ==
  ASSUME IInv, TypeOK', Write
  PROVE  IInv'
<1> USE DEF IInv
<1>0. over \subseteq Intervals /\ over' \subseteq Intervals
  BY DEF TypeOK
<1>1. UNCHANGED <<phase, inbox>> /\ handler' = Free
  BY DEF Write
<1>2. EventsAreInOrder' /\ \A i \in Intervals : BeyondStart(i) => BeyondStart(i)'
  BY <1>1, RowsKeepOrder
<1>3. HandlerIsInTime'
  BY <1>1 DEF HandlerIsInTime, Free, Working
<1>4. PICK i \in Intervals, step \in {"create", "update", "delete"} :
        handler = Working(step, i)
  BY DEF Write, Handlers, TypeOK, Working
<1>5. CASE UNCHANGED <<rows, over>>
  BY <1>0, <1>2, <1>3, <1>5 DEF FinishedStaysFinished, DeletedIsBeyondStart
<1>6. CASE Save(i, RowFor(step))
  <2>1. RowFor(step) \in Rows
    BY <1>4, RowFacts DEF RowFor
  <2>2. /\ rows'[i] = RowFor(step)
        /\ \A j \in Intervals : j # i => rows'[j] = rows[j]
        /\ over \subseteq over' /\ over' \subseteq over \cup {i}
        /\ i \in over' /\ i \notin over => rows[i].active /\ ~RowFor(step).active
    BY <1>6, <2>1, SaveFacts
  <2>3. CASE step = "create"
    <3>1. i \notin over /\ RowFor(step) = NewRow
      BY <2>3, <1>4 DEF HandlerIsInTime, RowFor
    <3>2. i \notin over'
      BY <3>1, <2>2, RowFacts
    <3> QED
      BY <3>1, <3>2, <2>2, <1>0, <1>2, <1>3, RowFacts DEF FinishedStaysFinished, DeletedIsBeyondStart
  <2>4. CASE step = "update"
    <3>1. RowFor(step) = Closed("natural")
      BY <2>4 DEF RowFor
    <3> QED
      BY <3>1, <2>2, <1>0, <1>2, <1>3, RowFacts DEF FinishedStaysFinished, DeletedIsBeyondStart
  <2>5. CASE step = "delete"
    <3>1. RowFor(step) = NoRow /\ BeyondStart(i)
      BY <2>5, <1>4 DEF HandlerIsInTime, RowFor
    <3> QED
      BY <3>1, <2>2, <1>0, <1>2, <1>3, RowFacts DEF FinishedStaysFinished, DeletedIsBeyondStart
  <2> QED
    BY <2>3, <2>4, <2>5
<1> QED
  BY <1>4, <1>5, <1>6 DEF Write, Working

\* Rows change without a handler: they are refreshed, age, or are closed.
LEMMA RowStepKeepsOrder ==
  ASSUME IInv, TypeOK', NEW i \in Intervals, Touch(i) \/ Age(i) \/ CloseOrphan(i)
  PROVE  IInv'
<1> USE DEF IInv
<1>0. over \subseteq Intervals /\ over' \subseteq Intervals
  BY DEF TypeOK
<1>1. UNCHANGED <<phase, inbox, handler>>
  BY DEF Touch, Age, CloseOrphan
<1>2. EventsAreInOrder' /\ \A j \in Intervals : BeyondStart(j) => BeyondStart(j)'
  BY <1>1, RowsKeepOrder
<1>3. CASE Touch(i) \/ Age(i)
  <2>1. /\ rows[i].active /\ rows'[i].active /\ rows'[i] # NoRow
        /\ \A j \in Intervals : j # i => rows'[j] = rows[j]
        /\ over' = over
    BY <1>3, RowFacts DEF Touch, Age, TypeOK
  <2> QED
    BY <1>0, <2>1, <1>1, <1>2 DEF FinishedStaysFinished, DeletedIsBeyondStart, HandlerIsInTime
<1>4. CASE CloseOrphan(i)
  <2>1. /\ rows'[i] = Closed("timeout")
        /\ \A j \in Intervals : j # i => rows'[j] = rows[j]
        /\ over \subseteq over' /\ over' \subseteq over \cup {i}
        /\ i \in over' /\ i \notin over => rows[i].active
    BY <1>4, RowFacts, SaveFacts DEF CloseOrphan
  <2>2. FinishedStaysFinished' /\ DeletedIsBeyondStart'
    BY <1>0, <2>1, <1>2, RowFacts DEF FinishedStaysFinished, DeletedIsBeyondStart
  <2>3. HandlerIsInTime'
    BY <2>1, <1>1, <1>2, RowFacts DEF HandlerIsInTime
  <2> QED
    BY <2>2, <2>3, <1>2
<1> QED
  BY <1>3, <1>4

LEMMA InitialInvariant == Init => IInv
<1> SUFFICES ASSUME Init PROVE IInv
  OBVIOUS
<1>1. TypeOK
  BY InitialTypes
<1>2. over = {} /\ handler = Free /\ \A c \in Connections : Len(inbox[c]) = 0
  BY DEF Init
<1> QED
  BY <1>1, <1>2 DEF IInv, FinishedStaysFinished, DeletedIsBeyondStart, HandlerIsInTime,
     EventsAreInOrder, Free, Working

LEMMA InductiveInvariant == IInv /\ [Next]_vars => IInv'
<1> SUFFICES ASSUME IInv, [Next]_vars PROVE IInv'
  OBVIOUS
<1> USE DEF IInv
<1>1. TypeOK'
  BY TypeStep
<1>2. ASSUME UNCHANGED <<inbox, handler, rows, over>>,
             \A j \in Intervals :
               phase'[j] \in {"future", "open"} => phase[j] \in {"future", "open"}
      PROVE  IInv'
  <2>1. \A j \in Intervals : BeyondStart(j) => BeyondStart(j)'
    BY <1>2 DEF BeyondStart, NoStartPending
  <2>2. \A c \in Connections : \A k \in 1..Len(inbox[c]) : inbox[c][k].id \in Intervals
    <3> SUFFICES ASSUME NEW c \in Connections, NEW k \in 1..Len(inbox[c])
                 PROVE  inbox[c][k].id \in Intervals
      OBVIOUS
    <3>1. inbox[c] \in Seq(Events)
      BY DEF TypeOK
    <3>2. inbox[c][k] \in Events
      BY <3>1
    <3> QED
      BY <3>2 DEF Events
  <2>3. EventsAreInOrder'
    BY <1>2, <2>2 DEF EventsAreInOrder
  <2> QED
    BY <1>1, <1>2, <2>1, <2>3
       DEF FinishedStaysFinished, DeletedIsBeyondStart, HandlerIsInTime
<1>3. ASSUME NEW i \in Intervals, Device(i) PROVE IInv'
  <2>1. CASE Begin(i) \/ Forget(i)
    BY <2>1, <1>2 DEF Begin, Forget, TypeOK
  <2>2. CASE Announce(i)
    <3>1. /\ phase[i] = "open" /\ Publish("started", i)
          /\ \A j \in Intervals : j # i => phase'[j] = phase[j]
      BY <2>2 DEF Announce, SetPhase, TypeOK
    <3> QED
      BY <3>1, <2>2, <1>1, PublishKeepsOrder DEF Announce
  <2>3. CASE Complete(i)
    <3>1. /\ Publish("completed", i)
          /\ \A j \in Intervals : j # i => phase'[j] = phase[j]
          /\ phase'[i] \in {"settled", phase[i]}
      BY <2>3 DEF Complete, SetPhase, TypeOK
    <3> QED
      BY <3>1, <2>3, <1>1, PublishKeepsOrder DEF Complete
  <2>4. CASE Discard(i)
    <3>1. /\ phase[i] = "announced" /\ Publish("discarded", i)
          /\ \A j \in Intervals : j # i => phase'[j] = phase[j]
          /\ phase'[i] \in {"settled", "announced"}
      BY <2>4 DEF Discard, SetPhase, TypeOK
    <3> QED
      BY <3>1, <2>4, <1>1, PublishKeepsOrder DEF Discard
  <2>5. CASE Touch(i)
    BY <2>5, <1>1, RowStepKeepsOrder
  <2> QED
    BY <1>3, <2>1, <2>2, <2>3, <2>4, <2>5 DEF Device
<1>4. ASSUME NEW i \in Intervals, Cleanup(i) PROVE IInv'
  <2>1. CASE CloseOrphan(i)
    BY <2>1, <1>1, RowStepKeepsOrder
  <2>2. CASE LoadOrphan(i) \/ CloseFails(i)
    BY <2>2, <1>2 DEF LoadOrphan, CloseFails
  <2> QED
    BY <1>4, <2>1, <2>2 DEF Cleanup
<1>5. ASSUME NEW c \in Connections, FindOrphans(c) PROVE IInv'
  BY <1>5, <1>2 DEF FindOrphans
<1>6. CASE EndCleanup
  BY <1>6, <1>2 DEF EndCleanup
<1>7. CASE Restart
  <2>1. \A c \in Connections : Len(inbox'[c]) = 0
    BY <1>7 DEF Restart
  <2>2. UNCHANGED <<phase, rows, over>> /\ handler' = Free
    BY <1>7 DEF Restart
  <2>3. \A j \in Intervals : BeyondStart(j) => BeyondStart(j)'
    BY <2>1, <2>2 DEF BeyondStart, NoStartPending
  <2>4. EventsAreInOrder'
    BY <2>1 DEF EventsAreInOrder
  <2>5. HandlerIsInTime'
    BY <2>2 DEF HandlerIsInTime, Free, Working
  <2> QED
    BY <1>1, <2>2, <2>3, <2>4, <2>5 DEF FinishedStaysFinished, DeletedIsBeyondStart
<1>8. CASE UNCHANGED vars
  BY <1>8, <1>2 DEF vars
<1> QED
  BY <1>1, <1>3, <1>4, <1>5, <1>6, <1>7, <1>8, RowStepKeepsOrder, LookUpKeepsOrder,
     WriteKeepsOrder DEF Next

-----------------------------------------------------------------------------
(* Deleted rows.                                                           *)

\* A handler about to write the end of an interval still has its row: only a
\* handler deletes rows.
UpdateHasRow ==
  \A i \in Intervals : handler = Working("update", i) => rows[i] # NoRow

\* Only the end of a handler deletes a row or brings one back, save the cleanup.
LEMMA RowsAppear ==
  ASSUME IInv, UpdateHasRow, [Next]_vars, NEW i \in Intervals
  PROVE  /\ rows[i] # NoRow /\ rows'[i] = NoRow => handler' = Free
         /\ rows[i] = NoRow /\ rows'[i] # NoRow =>
              \/ i \notin over
              \/ i \in sweep.loaded /\ rows'[i] = Closed("timeout")
<1>1. CASE Write
  <2>1. PICK j \in Intervals, step \in {"create", "update", "delete"} :
          handler = Working(step, j)
    BY <1>1 DEF Write, Handlers, TypeOK, Working, IInv
  <2>2. handler' = Free /\ (Save(j, RowFor(step)) \/ UNCHANGED rows)
    BY <1>1, <2>1 DEF Write, Working
  <2>3. rows'[i] # rows[i] => i = j
    BY <2>2 DEF Save, TypeOK, IInv
  <2>4. step = "create" => j \notin over
    BY <2>1 DEF HandlerIsInTime, IInv
  <2>5. step = "update" => rows[j] # NoRow
    BY <2>1 DEF UpdateHasRow
  <2>6. step = "delete" => rows'[i] \in {rows[i], NoRow}
    BY <2>2 DEF Save, RowFor, TypeOK, IInv
  <2> QED
    BY <2>1, <2>2, <2>3, <2>4, <2>5, <2>6
<1>2. ASSUME NEW j \in Intervals, Touch(j) \/ Age(j) PROVE rows'[i] = NoRow <=> rows[i] = NoRow
  BY <1>2, RowFacts DEF Touch, Age, TypeOK, IInv
<1>3. ASSUME NEW j \in Intervals, CloseOrphan(j)
      PROVE  /\ j \in sweep.loaded
             /\ rows'[i] = rows[i] \/ (i = j /\ rows'[i] = Closed("timeout"))
  BY <1>3 DEF CloseOrphan, Save, TypeOK, IInv
<1>4. \/ Write \/ UNCHANGED rows
      \/ \E j \in Intervals : Touch(j) \/ Age(j) \/ CloseOrphan(j)
  BY DEF Next, Device, Cleanup, Begin, Announce, Complete, Discard, Forget, LoadOrphan,
         CloseFails, LookUp, FindOrphans, EndCleanup, Restart, vars
<1> QED
  BY <1>1, <1>2, <1>3, <1>4, RowFacts

LEMMA UpdateKeepsRow ==
  ASSUME IInv, UpdateHasRow, [Next]_vars
  PROVE  UpdateHasRow'
<1> SUFFICES ASSUME NEW i \in Intervals, handler' = Working("update", i)
             PROVE  rows'[i] # NoRow
  BY DEF UpdateHasRow
<1>1. handler' # Free
  BY DEF Working, Free
<1>2. rows[i] # NoRow => rows'[i] # NoRow
  BY <1>1, RowsAppear
<1>3. CASE handler' = handler
  BY <1>2, <1>3 DEF UpdateHasRow
<1>4. ASSUME NEW c \in Connections, LookUp(c) PROVE rows[i] # NoRow
  <2>1. StepFor(inbox[c][1]) = "update" /\ inbox[c][1].id = i
    BY <1>4, <1>1, LookUpFacts DEF Working, IInv
  <2> QED
    BY <2>1 DEF StepFor
<1>5. handler' = handler \/ handler' = Free \/ \E c \in Connections : LookUp(c)
  BY DEF Next, Device, Cleanup, Begin, Announce, Complete, Discard, Forget, Touch, Age, Write,
         LoadOrphan, CloseOrphan, CloseFails, FindOrphans, EndCleanup, Restart, vars
<1> QED
  BY <1>1, <1>2, <1>3, <1>4, <1>5

-----------------------------------------------------------------------------
(* The life of a row.                                                      *)

\* A row that is there and closed was active once; what the cleanup is about to
\* save was there; only trips are discarded.
ClosedRowsAreOver ==
  \A i \in Intervals : rows[i] # NoRow /\ ~rows[i].active => i \in over

LoadedRowsWereThere ==
  \A i \in sweep.loaded : rows[i] # NoRow \/ i \in over

OnlyTripsAreDeleted ==
  /\ \A i \in Intervals : i \in over /\ rows[i] = NoRow => i \in Trips
  /\ \A i \in Intervals : handler = Working("delete", i) => i \in Trips
  /\ \A c \in Connections : \A k \in 1..Len(inbox[c]) :
       inbox[c][k].kind = "discarded" => inbox[c][k].id \in Trips

LifeInv ==
  /\ IInv
  /\ UpdateHasRow
  /\ ClosedRowsAreOver
  /\ LoadedRowsWereThere
  /\ OnlyTripsAreDeleted

\* The one row a step may change, and what it may make of it.
Changes(i) ==
  \/ rows[i].active /\ rows'[i].active /\ over' = over
  \/ rows[i] = NoRow /\ i \notin over /\ rows'[i].active /\ over' = over
  \/ /\ rows[i] # NoRow \/ i \in over
     /\ rows'[i] \in {Closed("natural"), Closed("timeout")}
     /\ rows[i] = NoRow => i \in Trips /\ rows'[i] = Closed("timeout")
     /\ over' = over \cup {i}
  \/ rows[i] # NoRow /\ rows'[i] = NoRow /\ i \in Trips /\ over' = over \cup {i}
  \/ rows[i] = NoRow /\ rows'[i] = NoRow /\ over' = over

LEMMA SavedRow ==
  ASSUME LifeInv, NEW i \in Intervals, NEW row \in Rows, Save(i, row),
         row \in {NewRow, Closed("natural"), Closed("timeout"), NoRow},
         row = NewRow => i \notin over /\ ~rows[i].active,
         row = Closed("natural") => rows[i] # NoRow,
         row = Closed("timeout") => rows[i] # NoRow \/ i \in over,
         row = NoRow => i \in Trips
  PROVE  /\ \A j \in Intervals : j # i => rows'[j] = rows[j]
         /\ Changes(i)
<1>1. /\ rows'[i] = row
      /\ \A j \in Intervals : j # i => rows'[j] = rows[j]
      /\ over' = IF rows[i].active /\ ~row.active THEN over \cup {i} ELSE over
  BY DEF Save, TypeOK, LifeInv, IInv
<1>2. rows[i] = NoRow /\ i \in over => i \in Trips
  BY DEF LifeInv, OnlyTripsAreDeleted
<1>3. rows[i] # NoRow /\ ~rows[i].active => i \in over
  BY DEF LifeInv, ClosedRowsAreOver
<1>4. rows[i].active => rows[i] # NoRow
  BY RowFacts
<1>5. CASE row = NewRow
  BY <1>1, <1>3, <1>5, RowFacts DEF Changes
<1>6. CASE row \in {Closed("natural"), Closed("timeout")}
  <2>1. over' = over \cup {i}
    BY <1>1, <1>3, <1>6, RowFacts
  <2> QED
    BY <1>1, <1>2, <1>6, <2>1, RowFacts DEF Changes, Closed
<1>7. CASE row = NoRow
  <2>1. rows[i] # NoRow => over' = over \cup {i}
    BY <1>1, <1>3, <1>7, RowFacts
  <2>2. rows[i] = NoRow => over' = over
    BY <1>1, RowFacts
  <2> QED
    BY <1>1, <1>7, <2>1, <2>2 DEF Changes
<1> QED
  BY <1>1, <1>5, <1>6, <1>7

LEMMA RowStep ==
  ASSUME LifeInv, [Next]_vars
  PROVE  \/ UNCHANGED <<rows, over>>
         \/ \E i \in Intervals :
              /\ \A j \in Intervals : j # i => rows'[j] = rows[j]
              /\ Changes(i)
<1>1. CASE Write
  <2>1. PICK i \in Intervals, step \in {"create", "update", "delete"} :
          handler = Working(step, i)
    BY <1>1 DEF Write, Handlers, TypeOK, Working, IInv, LifeInv
  <2>2. Save(i, RowFor(step)) \/ UNCHANGED <<rows, over>>
    BY <1>1, <2>1 DEF Write, Working
  <2>3. /\ step = "create" => i \notin over /\ ~rows[i].active
        /\ step = "update" => rows[i] # NoRow
        /\ step = "delete" => i \in Trips
    BY <2>1 DEF LifeInv, IInv, HandlerIsInTime, UpdateHasRow, OnlyTripsAreDeleted
  <2>4. /\ RowFor(step) \in {NewRow, Closed("natural"), NoRow}
        /\ RowFor(step) = NewRow => step = "create"
        /\ RowFor(step) = Closed("natural") => step = "update"
        /\ RowFor(step) = NoRow => step = "delete"
        /\ RowFor(step) # Closed("timeout")
    BY RowFacts DEF RowFor, Closed, NewRow, NoRow
  <2> QED
    BY <2>2, <2>3, <2>4, SavedRow, RowFacts
<1>2. ASSUME NEW i \in Intervals, Touch(i) \/ Age(i)
      PROVE  /\ \A j \in Intervals : j # i => rows'[j] = rows[j]
             /\ Changes(i)
  BY <1>2, RowFacts DEF Touch, Age, Changes, TypeOK, IInv, LifeInv
<1>3. ASSUME NEW i \in Intervals, CloseOrphan(i)
      PROVE  /\ \A j \in Intervals : j # i => rows'[j] = rows[j]
             /\ Changes(i)
  <2>1. Save(i, Closed("timeout")) /\ (rows[i] # NoRow \/ i \in over)
    BY <1>3 DEF CloseOrphan, LifeInv, LoadedRowsWereThere
  <2>2. /\ Closed("timeout") \in Rows /\ Closed("timeout") # NewRow
        /\ Closed("timeout") # Closed("natural") /\ Closed("timeout") # NoRow
    BY RowFacts DEF Closed, NewRow, NoRow
  <2> QED
    BY <2>1, <2>2, SavedRow
<1>4. \/ Write \/ UNCHANGED <<rows, over>>
      \/ \E i \in Intervals : Touch(i) \/ Age(i) \/ CloseOrphan(i)
  BY DEF Next, Device, Cleanup, Begin, Announce, Complete, Discard, Forget, LoadOrphan,
         CloseFails, LookUp, FindOrphans, EndCleanup, Restart, vars
<1> QED
  BY <1>1, <1>2, <1>3, <1>4

\* Rows keep the promises of LifeInv; only LoadOrphan takes a row into loaded,
\* and it has just seen it.
LEMMA RowsKeepLife ==
  ASSUME LifeInv, [Next]_vars
  PROVE  /\ ClosedRowsAreOver' /\ LoadedRowsWereThere'
         /\ \A i \in Intervals : i \in over' /\ rows'[i] = NoRow => i \in Trips
<1> USE DEF LifeInv, ClosedRowsAreOver, LoadedRowsWereThere, OnlyTripsAreDeleted
<1>1. over \subseteq Intervals /\ sweep.loaded \subseteq Intervals
  BY DEF IInv, TypeOK, Sweeps
<1>2. sweep'.loaded \subseteq sweep.loaded \/
      \E i \in Intervals : rows[i] # NoRow /\ sweep'.loaded = {i} /\ UNCHANGED rows
  <2>1. ASSUME NEW i \in Intervals, LoadOrphan(i)
        PROVE  /\ sweep'.loaded = IF rows[i] = NoRow THEN {} ELSE {i}
               /\ UNCHANGED rows
    BY <2>1 DEF LoadOrphan, IInv, TypeOK, Sweeps
  <2>2. ASSUME NEW i \in Intervals, CloseOrphan(i) \/ CloseFails(i) PROVE sweep'.loaded = {}
    BY <2>2 DEF CloseOrphan, CloseFails, IInv, TypeOK, Sweeps
  <2>3. ASSUME NEW c \in Connections, FindOrphans(c) PROVE sweep'.loaded = {}
    BY <2>3 DEF FindOrphans, Asleep
  <2>4. CASE EndCleanup \/ Restart
    BY <2>4 DEF EndCleanup, Restart, Asleep
  <2>5. \/ UNCHANGED sweep \/ EndCleanup \/ Restart \/ \E c \in Connections : FindOrphans(c)
        \/ \E i \in Intervals : LoadOrphan(i) \/ CloseOrphan(i) \/ CloseFails(i)
    BY DEF Next, Device, Cleanup, Begin, Announce, Complete, Discard, Forget, Touch, Age,
           Write, LookUp, vars
  <2> QED
    BY <2>1, <2>2, <2>3, <2>4, <2>5
<1>3. CASE UNCHANGED <<rows, over>>
  BY <1>1, <1>2, <1>3
<1>4. ASSUME NEW i \in Intervals, \A j \in Intervals : j # i => rows'[j] = rows[j], Changes(i)
      PROVE  /\ ClosedRowsAreOver'
             /\ \A j \in Intervals : j \in over' /\ rows'[j] = NoRow => j \in Trips
             /\ \A j \in Intervals : rows[j] # NoRow \/ j \in over
                                       => rows'[j] # NoRow \/ j \in over'
  BY <1>4, RowFacts DEF Changes
<1>5. ASSUME NEW i \in Intervals, \A j \in Intervals : j # i => rows'[j] = rows[j], Changes(i)
      PROVE  LoadedRowsWereThere'
  BY <1>1, <1>2, <1>4, <1>5
<1> QED
  BY <1>3, <1>4, <1>5, RowStep

\* A handler that deletes was asked to by the discard of a trip.
LEMMA DiscardsAreOfTrips ==
  ASSUME LifeInv, [Next]_vars
  PROVE  OnlyTripsAreDeleted'
<1>1. TypeOK /\ \A c \in Connections : Len(inbox[c]) \in Nat
  BY DEF LifeInv, IInv, TypeOK
<1> USE DEF LifeInv, OnlyTripsAreDeleted
<1>2. ASSUME NEW i \in Intervals, NEW kind \in {"started", "completed", "discarded"},
             Publish(kind, i), kind = "discarded" => i \in Trips
      PROVE  \A c \in Connections : \A k \in 1..Len(inbox'[c]) :
               inbox'[c][k].kind = "discarded" => inbox'[c][k].id \in Trips
  <2>0. \A c \in Connections :
          \/ inbox'[c] = inbox[c]
          \/ /\ c = Connection(i)
             /\ Len(inbox'[c]) = Len(inbox[c]) + 1
             /\ \A k \in 1..Len(inbox[c]) : inbox'[c][k] = inbox[c][k]
             /\ inbox'[c][Len(inbox[c]) + 1] = [kind |-> kind, id |-> i]
    <3> HIDE DEF LifeInv, OnlyTripsAreDeleted
    <3> QED
      BY <1>1, <1>2, PublishFacts
  <2> SUFFICES ASSUME NEW c \in Connections, NEW k \in 1..Len(inbox'[c]),
                      inbox'[c][k].kind = "discarded"
               PROVE  inbox'[c][k].id \in Trips
    OBVIOUS
  <2>1. \/ k \in 1..Len(inbox[c]) /\ inbox'[c][k] = inbox[c][k]
        \/ inbox'[c][k] = [kind |-> kind, id |-> i]
    BY <1>1, <2>0
  <2> QED
    BY <1>2, <2>1
<1>3. ASSUME NEW c \in Connections, LookUp(c) PROVE OnlyTripsAreDeleted'
  <2> DEFINE e == inbox[c][1]
  <2>1. /\ e \in Events /\ 1 \in 1..Len(inbox[c])
        /\ \A k \in 1..Len(inbox'[c]) : k + 1 \in 1..Len(inbox[c]) /\ inbox'[c][k] = inbox[c][k + 1]
        /\ \A b \in Connections : b # c => inbox'[b] = inbox[b]
        /\ handler' = Free \/ handler' = Working(StepFor(e), e.id)
    BY <1>1, <1>3, LookUpFacts
  <2>2. StepFor(e) = "delete" => e.kind = "discarded"
    BY <2>1 DEF StepFor, Events
  <2>3. \A i \in Intervals : handler' = Working("delete", i) => i \in Trips
    BY <2>1, <2>2 DEF Working, Free
  <2>4. ASSUME NEW b \in Connections, NEW k \in 1..Len(inbox'[b]),
               inbox'[b][k].kind = "discarded"
        PROVE  inbox'[b][k].id \in Trips
    BY <2>1, <2>4
  <2> QED
    BY <2>3, <2>4, <1>3, RowsKeepLife
<1>4. handler' \in {handler, Free} \/ \E c \in Connections : LookUp(c)
  BY DEF Next, Device, Cleanup, Begin, Announce, Complete, Discard, Forget, Touch, Age, Write,
         LoadOrphan, CloseOrphan, CloseFails, FindOrphans, EndCleanup, Restart, vars
<1>5. \/ UNCHANGED inbox \/ Restart \/ \E c \in Connections : LookUp(c)
      \/ \E i \in Intervals : Announce(i) \/ Complete(i) \/ Discard(i)
  BY DEF Next, Device, Cleanup, Begin, Forget, Touch, Age, Write,
         LoadOrphan, CloseOrphan, CloseFails, FindOrphans, EndCleanup, vars
<1>6. ASSUME ~\E c \in Connections : LookUp(c)
      PROVE  \A c \in Connections : \A k \in 1..Len(inbox'[c]) :
               inbox'[c][k].kind = "discarded" => inbox'[c][k].id \in Trips
  <2>1. CASE Restart
    BY <2>1 DEF Restart
  <2>2. ASSUME NEW i \in Intervals, Announce(i) \/ Complete(i) \/ Discard(i)
        PROVE  \E kind \in {"started", "completed", "discarded"} :
                 Publish(kind, i) /\ (kind = "discarded" => i \in Trips)
    BY <2>2 DEF Announce, Complete, Discard
  <2> QED
    BY <1>2, <1>5, <1>6, <2>1, <2>2
<1>7. handler' \in {handler, Free} => \A i \in Intervals : handler' = Working("delete", i) => i \in Trips
  BY DEF Working, Free
<1> QED
  BY <1>3, <1>4, <1>6, <1>7, RowsKeepLife

LEMMA InitialLife == Init => LifeInv
<1> SUFFICES ASSUME Init PROVE LifeInv
  OBVIOUS
<1>1. /\ over = {} /\ handler = Free /\ sweep.loaded = {}
      /\ \A i \in Intervals : rows[i] = NoRow
      /\ \A c \in Connections : Len(inbox[c]) = 0
  BY DEF Init, Asleep
<1> QED
  BY <1>1, InitialInvariant DEF LifeInv, UpdateHasRow, ClosedRowsAreOver, LoadedRowsWereThere,
     OnlyTripsAreDeleted, Free, Working

LEMMA InductiveLife == LifeInv /\ [Next]_vars => LifeInv'
BY InductiveInvariant, UpdateKeepsRow, RowsKeepLife, DiscardsAreOfTrips DEF LifeInv

\* What may become of a row is what RowLifecycle allows.
LEMMA LifeTurns ==
  ASSUME LifeInv, NEW i \in Intervals, Changes(i),
         \A j \in Intervals : j # i => rows'[j] = rows[j]
  PROVE  [Lifecycle!Next]_life
<1>1. \A j \in Intervals : j # i => LifeOf(j)' = LifeOf(j)
  BY DEF LifeOf, Changes
<1>2. life' = [life EXCEPT ![i] = LifeOf(i)']
  BY <1>1 DEF life
<1>3. /\ rows[i] \in Rows
      /\ rows[i] # NoRow /\ ~rows[i].active => i \in over
  BY DEF LifeInv, IInv, TypeOK, ClosedRowsAreOver
<1>4. /\ LifeOf(i) \in {"active", "natural", "timeout", "absent", "deleted"}
      /\ LifeOf(i) = "absent" <=> rows[i] = NoRow /\ i \notin over
      /\ LifeOf(i) = "deleted" <=> rows[i] = NoRow /\ i \in over
      /\ LifeOf(i) = "active" <=> rows[i].active
  <2>1. CASE rows[i] = NoRow
    BY <2>1, RowFacts DEF LifeOf
  <2>2. CASE rows[i] \in {NewRow, OldRow}
    BY <2>2, RowFacts DEF LifeOf
  <2>3. CASE rows[i] \in {Closed("natural"), Closed("timeout")}
    <3>1. rows[i] # NoRow /\ ~rows[i].active /\ rows[i].closure \in {"natural", "timeout"}
      BY <2>3, RowFacts DEF Closed
    <3> QED
      BY <3>1 DEF LifeOf
  <2> QED
    BY <1>3, <2>1, <2>2, <2>3 DEF Rows
<1>5. \/ LifeOf(i)' = LifeOf(i)
      \/ LifeOf(i) = "absent" /\ LifeOf(i)' = "active"
      \/ /\ LifeOf(i) \in {"active", "natural", "timeout"}
         /\ LifeOf(i)' \in {"natural", "timeout"}
      \/ /\ LifeOf(i) \in {"active", "natural", "timeout"}
         /\ LifeOf(i)' = "deleted" /\ i \in Trips
      \/ LifeOf(i) = "deleted" /\ LifeOf(i)' = "timeout" /\ i \in Trips
  <2>1. CASE rows[i].active /\ rows'[i].active
    BY <2>1, RowFacts DEF LifeOf
  <2>2. CASE rows[i] = NoRow /\ i \notin over /\ rows'[i].active
    BY <2>2, <1>4, RowFacts DEF LifeOf
  <2>3. CASE /\ rows[i] # NoRow \/ i \in over
             /\ rows'[i] \in {Closed("natural"), Closed("timeout")}
             /\ rows[i] = NoRow => i \in Trips /\ rows'[i] = Closed("timeout")
    <3>1. LifeOf(i)' = rows'[i].closure /\ rows'[i].closure \in {"natural", "timeout"}
      BY <2>3, RowFacts DEF LifeOf, Closed
    <3>2. rows[i] = NoRow => rows'[i].closure = "timeout"
      BY <2>3 DEF Closed
    <3> QED
      BY <3>1, <3>2, <2>3, <1>4
  <2>4. CASE rows[i] # NoRow /\ rows'[i] = NoRow /\ i \in Trips /\ over' = over \cup {i}
    BY <2>4, <1>4, RowFacts DEF LifeOf
  <2>5. CASE rows[i] = NoRow /\ rows'[i] = NoRow /\ over' = over
    BY <2>5 DEF LifeOf
  <2> QED
    BY <2>1, <2>2, <2>3, <2>4, <2>5 DEF Changes
<1>6. i \in Trips \cup Stops /\ life[i] = LifeOf(i)
  BY DEF Intervals, life
<1>7. CASE LifeOf(i) = "absent" /\ LifeOf(i)' = "active"
  <2>1. Lifecycle!Create(i)
    BY <1>2, <1>6, <1>7 DEF Lifecycle!Create, Lifecycle!Turns, life
  <2> QED
    BY <2>1, <1>6 DEF Lifecycle!Next
<1>8. CASE /\ LifeOf(i) \in {"active", "natural", "timeout"}
           /\ LifeOf(i)' \in {"natural", "timeout"}
  <2>1. Lifecycle!Close(i)
    BY <1>2, <1>6, <1>8 DEF Lifecycle!Close, Lifecycle!Turns, Lifecycle!Closings, life
  <2> QED
    BY <2>1, <1>6 DEF Lifecycle!Next
<1>9. CASE /\ LifeOf(i) \in {"active", "natural", "timeout"}
           /\ LifeOf(i)' = "deleted" /\ i \in Trips
  <2>1. Lifecycle!Delete(i)
    BY <1>2, <1>6, <1>9 DEF Lifecycle!Delete, Lifecycle!Turns, Lifecycle!Closings, life
  <2> QED
    BY <2>1, <1>6 DEF Lifecycle!Next
<1>10. CASE LifeOf(i) = "deleted" /\ LifeOf(i)' = "timeout" /\ i \in Trips
  <2>1. Lifecycle!Revive(i)
    BY <1>2, <1>6, <1>10 DEF Lifecycle!Revive, Lifecycle!Turns, life
  <2> QED
    BY <2>1, <1>6 DEF Lifecycle!Next
<1>11. CASE LifeOf(i)' = LifeOf(i)
  <2>1. life' = life
    BY <1>1, <1>11 DEF life
  <2> QED
    BY <2>1
<1> QED
  BY <1>5, <1>7, <1>8, <1>9, <1>10, <1>11

-----------------------------------------------------------------------------
(* Results.                                                                *)

\* Rows, events and the state of handler and cleanup keep their types.
THEOREM TypesArePreserved == Spec => []TypeOK
<1>1. Init => TypeOK
  BY InitialTypes
<1>2. TypeOK /\ [Next]_vars => TypeOK'
  BY TypeStep
<1> QED
  BY <1>1, <1>2, PTL DEF Spec

\* No row of a closed or deleted trip or stop becomes active again: handlers run
\* one at a time, look for the row first, and starts precede discards.
THEOREM FinishedRowsStayFinished == Spec => []FinishedStaysFinished
<1>1. Init => IInv
  BY InitialInvariant
<1>2. IInv /\ [Next]_vars => IInv'
  BY InductiveInvariant
<1>3. IInv => FinishedStaysFinished
  BY DEF IInv
<1> QED
  BY <1>1, <1>2, <1>3, PTL DEF Spec

\* A discarded trip's row comes back only as the cleanup's closed copy of it: an
\* update finds the row it looked up, since handlers run one at a time.
THEOREM DeletedRowsStayDeleted == Spec => OnlyTheCleanupRevives
<1>1. Init => IInv /\ UpdateHasRow
  BY InitialInvariant DEF Init, UpdateHasRow, Free, Working
<1>2. IInv /\ UpdateHasRow /\ [Next]_vars => (IInv /\ UpdateHasRow)'
  BY InductiveInvariant, UpdateKeepsRow
<1>3. ASSUME IInv, UpdateHasRow, [Next]_vars
      PROVE  [\A i \in over : rows[i] = NoRow /\ rows'[i] # NoRow
                => i \in sweep.loaded /\ rows'[i] = Closed("timeout")]_vars
  <2> over \subseteq Intervals
    BY <1>3 DEF IInv, TypeOK
  <2> QED
    BY <1>3, RowsAppear
<1> QED
  BY <1>1, <1>2, <1>3, PTL DEF Spec, OnlyTheCleanupRevives

\* Rows live as RowLifecycle promises, from their creation on.
THEOREM RowsImplementLifecycle == Spec => ImplementsRowLifecycle
<1>1. Init => LifeInv
  BY InitialLife
<1>2. LifeInv /\ [Next]_vars => LifeInv'
  BY InductiveLife
<1>3. Init => Lifecycle!Init
  <2>1. ASSUME Init, NEW i \in Intervals PROVE LifeOf(i) = "absent"
    BY <2>1, RowFacts DEF Init, LifeOf
  <2> QED
    BY <2>1 DEF Lifecycle!Init, Intervals, life
<1>4. LifeInv /\ [Next]_vars => [Lifecycle!Next]_life
  <2> SUFFICES ASSUME LifeInv, [Next]_vars PROVE [Lifecycle!Next]_life
    OBVIOUS
  <2>1. CASE UNCHANGED <<rows, over>>
    BY <2>1 DEF LifeOf, life
  <2> QED
    BY <2>1, RowStep, LifeTurns
<1> QED
  BY <1>1, <1>2, <1>3, <1>4, PTL DEF Spec, ImplementsRowLifecycle, Lifecycle!Spec

=============================================================================
