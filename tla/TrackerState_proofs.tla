------------------------ MODULE TrackerState_proofs ------------------------
(***************************************************************************)
(* The odometer of a tracker never runs ahead of what was driven, and an   *)
(* undisturbed trip publishes what was driven on it, for any line of       *)
(* places, any number of concurrent callers and any bounds.                *)
(***************************************************************************)
EXTENDS TrackerState, TLAPS

-----------------------------------------------------------------------------
(* Records and operations.                                                 *)

LEMMA DistFacts ==
  /\ \A a, b \in Nat : Dist(a, b) \in Nat /\ Dist(a, b) = Dist(b, a)
  /\ \A a \in Nat : Dist(a, a) = 0
  /\ \A a, b, d \in Nat : Dist(a, d) <= Dist(a, b) + Dist(b, d)
BY DEF Dist

LEMMA RecordFacts ==
  /\ None \notin Nat /\ Fresh \in States /\ Gone \notin States
  /\ \A s \in States : /\ s # Gone
                       /\ s.odo \in Nat /\ s.anchor \in Nat \cup {None}
                       /\ s.place \in Places \cup {None} /\ s.place \in Nat \cup {None}
<1>1. ASSUME NEW s \in States
      PROVE  /\ s.odo \in Nat /\ s.anchor \in Nat \cup {None}
             /\ s.place \in Places \cup {None} /\ s.place \in Nat \cup {None}
  BY TrackerAssumption DEF States
<1>2. Gone.odo = None /\ None \notin Nat
  BY DEF Gone, None
<1>3. Fresh \in States
  BY DEF Fresh, States
<1> QED
  BY <1>1, <1>2, <1>3

LEMMA RowFacts ==
  ASSUME NEW s \in States
  PROVE  AsRow(s) \in States /\ AsRow(s).odo = s.odo /\ AsRow(s).place = s.place
BY DEF AsRow, States

LEMMA OpFacts ==
  ASSUME NEW op \in Ops
  PROVE  /\ op.name = "position" => op \in PositionOps /\ op.place \in Places /\ op.jump \in BOOLEAN
         /\ op.name = "reset" => op.value \in Resets /\ op.value \in Nat
<1>1. CASE op \in PositionOps
  BY <1>1 DEF PositionOps, Position
<1>2. CASE op \in {Reset(v) : v \in Resets}
  BY <1>2, TrackerAssumption DEF Reset
<1>3. CASE op \in {Plain(n) : n \in {"ignition", "setOdometer", "status"}}
  BY <1>3 DEF Plain
<1>4. CASE op \in {Plain(n) : n \in StageNames}
  BY <1>4 DEF Plain, StageNames, StageOf
<1> QED
  BY <1>1, <1>2, <1>3, <1>4 DEF Ops, OutsiderOps

\* Outsiders neither bring positions nor open or close trips.
LEMMA OutsiderFacts ==
  ASSUME NEW op \in OutsiderOps
  PROVE  /\ op \in Ops
         /\ op.name \notin {"position", "started", "completed", "anchor"}
BY DEF OutsiderOps, Ops, Reset, Plain

LEMMA DeltaFacts ==
  ASSUME NEW s \in States, NEW op \in Ops, op.name = "position"
  PROVE  /\ Delta(s, op) \in Nat
         /\ s.place = None => Delta(s, op) = 0
         /\ s.place # None => Delta(s, op) <= Dist(s.place, op.place)
<1>1. op.place \in Nat
  BY OpFacts, TrackerAssumption
<1>2. CASE s.place = None
  BY <1>2 DEF Delta
<1>3. CASE s.place # None
  <2>1. s.place \in Nat
    BY <1>3, RecordFacts, TrackerAssumption
  <2>2. Dist(s.place, op.place) \in Nat
    BY <1>1, <2>1, DistFacts
  <2>3. Delta(s, op) = 0 \/ Delta(s, op) = Dist(s.place, op.place)
    BY DEF Delta
  <2> QED
    BY <1>3, <2>2, <2>3
<1> QED
  BY <1>2, <1>3

LEMMA ChangedFacts ==
  ASSUME NEW s \in States, NEW op \in Ops
  PROVE  /\ Changed(s, op) \in States
         /\ op.name = "position" => /\ Changed(s, op).odo = s.odo + Delta(s, op)
                                    /\ Changed(s, op).place = op.place
                                    /\ Changed(s, op).anchor = s.anchor
         /\ op.name # "position" => Changed(s, op).place = s.place
         /\ op.name = "reset" => Changed(s, op).odo = op.value
         /\ op.name \notin {"position", "reset"} => Changed(s, op).odo = s.odo
         /\ op.name = "started" => Changed(s, op).anchor = s.odo
         /\ op.name \notin {"started", "completed"} => Changed(s, op).anchor = s.anchor
<1>1. CASE op.name = "position"
  <2>1. Changed(s, op) = [odo |-> s.odo + Delta(s, op), place |-> op.place,
                          anchor |-> s.anchor]
    BY <1>1 DEF Changed
  <2>2. Delta(s, op) \in Nat /\ op.place \in Places
    BY <1>1, OpFacts, DeltaFacts
  <2>3. s.odo + Delta(s, op) \in Nat /\ s.anchor \in Nat \cup {None}
    BY <2>2, RecordFacts
  <2>4. Changed(s, op) \in States
    BY <2>1, <2>2, <2>3 DEF States
  <2> QED
    BY <1>1, <2>1, <2>4
<1>2. CASE op.name = "reset"
  BY <1>2, OpFacts DEF Changed, States
<1>3. CASE op.name \notin {"position", "reset"}
  BY <1>3 DEF Changed, States
<1> QED
  BY <1>1, <1>2, <1>3

LEMMA CallFacts ==
  /\ Plain("status") \in Ops /\ Idle \in Calls
  /\ \A op \in Ops : Calling(op) \in Calls
  /\ Idle = [op |-> Plain("status"), pc |-> "idle", copy |-> Fresh, stale |-> FALSE]
<1>1. Plain("status") \in Ops
  BY DEF Ops, OutsiderOps
<1>2. Idle = [op |-> Plain("status"), pc |-> "idle", copy |-> Fresh, stale |-> FALSE]
  BY DEF Idle
<1>3. Fresh \in States
  BY RecordFacts
<1>4. \A op \in Ops : Calling(op) \in Calls
  BY <1>3 DEF Calls, Steps, Calling
<1>5. Idle \in Calls
  BY <1>1, <1>2, <1>3 DEF Calls, Steps
<1> QED
  BY <1>1, <1>2, <1>4, <1>5

\* A write keeps every other call's operation, step and copy.
LEMMA WriteFacts ==
  ASSUME call \in [Callers -> Calls], NEW c \in Callers, NEW next \in Calls
  PROVE  /\ AfterWrite(c, next) \in [Callers -> Calls]
         /\ AfterWrite(c, next)[c] = next
         /\ \A d \in Callers \ {c} :
              /\ AfterWrite(c, next)[d].op = call[d].op
              /\ AfterWrite(c, next)[d].pc = call[d].pc
              /\ AfterWrite(c, next)[d].copy = call[d].copy
              /\ call[d].pc \in {"find", "fill", "save"} => AfterWrite(c, next)[d].stale
<1> DEFINE New == AfterWrite(c, next)
<1>1. ASSUME NEW d \in Callers, d # c
      PROVE  /\ New[d] \in Calls /\ New[d].op = call[d].op /\ New[d].pc = call[d].pc
             /\ New[d].copy = call[d].copy
             /\ call[d].pc \in {"find", "fill", "save"} => New[d].stale
  <2> call[d] \in Calls
    OBVIOUS
  <2>1. New[d] = IF call[d].pc \in {"find", "fill", "save"}
                 THEN [call[d] EXCEPT !.stale = TRUE] ELSE call[d]
    BY <1>1 DEF AfterWrite
  <2> HIDE DEF New
  <2> QED
    BY <2>1 DEF Calls
<1>2. New[c] = next
  BY DEF AfterWrite
<1>3. New = [d \in Callers |-> New[d]]
  BY DEF AfterWrite
<1> HIDE DEF New
<1>4. New \in [Callers -> Calls]
  BY <1>1, <1>2, <1>3
<1> QED
  BY <1>1, <1>2, <1>4 DEF New

-----------------------------------------------------------------------------
(* The odometer.                                                           *)

LEMMA EarnedByChange ==
  ASSUME NEW s \in States, NEW op \in Ops,
         NEW q \in Places \cup {None}, NEW d \in Nat, NEW g \in Nat,
         Earned(s, q, d, g),
         op.name = "position" => op.place = q,
         op.name = "reset" => op.value <= g
  PROVE  Earned(Changed(s, op), q, d, g)
<1> SUFFICES ASSUME NEW t, t = Changed(s, op)
             PROVE  Earned(t, q, d, g)
  OBVIOUS
<1>1. /\ t \in States /\ t # Gone /\ s # Gone /\ s.odo \in Nat /\ t.odo \in Nat
      /\ s.place \in Nat \cup {None} /\ t.place \in Nat \cup {None} /\ q \in Nat \cup {None}
  BY ChangedFacts, RecordFacts, TrackerAssumption
<1>2. CASE op.name = "position"
  <2>1. q \in Nat /\ q # None /\ op.place = q
    BY <1>2, OpFacts, TrackerAssumption DEF None
  <2>2. t.odo = s.odo + Delta(s, op) /\ t.place = q
    BY <1>2, <2>1, ChangedFacts
  <2>3. CASE s.place = None
    <3>1. t.odo = s.odo /\ s.odo <= g
      BY <1>1, <1>2, <2>2, <2>3, DeltaFacts DEF Earned
    <3>2. Dist(t.place, q) = 0
      BY <2>1, <2>2, DistFacts
    <3>3. t.odo + 0 <= d + g
      BY <1>1, <3>1
    <3> QED
      BY <2>1, <2>2, <3>2, <3>3 DEF Earned
  <2>4. CASE s.place # None
    <3>1. /\ Delta(s, op) \in Nat /\ Delta(s, op) <= Dist(s.place, q)
          /\ Dist(s.place, q) \in Nat
      BY <1>1, <1>2, <2>1, <2>4, DeltaFacts, DistFacts
    <3>2. s.odo + Dist(s.place, q) <= d + g
      BY <1>1, <2>4 DEF Earned
    <3>3. Dist(t.place, q) = 0
      BY <2>1, <2>2, DistFacts
    <3>4. t.odo <= s.odo + Dist(s.place, q)
      BY <1>1, <2>2, <3>1
    <3>5. t.odo + 0 <= d + g
      BY <1>1, <3>1, <3>2, <3>4
    <3> QED
      BY <2>1, <2>2, <3>3, <3>5 DEF Earned
  <2> QED
    BY <2>3, <2>4
<1>3. CASE op.name # "position"
  <2>1. t.place = s.place /\ (t.odo = s.odo \/ t.odo <= g)
    BY <1>3, ChangedFacts
  <2>2. s.place # None => Dist(s.place, q) \in Nat
    BY <1>1, DistFacts DEF Earned
  <2>3. CASE s.place = None
    BY <1>1, <2>1, <2>3 DEF Earned
  <2>4. CASE s.place # None
    <3>1. /\ q # None /\ Dist(s.place, q) <= d /\ s.odo + Dist(s.place, q) <= d + g
      BY <1>1, <2>4 DEF Earned
    <3>2. t.odo + Dist(s.place, q) <= d + g
      BY <1>1, <2>1, <2>2, <2>4, <3>1
    <3> QED
      BY <2>1, <2>4, <3>1, <3>2 DEF Earned
  <2> QED
    BY <2>3, <2>4
<1> QED
  BY <1>2, <1>3

LEMMA EarnedByMove ==
  ASSUME NEW s \in States \cup {Gone}, NEW q \in Places \cup {None}, NEW r \in Places,
         NEW d \in Nat, NEW g \in Nat, Earned(s, q, d, g)
  PROVE  Earned(s, r, d + (IF q = None THEN 0 ELSE Dist(q, r)), g)
<1>1. CASE s = Gone
  BY <1>1 DEF Earned
<1>2. CASE s \in States /\ s.place = None
  BY <1>2, RecordFacts DEF Earned
<1>3. CASE s \in States /\ s.place # None
  <2>0. s # Gone /\ q # None
    BY <1>3, RecordFacts DEF Earned
  <2>1. /\ s.place \in Nat /\ q \in Nat /\ r \in Nat /\ r # None /\ s # Gone /\ s.odo \in Nat
    BY <1>3, <2>0, RecordFacts, TrackerAssumption DEF None
  <2>2. /\ Dist(s.place, r) <= Dist(s.place, q) + Dist(q, r)
        /\ Dist(s.place, r) \in Nat /\ Dist(s.place, q) \in Nat /\ Dist(q, r) \in Nat
    BY <2>1, DistFacts
  <2>3. q # None /\ Dist(s.place, q) <= d /\ s.odo + Dist(s.place, q) <= d + g
    BY <1>3, <2>1 DEF Earned
  <2> QED
    BY <1>3, <2>1, <2>2, <2>3 DEF Earned
<1> QED
  BY <1>1, <1>2, <1>3

LEMMA EarnedByGift ==
  ASSUME NEW s \in States \cup {Gone}, NEW q \in Places \cup {None},
         NEW d \in Nat, NEW g \in Nat, NEW h \in Nat, g <= h, Earned(s, q, d, g)
  PROVE  Earned(s, q, d, h)
<1>1. CASE s = Gone
  BY <1>1 DEF Earned
<1>2. CASE s \in States
  <2>1. s.odo \in Nat /\ s.place \in Nat \cup {None} /\ q \in Nat \cup {None}
    BY <1>2, RecordFacts, TrackerAssumption
  <2>2. s.place # None /\ q # None => Dist(s.place, q) \in Nat
    BY <2>1, DistFacts
  <2> QED
    BY <2>1, <2>2 DEF Earned
<1> QED
  BY <1>1, <1>2
-----------------------------------------------------------------------------
(* The inductive invariant of the odometer: what the pending operations    *)
(* will write is earned as well.                                           *)

OpsKnown ==
  /\ \A c \in Outsiders : call[c].op \in OutsiderOps
  /\ call[Worker].op.name = "position" => call[Worker].op.place = here
  /\ \A c \in Callers : call[c].op.name = "reset" => call[c].op.value <= granted

OdoInv == Shapes /\ OpsKnown /\ OdometerIsEarned

LEMMA IdleFacts ==
  /\ Idle.op \in OutsiderOps /\ Idle.op.name = "status"
  /\ Idle.copy = Fresh /\ Idle.pc = "idle" /\ ~Idle.stale
BY DEF Idle, Plain, OutsiderOps

LEMMA EarnedFresh == \A q : \A d, g \in Nat : Earned(Fresh, q, d, g)
BY DEF Earned, Fresh

\* Calls that keep their operation, or end, keep what is known about them.
LEMMA CallsKept ==
  ASSUME OdoInv, NEW c \in Callers,
         call' \in [Callers -> Calls],
         \A d \in Callers \ {c} : call'[d].op = call[d].op /\ call'[d].copy = call[d].copy,
         call'[c] = Idle \/ (/\ call'[c].op = call[c].op
                            /\ Earned(call'[c].copy, here, path, granted)),
         UNCHANGED <<here, path, granted>>
  PROVE  /\ OpsKnown'
         /\ \A d \in Callers : Earned(call'[d].copy, here, path, granted)
<1>1. Earned(Idle.copy, here, path, granted)
  BY IdleFacts, EarnedFresh DEF OdoInv, Shapes
<1>2. \A d \in Callers : Earned(call'[d].copy, here, path, granted)
  BY <1>1 DEF OdoInv, OdometerIsEarned
<1>3. \A d \in Callers : call'[d].op = call[d].op \/ call'[d].op = Idle.op
  OBVIOUS
<1>4. OpsKnown'
  BY <1>3, IdleFacts DEF OdoInv, OpsKnown, Callers
<1> QED
  BY <1>2, <1>4

LEMMA AnswerFacts ==
  ASSUME Shapes, NEW c \in Callers, NEW s \in States \cup {Gone}, Answer(c, s)
  PROVE  /\ stage' \in 1..Done
         /\ published'.distance \in Int /\ published'.driven \in Nat \cup {None}
<1>1. stage' \in 1..Done
  BY DEF Answer, Shapes, StageOf, Done
<1>2. \/ published' = published
      \/ published' = Unpublished
      \/ s \in States /\ s.anchor \in Nat
         /\ published' = [distance |-> s.odo - s.anchor, driven |-> Driven]
  BY RecordFacts DEF Answer
<1>3. Driven \in Nat \cup {None}
  BY DEF Driven, Shapes
<1> QED
  BY <1>1, <1>2, <1>3, RecordFacts DEF Shapes, Unpublished
\* A call that stays within its own types.
LEMMA OneCall ==
  ASSUME Shapes, NEW c \in Callers, NEW x \in Calls, call' = [call EXCEPT ![c] = x]
  PROVE  /\ call' \in [Callers -> Calls] /\ call'[c] = x
         /\ \A d \in Callers \ {c} : call'[d] = call[d]
BY DEF Shapes

\* The steps of a call that change it alone.
LEMMA CallMoves ==
  ASSUME Shapes, NEW c \in Callers
  PROVE  /\ call[c] \in Calls /\ call[c].op \in Ops /\ call[c].copy \in States
         /\ \A s \in States, pc \in Steps :
              /\ Carrying(c, s, pc) \in Calls /\ Carrying(c, s, pc).op = call[c].op
              /\ Carrying(c, s, pc).copy = s /\ Carrying(c, s, pc).pc = pc
              /\ Carrying(c, s, pc).stale = call[c].stale
BY DEF Shapes, Calls, Carrying

LEMMA GotoFacts ==
  ASSUME Shapes, NEW c \in Callers, NEW s \in States, NEW pc \in Steps, Goto(c, s, pc)
  PROVE  /\ call' \in [Callers -> Calls]
         /\ \A d \in Callers \ {c} : call'[d] = call[d]
         /\ call'[c].op = call[c].op /\ call'[c].copy = s
         /\ call'[c].pc = pc /\ call'[c].stale = call[c].stale
<1> DEFINE x == Carrying(c, s, pc)
<1>1. x \in Calls /\ x.op = call[c].op /\ x.copy = s /\ x.pc = pc /\ x.stale = call[c].stale
  BY CallMoves
<1>2. call' = [call EXCEPT ![c] = x]
  BY DEF Goto
<1> HIDE DEF x
<1> QED
  BY <1>1, <1>2, OneCall

LEMMA ReturnFacts ==
  ASSUME Shapes, NEW c \in Callers, Return(c)
  PROVE  /\ call' \in [Callers -> Calls] /\ call'[c] = Idle
         /\ \A d \in Callers \ {c} : call'[d] = call[d]
BY CallFacts, OneCall DEF Return

LEMMA InitOdo == Init => OdoInv
<1> SUFFICES ASSUME Init PROVE OdoInv
  OBVIOUS
<1>1. call \in [Callers -> Calls] /\ \A c \in Callers : call[c] = Idle
  BY CallFacts DEF Init
<1>2. Shapes
  BY <1>1, TrackerAssumption DEF Init, Shapes, Done, Unpublished, None, Counters, NoCounter
<1>3. OpsKnown
  BY <1>1, IdleFacts DEF Init, OpsKnown, Callers
<1>4. OdometerIsEarned
  BY <1>1, IdleFacts, EarnedFresh DEF Init, OdometerIsEarned, Earned
<1> QED
  BY <1>2, <1>3, <1>4 DEF OdoInv

LEMMA BeginPositionOdo ==
  ASSUME OdoInv, NEW op \in PositionOps, BeginPosition(op)
  PROVE  OdoInv'
<1> DEFINE step == IF here = None THEN 0 ELSE Dist(here, op.place)
<1>1. op \in Ops /\ op.name = "position" /\ op.place \in Places
  BY DEF Ops, PositionOps, Position
<1>2. /\ Calling(op) \in Calls /\ Calling(op).op = op /\ Calling(op).copy = Fresh
  BY <1>1, CallFacts DEF Calling
<1>3. Worker \in Callers
  BY DEF Callers
<1>4. /\ call' \in [Callers -> Calls] /\ call'[Worker] = Calling(op)
      /\ \A d \in Callers \ {Worker} : call'[d] = call[d]
  BY <1>2, <1>3, OneCall DEF OdoInv, BeginPosition
<1>5. step \in Nat
  BY <1>1, TrackerAssumption, DistFacts DEF OdoInv, Shapes
<1>6. Shapes'
  BY <1>1, <1>4, <1>5 DEF OdoInv, Shapes, BeginPosition, StageOf, Done, Unpublished
<1>7. OpsKnown'
  BY <1>1, <1>2, <1>4, TrackerAssumption DEF OdoInv, OpsKnown, BeginPosition, Callers
<1>8. ASSUME NEW s \in States \cup {Gone}, Earned(s, here, path, granted)
      PROVE  Earned(s, here', path', granted')
  BY <1>1, <1>8, EarnedByMove DEF OdoInv, Shapes, BeginPosition
<1>9. Earned(Fresh, here', path', granted')
  BY <1>6, EarnedFresh DEF Shapes
<1>10. OdometerIsEarned'
  <2>1. redis' = redis /\ row' = row
    BY DEF BeginPosition
  <2>2. Earned(redis, here', path', granted') /\ Earned(row, here', path', granted')
    BY <1>8 DEF OdoInv, Shapes, OdometerIsEarned
  <2>3. ASSUME NEW d \in Callers PROVE Earned(call'[d].copy, here', path', granted')
    <3>1. CASE d = Worker
      BY <1>2, <1>4, <1>9, <3>1
    <3>2. CASE d # Worker
      BY <1>4, <1>8, <3>2, CallMoves DEF OdoInv, OdometerIsEarned
    <3> QED
      BY <3>1, <3>2
  <2> QED
    BY <2>1, <2>2, <2>3 DEF OdometerIsEarned
<1> QED
  BY <1>6, <1>7, <1>10 DEF OdoInv

LEMMA BeginStageOdo ==
  ASSUME OdoInv, NEW n \in StageNames, BeginStage(n)
  PROVE  OdoInv'
<1>1. Plain(n) \in Ops /\ Plain(n).name \notin {"position", "reset"}
  BY DEF Ops, Plain, StageNames, StageOf
<1>2. /\ Calling(Plain(n)) \in Calls /\ Calling(Plain(n)).op = Plain(n)
      /\ Calling(Plain(n)).copy = Fresh
  BY <1>1, CallFacts DEF Calling
<1>3. Worker \in Callers
  BY DEF Callers
<1>4. /\ call' \in [Callers -> Calls] /\ call'[Worker] = Calling(Plain(n))
      /\ \A d \in Callers \ {Worker} : call'[d] = call[d]
  BY <1>2, <1>3, OneCall DEF OdoInv, BeginStage
<1>5. Shapes'
  <2>1. stage' \in 1..Done
    BY DEF BeginStage, StageNames, StageOf, Done
  <2>2. since' \in 0..path \cup {None}
    BY DEF OdoInv, Shapes, BeginStage
  <2>3. UNCHANGED <<redis, row, counter, here, path, granted, published, upsets>>
    BY DEF BeginStage
  <2> QED
    BY <1>4, <2>1, <2>2, <2>3 DEF OdoInv, Shapes
<1>6. OpsKnown'
  BY <1>1, <1>2, <1>4, TrackerAssumption DEF OdoInv, OpsKnown, BeginStage, Callers
<1>7. Earned(Fresh, here, path, granted)
  BY EarnedFresh DEF OdoInv, Shapes
<1>8. OdometerIsEarned'
  BY <1>2, <1>4, <1>7 DEF OdoInv, OdometerIsEarned, BeginStage
<1> QED
  BY <1>5, <1>6, <1>8 DEF OdoInv

LEMMA BeginOutsideOdo ==
  ASSUME OdoInv, NEW c \in Outsiders, NEW op \in OutsiderOps, BeginOutside(c, op)
  PROVE  OdoInv'
<1>1. op \in Ops /\ c \in Callers /\ c # Worker
  BY OutsiderFacts, TrackerAssumption DEF Callers
<1>2. /\ Calling(op) \in Calls /\ Calling(op).op = op /\ Calling(op).copy = Fresh
  BY <1>1, CallFacts DEF Calling
<1>3. /\ call' \in [Callers -> Calls] /\ call'[c] = Calling(op)
      /\ \A d \in Callers \ {c} : call'[d] = call[d]
  BY <1>1, <1>2, OneCall DEF OdoInv, BeginOutside
<1>4. /\ granted' \in Nat /\ granted <= granted'
      /\ op.name = "reset" => op.value <= granted'
  BY <1>1, OpFacts DEF OdoInv, Shapes, BeginOutside
<1>5. Shapes'
  <2>1. upsets' \in 0..MaxUpsets
    BY TrackerAssumption DEF OdoInv, Shapes, BeginOutside, Upset
  <2> QED
    BY <1>3, <1>4, <2>1 DEF OdoInv, Shapes, BeginOutside
<1>6. OpsKnown'
  <2>1. \A d \in Outsiders : call'[d].op \in OutsiderOps
    BY <1>2, <1>3 DEF OdoInv, OpsKnown, Callers
  <2>2. call'[Worker] = call[Worker] /\ here' = here
    BY <1>1, <1>3 DEF BeginOutside, Callers
  <2>3. ASSUME NEW d \in Callers, call'[d].op.name = "reset"
        PROVE  call'[d].op.value <= granted'
    <3>1. CASE d = c
      BY <1>2, <1>3, <1>4, <2>3, <3>1
    <3>2. CASE d # c
      <4>1. call[d].op.value <= granted /\ call[d].op.value \in Nat
        BY <1>3, <2>3, <3>2, CallMoves, OpFacts DEF OdoInv, OpsKnown
      <4> QED
        BY <1>3, <1>4, <3>2, <4>1 DEF OdoInv, Shapes
    <3> QED
      BY <3>1, <3>2
  <2> QED
    BY <2>1, <2>2, <2>3 DEF OdoInv, OpsKnown
<1>7. ASSUME NEW s \in States \cup {Gone}, Earned(s, here, path, granted)
      PROVE  Earned(s, here', path', granted')
  BY <1>4, <1>7, EarnedByGift DEF OdoInv, Shapes, BeginOutside
<1>8. Earned(Fresh, here', path', granted')
  BY <1>5, EarnedFresh DEF Shapes
<1>9. OdometerIsEarned'
  <2>1. redis' = redis /\ row' = row
    BY DEF BeginOutside
  <2>2. Earned(redis, here', path', granted') /\ Earned(row, here', path', granted')
    BY <1>7 DEF OdoInv, Shapes, OdometerIsEarned
  <2>3. ASSUME NEW d \in Callers PROVE Earned(call'[d].copy, here', path', granted')
    <3>1. CASE d = c
      BY <1>2, <1>3, <1>8, <3>1
    <3>2. CASE d # c
      BY <1>3, <1>7, <3>2, CallMoves DEF OdoInv, OdometerIsEarned
    <3> QED
      BY <3>1, <3>2
  <2> QED
    BY <2>1, <2>2, <2>3 DEF OdometerIsEarned
<1> QED
  BY <1>5, <1>6, <1>9 DEF OdoInv

LEMMA GetOdo ==
  ASSUME OdoInv, NEW c \in Callers, Get(c)
  PROVE  OdoInv'
<1>1. \/ Goto(c, Fresh, "find") /\ UNCHANGED <<stage, published>>
      \/ redis \in States /\ Return(c) /\ Answer(c, redis)
      \/ redis \in States /\ Goto(c, redis, "save") /\ UNCHANGED <<stage, published>>
  BY DEF Get, OdoInv, Shapes
<1>3. /\ call' \in [Callers -> Calls]
      /\ \A d \in Callers \ {c} : call'[d] = call[d]
      /\ call'[c] = Idle \/ (call'[c].op = call[c].op /\ call'[c].copy \in {Fresh, redis} \cap States)
  BY <1>1, GotoFacts, ReturnFacts, RecordFacts DEF OdoInv, Steps
<1>4. UNCHANGED <<redis, row, counter, here, path, granted, since, upsets>>
  BY DEF Get
<1>5. /\ stage' \in 1..Done
      /\ published'.distance \in Int /\ published'.driven \in Nat \cup {None}
  BY <1>1, AnswerFacts DEF OdoInv, Shapes
<1>6. Earned(Fresh, here, path, granted)
  BY EarnedFresh DEF OdoInv, Shapes
<1>7. /\ OpsKnown'
      /\ \A d \in Callers : Earned(call'[d].copy, here, path, granted)
  BY <1>3, <1>4, <1>6, CallsKept DEF OdoInv, OdometerIsEarned
<1> QED
  BY <1>3, <1>4, <1>5, <1>7 DEF OdoInv, Shapes, OdometerIsEarned

LEMMA FindOdo ==
  ASSUME OdoInv, NEW c \in Callers, Find(c)
  PROVE  OdoInv'
<1>1. \/ /\ row \in States /\ \E pc \in Steps : Goto(c, row, pc)
         /\ UNCHANGED <<stage, published>>
      \/ Goto(c, Fresh, "save") /\ UNCHANGED <<stage, published>>
      \/ Return(c) /\ Answer(c, Gone)
  BY DEF Find, OdoInv, Shapes, Steps
<1>3. /\ call' \in [Callers -> Calls]
      /\ \A d \in Callers \ {c} : call'[d] = call[d]
      /\ call'[c] = Idle \/ (call'[c].op = call[c].op /\ call'[c].copy \in {Fresh, row} \cap States)
  BY <1>1, GotoFacts, ReturnFacts, RecordFacts DEF OdoInv, Steps
<1>4. UNCHANGED <<redis, row, counter, here, path, granted, since, upsets>>
  BY DEF Find
<1>5. /\ stage' \in 1..Done
      /\ published'.distance \in Int /\ published'.driven \in Nat \cup {None}
  BY <1>1, AnswerFacts DEF OdoInv, Shapes
<1>6. Earned(Fresh, here, path, granted)
  BY EarnedFresh DEF OdoInv, Shapes
<1>7. /\ OpsKnown'
      /\ \A d \in Callers : Earned(call'[d].copy, here, path, granted)
  BY <1>3, <1>4, <1>6, CallsKept DEF OdoInv, OdometerIsEarned
<1> QED
  BY <1>3, <1>4, <1>5, <1>7 DEF OdoInv, Shapes, OdometerIsEarned

LEMMA FillOdo ==
  ASSUME OdoInv, NEW c \in Callers, Fill(c)
  PROVE  OdoInv'
<1> DEFINE next == IF call[c].op.name \in Reads THEN Idle ELSE Carrying(c, call[c].copy, "save")
<1>1. /\ redis' = call[c].copy /\ call' = AfterWrite(c, next) /\ since' = None
      /\ UNCHANGED <<row, counter, here, path, granted, upsets>>
  BY DEF Fill
<1>2. next \in Calls /\ (next = Idle \/ (next.op = call[c].op /\ next.copy = call[c].copy))
  BY CallMoves, CallFacts DEF OdoInv, Steps
<1> HIDE DEF next
<1>3. /\ call' \in [Callers -> Calls] /\ call'[c] = next
      /\ \A d \in Callers \ {c} : call'[d].op = call[d].op /\ call'[d].copy = call[d].copy
  BY <1>1, <1>2, WriteFacts DEF OdoInv, Shapes
<1>4. /\ stage' \in 1..Done
      /\ published'.distance \in Int /\ published'.driven \in Nat \cup {None}
  BY CallMoves, AnswerFacts DEF Fill, OdoInv, Shapes
<1>5. /\ OpsKnown'
      /\ \A d \in Callers : Earned(call'[d].copy, here, path, granted)
  BY <1>1, <1>2, <1>3, CallsKept DEF OdoInv, OdometerIsEarned
<1>6. redis' \in States /\ Earned(redis', here, path, granted)
  BY <1>1, CallMoves DEF OdoInv, OdometerIsEarned
<1> QED
  BY <1>1, <1>3, <1>4, <1>5, <1>6 DEF OdoInv, Shapes, OdometerIsEarned

LEMMA SaveOdo ==
  ASSUME OdoInv, NEW c \in Callers, Save(c)
  PROVE  OdoInv'
<1> DEFINE new  == Changed(call[c].copy, call[c].op)
           pc   == AfterSave(call[c].op.name)
           next == IF pc = "idle" THEN Idle ELSE Carrying(c, new, pc)
<1>1. /\ redis' = new /\ call' = AfterWrite(c, next) /\ since' = SinceSave(c)
      /\ UNCHANGED <<row, counter, stage, here, path, granted, published, upsets>>
  BY DEF Save
<1>2. new \in States
  BY CallMoves, ChangedFacts DEF OdoInv
<1>3. pc \in Steps
  BY DEF AfterSave, Steps
<1>4. next \in Calls /\ (next = Idle \/ (next.op = call[c].op /\ next.copy = new))
  <2> HIDE DEF new, pc
  <2> QED
    BY <1>2, <1>3, CallMoves, CallFacts DEF OdoInv
<1>5. Earned(new, here, path, granted)
  <2>1. call[c].op.name = "position" => call[c].op.place = here
    <3>1. CASE c = Worker
      BY <3>1 DEF OdoInv, OpsKnown
    <3>2. CASE c # Worker
      BY <3>2, OutsiderFacts DEF OdoInv, OpsKnown, Callers
    <3> QED
      BY <3>1, <3>2
  <2> QED
    BY <2>1, CallMoves, EarnedByChange DEF OdoInv, OpsKnown, OdometerIsEarned, Shapes
<1>6. since' \in 0..path' \cup {None}
  BY <1>1 DEF SinceSave, OdoInv, Shapes
<1> HIDE DEF new, pc, next
<1>7. /\ call' \in [Callers -> Calls] /\ call'[c] = next
      /\ \A d \in Callers \ {c} : call'[d].op = call[d].op /\ call'[d].copy = call[d].copy
  <2>1. call \in [Callers -> Calls] /\ next \in Calls
    BY <1>4 DEF OdoInv, Shapes
  <2>2. call' = AfterWrite(c, next)
    BY <1>1
  <2> QED
    BY ONLY <2>1, <2>2, WriteFacts, c \in Callers
<1>8. /\ OpsKnown'
      /\ \A d \in Callers : Earned(call'[d].copy, here, path, granted)
  BY <1>1, <1>4, <1>5, <1>7, CallsKept DEF OdoInv
<1> QED
  BY <1>1, <1>2, <1>5, <1>6, <1>7, <1>8 DEF OdoInv, Shapes, OdometerIsEarned

LEMMA SkipSaveOdo ==
  ASSUME OdoInv, NEW c \in Callers, SkipSave(c)
  PROVE  OdoInv'
<1>1. /\ call' \in [Callers -> Calls] /\ call'[c] = Idle
      /\ \A d \in Callers \ {c} : call'[d] = call[d]
  BY CallFacts, OneCall DEF OdoInv, SkipSave, Return
<1>2. UNCHANGED <<redis, row, counter, stage, here, path, granted, since, published, upsets>>
  BY DEF SkipSave
<1>3. /\ OpsKnown'
      /\ \A d \in Callers : Earned(call'[d].copy, here, path, granted)
  BY <1>1, <1>2, CallsKept DEF OdoInv, OdometerIsEarned
<1> QED
  BY <1>1, <1>2, <1>3 DEF OdoInv, Shapes, OdometerIsEarned

\* What INCR leaves: a count of one more, and the call over or at its next step.
LEMMA IncrementFacts ==
  ASSUME Shapes, NEW c \in Callers, Increment(c)
  PROVE  /\ counter' \in Counters /\ counter'.value <= counter.value + 1
         /\ \/ Return(c) /\ counter'.value < PersistEvery
            \/ Goto(c, call[c].copy, "expire") /\ counter'.value < PersistEvery
            \/ Goto(c, call[c].copy, "clear")
<1>1. PICK found \in {counter, NoCounter} :
        /\ counter' = [found EXCEPT !.value = found.value + 1]
        /\ LET pc == AfterIncr(found.value + 1)
           IN  IF pc = "idle" THEN Return(c) ELSE Goto(c, call[c].copy, pc)
  BY DEF Increment, Expirable
<1>2. found \in Counters /\ counter \in Counters /\ found.value <= counter.value
  <2>1. NoCounter \in Counters /\ NoCounter.value = 0
    BY DEF Counters, NoCounter
  <2>2. counter \in Counters /\ counter.value \in Nat
    BY DEF Shapes, Counters
  <2> QED BY <1>1, <2>1, <2>2
<1>3. counter' \in Counters /\ counter'.value = found.value + 1
  BY <1>1, <1>2 DEF Counters
<1>4. counter'.value <= counter.value + 1
  BY <1>2, <1>3 DEF Counters
<1>5. found.value + 1 \in Nat
  BY <1>2 DEF Counters
<1> QED
  BY <1>1, <1>3, <1>4, <1>5, TrackerAssumption DEF AfterIncr

LEMMA IncrementOdo ==
  ASSUME OdoInv, NEW c \in Callers, Increment(c)
  PROVE  OdoInv'
<1>1. /\ call' \in [Callers -> Calls]
      /\ \A d \in Callers \ {c} : call'[d] = call[d]
      /\ call'[c] = Idle \/ (call'[c].op = call[c].op /\ call'[c].copy = call[c].copy)
  <2>1. \/ Return(c) \/ Goto(c, call[c].copy, "expire") \/ Goto(c, call[c].copy, "clear")
    BY IncrementFacts DEF OdoInv
  <2>2. call[c].copy \in States
    BY CallMoves DEF OdoInv
  <2> QED BY <2>1, <2>2, GotoFacts, ReturnFacts DEF OdoInv, Steps
<1>2. counter' \in Counters
  BY IncrementFacts DEF OdoInv
<1>3. UNCHANGED <<redis, row, stage, here, path, granted, since, published, upsets>>
  BY DEF Increment
<1>4. /\ OpsKnown'
      /\ \A d \in Callers : Earned(call'[d].copy, here, path, granted)
  BY <1>1, <1>3, CallsKept DEF OdoInv, OdometerIsEarned
<1> QED
  BY <1>1, <1>2, <1>3, <1>4 DEF OdoInv, Shapes, OdometerIsEarned

LEMMA SetTtlOdo ==
  ASSUME OdoInv, NEW c \in Callers, SetTtl(c)
  PROVE  OdoInv'
<1>1. /\ call' \in [Callers -> Calls] /\ call'[c] = Idle
      /\ \A d \in Callers \ {c} : call'[d] = call[d]
  BY ReturnFacts DEF OdoInv, SetTtl
<1>2. counter' \in Counters
  BY DEF SetTtl, OdoInv, Shapes, Counters
<1>3. UNCHANGED <<redis, row, stage, here, path, granted, since, published, upsets>>
  BY DEF SetTtl
<1>4. /\ OpsKnown'
      /\ \A d \in Callers : Earned(call'[d].copy, here, path, granted)
  BY <1>1, <1>3, CallsKept DEF OdoInv, OdometerIsEarned
<1> QED
  BY <1>1, <1>2, <1>3, <1>4 DEF OdoInv, Shapes, OdometerIsEarned

LEMMA ClearCounterOdo ==
  ASSUME OdoInv, NEW c \in Callers, ClearCounter(c)
  PROVE  OdoInv'
<1>1. /\ call' \in [Callers -> Calls]
      /\ \A d \in Callers \ {c} : call'[d] = call[d]
      /\ call'[c].op = call[c].op /\ call'[c].copy = call[c].copy
  BY GotoFacts, CallMoves DEF OdoInv, Steps, ClearCounter
<1>2. counter' \in Counters
  BY DEF ClearCounter, Counters, NoCounter
<1>3. UNCHANGED <<redis, row, stage, here, path, granted, since, published, upsets>>
  BY DEF ClearCounter
<1>4. /\ OpsKnown'
      /\ \A d \in Callers : Earned(call'[d].copy, here, path, granted)
  BY <1>1, <1>3, CallsKept DEF OdoInv, OdometerIsEarned
<1> QED
  BY <1>1, <1>2, <1>3, <1>4 DEF OdoInv, Shapes, OdometerIsEarned

LEMMA PersistOdo ==
  ASSUME OdoInv, NEW c \in Callers, Persist(c)
  PROVE  OdoInv'
<1>1. /\ call' \in [Callers -> Calls] /\ call'[c] = Idle
      /\ \A d \in Callers \ {c} : call'[d] = call[d]
  BY CallFacts, OneCall DEF OdoInv, Persist, Return
<1>2. UNCHANGED <<redis, counter, stage, here, path, granted, since, published, upsets>>
  BY DEF Persist
<1>3. row' = AsRow(call[c].copy) /\ call[c].copy \in States
  BY CallMoves DEF OdoInv, Persist
<1>4. /\ row' \in States /\ row'.odo = call[c].copy.odo /\ row'.place = call[c].copy.place
  BY <1>3, RowFacts
<1>5. Earned(row', here, path, granted)
  BY <1>3, <1>4, RecordFacts DEF OdoInv, OdometerIsEarned, Earned
<1>6. /\ OpsKnown'
      /\ \A d \in Callers : Earned(call'[d].copy, here, path, granted)
  BY <1>1, <1>2, CallsKept DEF OdoInv, OdometerIsEarned
<1> QED
  BY <1>1, <1>2, <1>4, <1>5, <1>6 DEF OdoInv, Shapes, OdometerIsEarned

LEMMA FailOdo ==
  ASSUME OdoInv, NEW c \in Callers, Fail(c)
  PROVE  OdoInv'
<1>1. /\ call' \in [Callers -> Calls] /\ call'[c] = Idle
      /\ \A d \in Callers \ {c} : call'[d] = call[d]
  BY CallFacts, OneCall DEF OdoInv, Fail, Return
<1>2. UNCHANGED <<redis, row, counter, here, path, granted, published>>
      /\ since' \in {since, None}
  BY DEF Fail
<1>3. stage' \in 1..Done /\ upsets' \in 0..MaxUpsets
  BY TrackerAssumption DEF Fail, Upset, OdoInv, Shapes, StageOf, Done
<1>4. /\ OpsKnown'
      /\ \A d \in Callers : Earned(call'[d].copy, here, path, granted)
  BY <1>1, <1>2, CallsKept DEF OdoInv, OdometerIsEarned
<1> QED
  BY <1>1, <1>2, <1>3, <1>4 DEF OdoInv, Shapes, OdometerIsEarned

LEMMA CrashOdo ==
  ASSUME OdoInv, Crash
  PROVE  OdoInv'
<1>1. call' \in [Callers -> Calls] /\ \A c \in Callers : call'[c] = Idle
  BY CallFacts DEF Crash
<1>2. UNCHANGED <<redis, row, counter, here, path, granted, published>>
  BY DEF Crash
<1>3. stage' \in 1..Done /\ upsets' \in 0..MaxUpsets /\ since' = None
  BY TrackerAssumption DEF Crash, Upset, OdoInv, Shapes, Done
<1>4. OpsKnown'
  BY <1>1, <1>2, IdleFacts DEF OdoInv, OpsKnown, Callers
<1>5. OdometerIsEarned'
  BY <1>1, <1>2, IdleFacts, EarnedFresh DEF OdoInv, Shapes, OdometerIsEarned
<1> QED
  BY <1>1, <1>2, <1>3, <1>4, <1>5 DEF OdoInv, Shapes

LEMMA ExpireStateOdo ==
  ASSUME OdoInv, ExpireState
  PROVE  OdoInv'
<1>1. redis' = Gone /\ Earned(redis', here, path, granted)
  BY DEF ExpireState, Earned
<1>2. UNCHANGED <<row, counter, call, stage, here, path, granted, published>>
  BY DEF ExpireState
<1>3. upsets' \in 0..MaxUpsets /\ since' = None
  BY TrackerAssumption DEF ExpireState, Upset, OdoInv, Shapes
<1> QED
  BY <1>1, <1>2, <1>3 DEF OdoInv, Shapes, OpsKnown, OdometerIsEarned

LEMMA NextOdo == OdoInv /\ [Next]_vars => OdoInv'
<1> SUFFICES ASSUME OdoInv, [Next]_vars PROVE OdoInv'
  OBVIOUS
<1>1. ASSUME NEW op \in PositionOps, BeginPosition(op) PROVE OdoInv'
  BY <1>1, BeginPositionOdo
<1>2. ASSUME NEW n \in StageNames, BeginStage(n) PROVE OdoInv'
  BY <1>2, BeginStageOdo
<1>3. ASSUME NEW c \in Outsiders, NEW op \in OutsiderOps, BeginOutside(c, op) PROVE OdoInv'
  BY <1>3, BeginOutsideOdo
<1>4. ASSUME NEW c \in Callers, RemoteCall(c) PROVE OdoInv'
  BY <1>4, GetOdo, FindOdo, FillOdo, SaveOdo, SkipSaveOdo, IncrementOdo, SetTtlOdo, ClearCounterOdo, PersistOdo DEF RemoteCall
<1>5. ASSUME NEW c \in Callers, Fail(c) PROVE OdoInv'
  BY <1>5, FailOdo
<1>6. CASE UNCHANGED vars
  BY <1>6 DEF vars, OdoInv, Shapes, OpsKnown, OdometerIsEarned
<1> QED
  BY <1>1, <1>2, <1>3, <1>4, <1>5, <1>6, CrashOdo, ExpireStateOdo DEF Next

\* The counter is at its limit, or a disturbance beyond it, only while a call is
\* about to delete it; only the worker counts.
Counting == {"incr", "expire", "clear"}

CounterInv ==
  /\ OdoInv
  /\ \A c \in Outsiders : call[c].pc \notin Counting
  /\ counter.value <= PersistEvery + upsets
  /\ call[Worker].pc # "clear" => counter.value < PersistEvery + upsets

LEMMA InitCounter == Init => CounterInv
<1> SUFFICES ASSUME Init PROVE CounterInv
  OBVIOUS
<1>1. \A c \in Callers : call[c].pc = "idle"
  BY IdleFacts DEF Init
<1> QED
  BY <1>1, InitOdo, TrackerAssumption DEF Init, CounterInv, Counting, Callers, NoCounter

\* A step that leaves the counter alone and, if it abandons a counting call, is a
\* disturbance.
LEMMA CounterKept ==
  ASSUME CounterInv, OdoInv', NEW c \in Callers, counter' = counter,
         upsets' \in {upsets, upsets + 1},
         \A d \in Callers \ {c} : call'[d].pc = call[d].pc,
         call[c].pc = "clear" => upsets' = upsets + 1,
         call'[c].pc \in Counting => c = Worker
  PROVE  CounterInv'
<1>1. counter.value \in Nat /\ upsets \in Nat /\ PersistEvery \in Nat
  BY TrackerAssumption DEF CounterInv, OdoInv, Shapes, Counters
<1>2. \A d \in Outsiders : call'[d].pc \notin Counting
  BY TrackerAssumption DEF CounterInv, Callers
<1>3. call'[Worker].pc # "clear" => counter.value < PersistEvery + upsets'
  <2>1. CASE c = Worker
    BY <1>1, <2>1 DEF CounterInv
  <2>2. CASE c # Worker
    BY <1>1, <2>2 DEF CounterInv, Callers
  <2> QED BY <2>1, <2>2
<1> QED
  BY <1>1, <1>2, <1>3 DEF CounterInv

\* The calls whose steps touch neither the counter nor a counting call.
LEMMA PlainCallCounter ==
  ASSUME CounterInv, OdoInv', NEW c \in Callers,
         Get(c) \/ Find(c) \/ Fill(c) \/ Save(c) \/ SkipSave(c) \/ Persist(c)
  PROVE  CounterInv'
<1>1. UNCHANGED <<counter, upsets>> /\ call[c].pc # "clear"
  BY DEF Get, Find, Fill, Save, SkipSave, Persist, At
<1>2. \A d \in Callers \ {c} : call'[d].pc = call[d].pc
  <2>1. CASE Get(c) \/ Find(c) \/ SkipSave(c) \/ Persist(c)
    BY <2>1 DEF Get, Find, SkipSave, Persist, Goto, Return, CounterInv, OdoInv, Shapes
  <2>2. ASSUME NEW next, call' = AfterWrite(c, next), NEW d \in Callers \ {c}
        PROVE  call'[d].pc = call[d].pc
    <3>1. call[d] \in Calls
      BY DEF CounterInv, OdoInv, Shapes
    <3> QED
      BY <2>2, <3>1 DEF AfterWrite, Calls
  <2>3. CASE Fill(c) \/ Save(c)
    BY <2>2, <2>3 DEF Fill, Save
  <2> QED
    BY <2>1, <2>3
<1>3. call'[c].pc \in Counting => c = Worker
  <2> SUFFICES ASSUME call'[c].pc \in Counting PROVE c = Worker
    OBVIOUS
  <2>1. CASE Get(c) \/ Find(c) \/ SkipSave(c) \/ Persist(c)
    BY <2>1, IdleFacts
       DEF Get, Find, SkipSave, Persist, Goto, Return, Carrying, Counting, CounterInv, OdoInv, Shapes
  <2>2. CASE Fill(c)
    BY <2>2, IdleFacts DEF Fill, AfterWrite, Carrying, Counting
  <2>3. CASE Save(c)
    <3>1. call[c].op.name = "position"
      BY <2>3, IdleFacts DEF Save, AfterWrite, AfterSave, Carrying, Counting
    <3> QED
      BY <3>1, OutsiderFacts DEF CounterInv, OdoInv, OpsKnown, Callers
  <2> QED
    BY <2>1, <2>2, <2>3
<1> QED
  BY <1>1, <1>2, <1>3, CounterKept

\* The calls that count.
LEMMA CountingCallCounter ==
  ASSUME CounterInv, OdoInv', NEW c \in Callers,
         Increment(c) \/ SetTtl(c) \/ ClearCounter(c)
  PROVE  CounterInv'
<1>1. c = Worker /\ upsets' = upsets
  BY DEF CounterInv, Counting, Callers, Increment, SetTtl, ClearCounter, At
<1>2. \A d \in Callers \ {c} : call'[d] = call[d]
  <2>1. \/ Return(c)
        \/ \E pc \in {"expire", "clear", "persist"} : Goto(c, call[c].copy, pc)
    BY IncrementFacts DEF CounterInv, OdoInv, SetTtl, ClearCounter
  <2> QED
    BY <2>1 DEF CounterInv, OdoInv, Shapes, Return, Goto
<1>3. counter.value \in Nat /\ upsets \in Nat /\ PersistEvery \in Nat \ {0}
  BY TrackerAssumption DEF CounterInv, OdoInv, Shapes, Counters
<1>4. /\ counter'.value <= PersistEvery + upsets
      /\ call'[c].pc # "clear" => counter'.value < PersistEvery + upsets
  <2>1. CASE Increment(c)
    <3>1. counter'.value <= counter.value + 1 /\ counter.value < PersistEvery + upsets
      BY <1>1, <2>1, IncrementFacts DEF CounterInv, OdoInv, Increment, At
    <3>2. counter'.value \in Nat
      BY DEF OdoInv, Shapes, Counters
    <3>3. call'[c].pc = "clear" \/ counter'.value < PersistEvery
      <4>1. Goto(c, call[c].copy, "clear") \/ counter'.value < PersistEvery
        BY <2>1, IncrementFacts DEF CounterInv, OdoInv
      <4> QED
        BY <4>1 DEF CounterInv, OdoInv, Shapes, Goto, Carrying
    <3> QED
      BY <1>3, <3>1, <3>2, <3>3
  <2>2. CASE SetTtl(c)
    <3>1. counter'.value = counter.value
      BY <2>2 DEF SetTtl, CounterInv, OdoInv, Shapes, Counters
    <3> QED
      BY <1>1, <2>2, <3>1 DEF CounterInv, SetTtl, At
  <2>3. CASE ClearCounter(c)
    BY <1>3, <2>3 DEF ClearCounter, NoCounter
  <2> QED
    BY <2>1, <2>2, <2>3
<1>5. \A d \in Outsiders : call'[d].pc \notin Counting
  BY <1>1, <1>2, TrackerAssumption DEF CounterInv, Callers
<1> QED
  BY <1>1, <1>4, <1>5 DEF CounterInv

LEMMA NextCounter == CounterInv /\ [Next]_vars => CounterInv'
<1> SUFFICES ASSUME CounterInv, [Next]_vars PROVE CounterInv'
  OBVIOUS
<1>1. OdoInv'
  BY NextOdo DEF CounterInv
<1>2. Worker \in Callers
  BY DEF Callers
<1>3. ASSUME NEW op \in PositionOps, BeginPosition(op) PROVE CounterInv'
  BY <1>1, <1>2, <1>3, CounterKept DEF BeginPosition, At, CounterInv, OdoInv, Shapes
<1>4. ASSUME NEW n \in StageNames, BeginStage(n) PROVE CounterInv'
  BY <1>1, <1>2, <1>4, CounterKept DEF BeginStage, At, CounterInv, OdoInv, Shapes
<1>5. ASSUME NEW c \in Outsiders, NEW op \in OutsiderOps, BeginOutside(c, op) PROVE CounterInv'
  <2>1. c \in Callers /\ call'[c] = Calling(op) /\ \A d \in Callers \ {c} : call'[d] = call[d]
    BY <1>5 DEF BeginOutside, Callers, CounterInv, OdoInv, Shapes
  <2>2. call'[c].pc = "get" /\ call[c].pc = "idle"
    BY <1>5, <2>1 DEF Calling, BeginOutside, At
  <2> QED
    BY <1>1, <1>5, <2>1, <2>2, CounterKept DEF BeginOutside, Upset, Counting
<1>6. ASSUME NEW c \in Callers, RemoteCall(c) PROVE CounterInv'
  BY <1>1, <1>6, PlainCallCounter, CountingCallCounter DEF RemoteCall
<1>7. ASSUME NEW c \in Callers, Fail(c) PROVE CounterInv'
  <2>1. call'[c] = Idle /\ \A d \in Callers \ {c} : call'[d] = call[d]
    BY <1>7, ReturnFacts DEF Fail, CounterInv, OdoInv
  <2> QED
    BY <1>1, <1>7, <2>1, IdleFacts, CounterKept DEF Fail, Upset, Counting
<1>8. CASE Crash
  <2>1. \A c \in Callers : call'[c].pc = "idle"
    BY <1>8, IdleFacts DEF Crash
  <2>2. counter' = counter /\ upsets' = upsets + 1
    BY <1>8 DEF Crash, Upset
  <2>3. counter.value \in Nat /\ upsets \in Nat /\ PersistEvery \in Nat
    BY TrackerAssumption DEF CounterInv, OdoInv, Shapes, Counters
  <2> QED
    BY <1>1, <2>1, <2>2, <2>3 DEF CounterInv, Counting, Callers
<1>9. CASE ExpireState
  <2>1. counter' = counter /\ call' = call /\ upsets' = upsets + 1
    BY <1>9 DEF ExpireState, Upset
  <2>2. counter.value \in Nat /\ upsets \in Nat /\ PersistEvery \in Nat
    BY TrackerAssumption DEF CounterInv, OdoInv, Shapes, Counters
  <2> QED
    BY <1>1, <2>1, <2>2 DEF CounterInv
<1>10. CASE UNCHANGED vars
  BY <1>1, <1>10 DEF vars, CounterInv
<1> QED
  BY <1>3, <1>4, <1>5, <1>6, <1>7, <1>8, <1>9, <1>10 DEF Next

\* The record, its row and every copy keep their types, and a counter whose DEL
\* failed is deleted by the next position: it passes its limit by no more than
\* the disturbances there were.
THEOREM TrackerTypes == Spec => []TypeOK
<1>1. CounterInv => TypeOK
  BY DEF CounterInv, OdoInv, TypeOK
<1> QED
  BY <1>1, InitCounter, NextCounter, PTL DEF Spec

\* No interleaving of positions, outside requests, stale fills, failures,
\* crashes and lost keys makes the odometer count a metre twice.
THEOREM OdometerNeverInflated == Spec => []OdometerIsEarned
<1>1. OdoInv => OdometerIsEarned
  BY DEF OdoInv
<1> QED
  BY <1>1, InitOdo, NextOdo, PTL DEF Spec

-----------------------------------------------------------------------------
(* A call that is not stale works on the record Redis holds, and on an     *)
(* undisturbed trip the odometer, with the stretch a position under way    *)
(* has yet to add, is ahead of the anchor by what was driven.              *)

FollowsCache(x, record) ==
  /\ x.pc = "save" /\ ~x.stale /\ record # Gone => x.copy = record
  /\ x.pc \in {"find", "fill"} /\ ~x.stale => record = Gone

\* The way from the cached record's place to the tracker.
Ahead == IF redis.place = None THEN 0 ELSE Dist(redis.place, here)

OnRoad ==
  since # None => /\ redis # Gone /\ redis.anchor # None
                  /\ redis.odo + Ahead - redis.anchor = path - since
                  /\ ~Unsaved(Worker) => redis.place = here
                  /\ call[Worker].op.name # "completed"
                  /\ call[Worker].pc \notin {"find", "fill"}

Measured ==
  /\ OdoInv
  /\ \A c \in Callers : FollowsCache(call[c], redis)
  /\ OnRoad
  /\ UndisturbedTripsAreMeasured

LEMMA InitMeasured == Init => Measured
BY InitOdo, IdleFacts DEF Init, Measured, FollowsCache, OnRoad, Idle, Unpublished,
   UndisturbedTripsAreMeasured

\* The record has reached the tracker once its position is saved.
LEMMA Arrived ==
  ASSUME Shapes, redis # Gone, redis.place = here
  PROVE  Ahead = 0
BY DistFacts, RecordFacts DEF Ahead, Shapes

\* The trip is published with what was driven since its anchor.
LEMMA AnswerMeasured ==
  ASSUME Measured, NEW c \in Callers, NEW s \in States \cup {Gone}, Answer(c, s),
         since # None => s = redis
  PROVE  UndisturbedTripsAreMeasured'
<1>1. \/ published' = published
      \/ published' = Unpublished
      \/ /\ call[c].op.name = "anchor" /\ s \in States /\ s.anchor # None
         /\ published' = [distance |-> s.odo - s.anchor, driven |-> Driven]
  BY RecordFacts DEF Answer
<1>2. CASE published' = published
  BY <1>2 DEF Measured, UndisturbedTripsAreMeasured
<1>3. CASE published' = Unpublished
  BY <1>3 DEF Unpublished, UndisturbedTripsAreMeasured
<1>4. CASE /\ call[c].op.name = "anchor" /\ s \in States /\ s.anchor # None
           /\ published' = [distance |-> s.odo - s.anchor, driven |-> Driven]
  <2>1. c = Worker
    BY <1>4, OutsiderFacts DEF Measured, OdoInv, OpsKnown, Callers
  <2>2. ASSUME since # None PROVE s.odo - s.anchor = path - since
    <3>1. /\ redis \in States /\ redis.place = here
          /\ redis.odo + Ahead - redis.anchor = path - since
      BY <1>4, <2>1, <2>2 DEF Measured, OnRoad, Unsaved, OdoInv, Shapes
    <3>2. Ahead = 0
      BY <3>1, Arrived, RecordFacts DEF Measured, OdoInv
    <3>3. s = redis /\ s.odo \in Nat /\ s.anchor \in Nat
      BY <1>4, <2>2, RecordFacts
    <3> QED
      BY <3>1, <3>2, <3>3
  <2> QED
    BY <1>4, <2>2 DEF Driven, UndisturbedTripsAreMeasured
<1> QED
  BY <1>1, <1>2, <1>3, <1>4

\* A call that writes nothing and stays within what Redis holds.
LEMMA CacheKept ==
  ASSUME Measured, NEW c \in Callers, redis' = redis,
         \A d \in Callers \ {c} : call'[d] = call[d],
         FollowsCache(call'[c], redis)
  PROVE  \A d \in Callers : FollowsCache(call'[d], redis')
BY DEF Measured

\* After a write every other reader of the record is stale.
LEMMA CacheWritten ==
  ASSUME Measured, NEW c \in Callers, NEW next \in Calls, call' = AfterWrite(c, next),
         next.pc = "save" => next.copy = redis', next.pc \notin {"find", "fill"}
  PROVE  \A d \in Callers : FollowsCache(call'[d], redis')
<1>1. ASSUME NEW d \in Callers, d # c PROVE FollowsCache(call'[d], redis')
  <2>1. call \in [Callers -> Calls]
    BY DEF Measured, OdoInv, Shapes
  <2> DEFINE y == AfterWrite(c, next)[d]
  <2>2. y.pc = call[d].pc /\ (call[d].pc \in {"find", "fill", "save"} => y.stale)
    BY <1>1, <2>1, WriteFacts
  <2>3. call'[d] = y
    OBVIOUS
  <2> HIDE DEF y
  <2> QED
    BY <2>2, <2>3 DEF FollowsCache
<1>2. FollowsCache(call'[c], redis')
  BY WriteFacts DEF FollowsCache, Measured, OdoInv, Shapes
<1> QED
  BY <1>1, <1>2

\* A step beside the record that neither ends nor forgets a position under way.
LEMMA RoadKept ==
  ASSUME Measured, UNCHANGED <<redis, since, here, path>>,
         \/ since = None
         \/ call'[Worker] = Idle /\ ~Unsaved(Worker)
         \/ call'[Worker].op = call[Worker].op /\ call'[Worker].pc = call[Worker].pc
         \/ call'[Worker].op = call[Worker].op /\ call'[Worker].pc = "save" /\ call[Worker].pc = "get"
         \/ call'[Worker].op = call[Worker].op /\ ~Unsaved(Worker)
            /\ call'[Worker].pc \in {"expire", "clear", "persist"}
  PROVE  OnRoad'
BY IdleFacts DEF Measured, OnRoad, Ahead, Unsaved, Idle, Plain

LEMMA BeginPositionMeasured ==
  ASSUME Measured, NEW op \in PositionOps, BeginPosition(op)
  PROVE  Measured'
<1>1. op \in Ops /\ op.name = "position" /\ Worker \in Callers
  BY DEF Ops, PositionOps, Position, Callers
<1>2. /\ call' = [call EXCEPT ![Worker] = Calling(op)] /\ Calling(op) \in Calls
      /\ UNCHANGED <<redis, since>> /\ published' = Unpublished
      /\ here' = op.place /\ call[Worker].pc = "idle"
      /\ path' = path + (IF here = None THEN 0 ELSE Dist(here, op.place))
  BY <1>1, CallFacts DEF BeginPosition, At
<1>3. /\ call'[Worker] = Calling(op)
      /\ \A d \in Callers \ {Worker} : call'[d] = call[d]
  BY <1>1, <1>2, OneCall DEF Measured, OdoInv
<1>4. \A d \in Callers : FollowsCache(call'[d], redis')
  BY <1>1, <1>2, <1>3, CacheKept DEF FollowsCache, Calling
<1>5. ASSUME since # None
      PROVE  redis' # Gone /\ redis'.anchor # None
             /\ redis'.odo + Ahead' - redis'.anchor = path' - since
  <2>1. /\ redis \in States /\ redis.anchor # None /\ redis.place = here
        /\ redis.odo + Ahead - redis.anchor = path - since
    BY <1>2, <1>5 DEF Measured, OnRoad, Unsaved, OdoInv, Shapes
  <2>2. Ahead = 0
    BY <2>1, RecordFacts, Arrived DEF Measured, OdoInv
  <2>3. path' = path + Ahead' /\ Ahead' \in Nat
    BY <1>1, <1>2, <2>1, RecordFacts, OpFacts, DistFacts, TrackerAssumption DEF Ahead
  <2>4. /\ redis # Gone /\ redis.odo \in Nat /\ redis.anchor \in Nat
        /\ path \in Nat /\ since \in Nat /\ redis' = redis
    BY <1>2, <1>5, <2>1, RecordFacts DEF Measured, OdoInv, Shapes
  <2> QED
    BY <2>1, <2>2, <2>3, <2>4
<1>6. OnRoad'
  <2>1. Unsaved(Worker)'
    BY <1>1, <1>3 DEF Unsaved, Calling
  <2> QED
    BY <1>1, <1>2, <1>3, <1>5, <2>1 DEF OnRoad, Calling
<1>7. UndisturbedTripsAreMeasured'
  BY <1>2 DEF UndisturbedTripsAreMeasured, Unpublished
<1> QED
  BY <1>4, <1>6, <1>7, BeginPositionOdo DEF Measured

LEMMA BeginStageMeasured ==
  ASSUME Measured, NEW n \in StageNames, BeginStage(n)
  PROVE  Measured'
<1>1. Plain(n) \in Ops /\ Plain(n).name = n /\ Worker \in Callers
  BY DEF Ops, Plain, Callers
<1>2. /\ call' = [call EXCEPT ![Worker] = Calling(Plain(n))] /\ Calling(Plain(n)) \in Calls
      /\ UNCHANGED <<redis, here, path, published>> /\ call[Worker].pc = "idle"
      /\ since' = since \/ since' = None
      /\ n = "completed" => since' = None
  BY <1>1, CallFacts DEF BeginStage, At
<1>3. /\ call'[Worker] = Calling(Plain(n))
      /\ \A d \in Callers \ {Worker} : call'[d] = call[d]
  BY <1>1, <1>2, OneCall DEF Measured, OdoInv
<1>4. \A d \in Callers : FollowsCache(call'[d], redis')
  BY <1>1, <1>2, <1>3, CacheKept DEF FollowsCache, Calling
<1>5. OnRoad'
  <2>1. n # "position"
    BY DEF StageNames, StageOf
  <2> QED
    BY <1>1, <1>2, <1>3, <2>1 DEF Measured, OnRoad, Ahead, Unsaved, Calling
<1> QED
  BY <1>2, <1>4, <1>5, BeginStageOdo DEF Measured, UndisturbedTripsAreMeasured

LEMMA BeginOutsideMeasured ==
  ASSUME Measured, NEW c \in Outsiders, NEW op \in OutsiderOps, BeginOutside(c, op)
  PROVE  Measured'
<1>1. op \in Ops /\ c \in Callers /\ c # Worker /\ Worker \in Callers
  BY OutsiderFacts, TrackerAssumption DEF Callers
<1>2. /\ call' = [call EXCEPT ![c] = Calling(op)] /\ Calling(op) \in Calls
      /\ UNCHANGED <<redis, since, here, path, published>>
  BY <1>1, CallFacts DEF BeginOutside
<1>3. /\ call'[c] = Calling(op)
      /\ \A d \in Callers \ {c} : call'[d] = call[d]
  BY <1>1, <1>2, OneCall DEF Measured, OdoInv
<1>4. \A d \in Callers : FollowsCache(call'[d], redis')
  BY <1>1, <1>2, <1>3, CacheKept DEF FollowsCache, Calling
<1>5. OnRoad'
  BY <1>1, <1>2, <1>3, RoadKept
<1> QED
  BY <1>2, <1>4, <1>5, BeginOutsideOdo DEF Measured, UndisturbedTripsAreMeasured

LEMMA GetMeasured ==
  ASSUME Measured, NEW c \in Callers, Get(c)
  PROVE  Measured'
<1>1. UNCHANGED <<redis, since, here, path>> /\ Shapes /\ Worker \in Callers /\ call[c].pc = "get"
  BY DEF Get, Measured, OdoInv, Callers, At
<1>2. CASE Goto(c, Fresh, "find") /\ UNCHANGED <<stage, published>> /\ redis = Gone
  <2>1. /\ call'[c].op = call[c].op /\ call'[c].pc = "find"
        /\ \A d \in Callers \ {c} : call'[d] = call[d]
    BY <1>1, <1>2, GotoFacts, RecordFacts DEF Steps
  <2>2. \A d \in Callers : FollowsCache(call'[d], redis')
    BY <1>1, <1>2, <2>1, CacheKept DEF FollowsCache
  <2>3. OnRoad'
    BY <1>1, <1>2, <2>1, RoadKept DEF Measured, OnRoad
  <2> QED
    BY <1>1, <1>2, <2>1, <2>2, <2>3, GetOdo DEF Measured, UndisturbedTripsAreMeasured
<1>3. CASE redis \in States /\ call[c].op.name \in Reads /\ Return(c) /\ Answer(c, redis)
  <2>1. call'[c] = Idle /\ \A d \in Callers \ {c} : call'[d] = call[d]
    BY <1>1, <1>3, ReturnFacts
  <2>2. \A d \in Callers : FollowsCache(call'[d], redis')
    BY <1>1, <2>1, CacheKept DEF FollowsCache, Idle
  <2>3. UndisturbedTripsAreMeasured'
    BY <1>3, AnswerMeasured
  <2>4. ~Unsaved(c)
    BY <1>3 DEF Unsaved, Reads
  <2> QED
    BY <1>1, <2>1, <2>2, <2>3, <2>4, RoadKept, GetOdo DEF Measured
<1>4. CASE redis \in States /\ Goto(c, redis, "save") /\ UNCHANGED <<stage, published>>
  <2>1. /\ call'[c].op = call[c].op /\ call'[c].pc = "save" /\ call'[c].copy = redis
        /\ \A d \in Callers \ {c} : call'[d] = call[d]
    BY <1>1, <1>4, GotoFacts DEF Steps
  <2>2. \A d \in Callers : FollowsCache(call'[d], redis')
    BY <1>1, <2>1, CacheKept DEF FollowsCache
  <2> QED
    BY <1>1, <1>4, <2>1, <2>2, RoadKept, GetOdo DEF Measured, UndisturbedTripsAreMeasured
<1> QED
  BY <1>1, <1>2, <1>3, <1>4 DEF Get, Shapes

LEMMA FindMeasured ==
  ASSUME Measured, NEW c \in Callers, Find(c)
  PROVE  Measured'
<1>1. UNCHANGED <<redis, since, here, path>> /\ Shapes /\ Worker \in Callers /\ At(c, "find")
      /\ (c = Worker => since = None)
  BY DEF Find, Measured, OdoInv, OnRoad, Callers, At
<1>2. ~call[c].stale => redis = Gone
  BY <1>1 DEF Measured, FollowsCache, At
<1>3. ASSUME NEW s \in States, NEW pc \in {"save", "fill"}, Goto(c, s, pc),
             UNCHANGED <<stage, published>>
      PROVE  Measured'
  <2>1. /\ call'[c].op = call[c].op /\ call'[c].stale = call[c].stale
        /\ \A d \in Callers \ {c} : call'[d] = call[d]
    BY <1>1, <1>3, GotoFacts DEF Steps
  <2>2. \A d \in Callers : FollowsCache(call'[d], redis')
    BY <1>1, <1>2, <2>1, CacheKept DEF FollowsCache
  <2>3. OnRoad'
    BY <1>1, <2>1, RoadKept
  <2> QED
    BY <1>1, <1>3, <2>1, <2>2, <2>3, FindOdo DEF Measured, UndisturbedTripsAreMeasured
<1>4. CASE Return(c) /\ Answer(c, Gone)
  <2>1. call'[c] = Idle /\ \A d \in Callers \ {c} : call'[d] = call[d]
    BY <1>1, <1>4, ReturnFacts
  <2>2. \A d \in Callers : FollowsCache(call'[d], redis')
    BY <1>1, <2>1, CacheKept DEF FollowsCache, Idle
  <2>3. UndisturbedTripsAreMeasured'
    BY <1>4 DEF Answer, Measured, UndisturbedTripsAreMeasured, Unpublished
  <2> QED
    BY <1>1, <2>1, <2>2, <2>3, RoadKept, FindOdo DEF Measured
<1> QED
  BY <1>1, <1>3, <1>4, RecordFacts DEF Find, Shapes

LEMMA FillMeasured ==
  ASSUME Measured, NEW c \in Callers, Fill(c)
  PROVE  Measured'
<1> DEFINE next == IF call[c].op.name \in Reads THEN Idle ELSE Carrying(c, call[c].copy, "save")
<1>1. /\ redis' = call[c].copy /\ call' = AfterWrite(c, next) /\ since' = None
      /\ Shapes /\ At(c, "fill")
  BY DEF Fill, Measured, OdoInv
<1>2. next \in Calls /\ (next.pc = "save" => next.copy = redis') /\ next.pc \notin {"find", "fill"}
  BY <1>1, CallMoves, CallFacts DEF Steps, Idle
<1> HIDE DEF next
<1>3. \A d \in Callers : FollowsCache(call'[d], redis')
  BY <1>1, <1>2, CacheWritten
<1>4. UndisturbedTripsAreMeasured'
  <2>1. CASE c = Worker /\ Answer(c, call[c].copy)
    <3>1. since = None
      BY <1>1, <2>1 DEF Measured, OnRoad, At
    <3> QED
      BY <1>1, <2>1, <3>1, CallMoves, AnswerMeasured
  <2>2. CASE c # Worker /\ Answer(c, call[c].copy)
    <3>1. call[c].op.name # "anchor"
      BY <2>2, OutsiderFacts DEF Measured, OdoInv, OpsKnown, Callers
    <3> QED
      BY <2>2, <3>1 DEF Answer, Measured, UndisturbedTripsAreMeasured
  <2>3. CASE UNCHANGED <<stage, published>>
    BY <2>3 DEF Measured, UndisturbedTripsAreMeasured
  <2> QED
    BY <2>1, <2>2, <2>3 DEF Fill
<1> QED
  BY <1>1, <1>3, <1>4, FillOdo DEF Measured, OnRoad

LEMMA SaveMeasured ==
  ASSUME Measured, NEW c \in Callers, Save(c)
  PROVE  Measured'
<1> DEFINE new  == Changed(call[c].copy, call[c].op)
           pc   == AfterSave(call[c].op.name)
           next == IF pc = "idle" THEN Idle ELSE Carrying(c, new, pc)
<1>1. /\ redis' = new /\ call' = AfterWrite(c, next) /\ since' = SinceSave(c)
      /\ UNCHANGED <<published, here, path>> /\ Shapes /\ At(c, "save") /\ Worker \in Callers
  BY DEF Save, Measured, OdoInv, Callers
<1>2. new \in States /\ pc \in {"idle", "incr", "persist"}
  BY <1>1, CallMoves, ChangedFacts DEF AfterSave
<1>3. next \in Calls /\ next.pc \in {"idle", "incr", "persist"}
      /\ (next = Idle \/ next.op = call[c].op)
  <2> HIDE DEF new, pc
  <2> QED
    BY <1>1, <1>2, CallMoves, CallFacts DEF Steps
<1>4. \A d \in Callers : FollowsCache(call'[d], redis')
  <2> HIDE DEF new, pc, next
  <2> QED
    BY <1>1, <1>3, CacheWritten
<1>5. OnRoad'
  <2> SUFFICES ASSUME since' # None
               PROVE  /\ redis'.anchor # None
                      /\ redis'.odo + Ahead' - redis'.anchor = path - since'
                      /\ ~Unsaved(Worker)' => redis'.place = here
                      /\ call'[Worker].op.name # "completed"
                      /\ call'[Worker].pc \notin {"find", "fill"}
    BY <1>1, <1>2, RecordFacts DEF OnRoad
  <2>1. ~Disturbs(c)
    BY <1>1 DEF SinceSave
  <2>2. call[c].op.name # "reset" /\ ~call[c].stale
    BY <2>1 DEF Disturbs
  <2>3. redis'.place = here => Ahead' = 0
    BY <1>1, <1>2, DistFacts, RecordFacts DEF Ahead, Shapes
  <2>4. c = Worker => call'[Worker] = next
    <3> HIDE DEF next
    <3> QED
      BY <1>1, <1>3, WriteFacts DEF Shapes
  <2>5. c # Worker => call'[Worker].op = call[Worker].op /\ call'[Worker].pc = call[Worker].pc
    <3> HIDE DEF next
    <3> QED
      BY <1>1, <1>3, WriteFacts DEF Shapes
  <2>6. CASE call[c].op.name = "started"
    <3>1. c = Worker
      BY <2>6, OutsiderFacts DEF Measured, OdoInv, OpsKnown, Callers
    <3>2. since' = path /\ call[c].copy.place = here
      BY <1>1, <2>1, <2>6 DEF SinceSave
    <3>3. /\ redis'.anchor = call[c].copy.odo /\ redis'.odo = call[c].copy.odo
          /\ redis'.place = here
      BY <1>1, <2>6, <3>2, CallMoves, ChangedFacts
    <3>4. next.pc = "idle" /\ next.op.name # "completed"
      BY <2>6 DEF AfterSave, Persists, Idle, Plain
    <3> HIDE DEF next
    <3>5. redis'.odo + Ahead' - redis'.anchor = path - since'
      BY <1>1, <2>3, <3>2, <3>3, CallMoves, RecordFacts DEF Shapes
    <3>6. redis'.anchor # None
      BY <1>1, <3>3, CallMoves, RecordFacts
    <3> QED
      BY <2>4, <3>1, <3>3, <3>4, <3>5, <3>6
  <2>7. CASE call[c].op.name # "started"
    <3>1. /\ since' = since /\ redis # Gone /\ redis.anchor # None
          /\ redis.odo + Ahead - redis.anchor = path - since
          /\ ~Unsaved(Worker) => redis.place = here
          /\ call[Worker].op.name # "completed"
          /\ call[Worker].pc \notin {"find", "fill"}
      BY <1>1, <2>1, <2>7 DEF SinceSave, Measured, OnRoad
    <3>2. call[c].copy = redis /\ redis \in States
      BY <1>1, <2>2, <3>1 DEF Measured, FollowsCache, At, Shapes
    <3>3. call[c].op.name # "completed" /\ (call[c].op.name = "position" => c = Worker)
      BY <3>1, OutsiderFacts DEF Measured, OdoInv, OpsKnown, Callers
    <3>4. redis'.anchor = redis.anchor
      BY <1>1, <2>7, <3>2, <3>3, CallMoves, ChangedFacts
    <3>5. call'[Worker].op.name # "completed" /\ call'[Worker].pc \notin {"find", "fill"}
      <4> HIDE DEF next
      <4> QED
        BY <1>3, <2>4, <2>5, <3>1, <3>3, IdleFacts
    <3>6. CASE call[c].op.name = "position"
      <4>1. c = Worker /\ call[c].op.place = here /\ ~call[c].op.jump
        BY <2>1, <3>3, <3>6 DEF Disturbs, Measured, OdoInv, OpsKnown
      <4>2. redis'.odo = redis.odo + Ahead /\ redis'.place = here
        BY <1>1, <3>2, <3>6, <4>1, CallMoves, ChangedFacts DEF Delta, Ahead
      <4>3. Ahead \in Nat
        BY <1>1, <3>2, <3>6, <4>1, CallMoves, DeltaFacts DEF Delta, Ahead
      <4>4. redis'.odo + Ahead' - redis'.anchor = path - since'
        BY <2>3, <3>1, <3>2, <3>4, <4>2, <4>3, RecordFacts
      <4> QED
        BY <3>1, <3>4, <3>5, <4>2, <4>4
    <3>7. CASE call[c].op.name # "position"
      <4>1. redis'.odo = redis.odo /\ redis'.place = redis.place
        BY <1>1, <2>2, <3>2, <3>7, CallMoves, ChangedFacts
      <4>2. Ahead' = Ahead
        BY <1>1, <4>1 DEF Ahead
      <4>3. ~Unsaved(Worker)' => ~Unsaved(Worker)
        <5>1. CASE c = Worker
          BY <3>7, <5>1 DEF Unsaved
        <5>2. CASE c # Worker
          BY <2>5, <5>2 DEF Unsaved
        <5> QED
          BY <5>1, <5>2
      <4> QED
        BY <3>1, <3>4, <3>5, <4>1, <4>2, <4>3
    <3> QED
      BY <3>6, <3>7
  <2> QED
    BY <2>6, <2>7
<1> QED
  BY <1>1, <1>4, <1>5, SaveOdo DEF Measured, UndisturbedTripsAreMeasured

\* The calls that end, or write the row or the counter.
LEMMA QuietMeasured ==
  ASSUME Measured, NEW c \in Callers, OdoInv',
         UNCHANGED <<redis, here, path, published>>,
         since' = None \/ (since' = since /\ ~Unsaved(c)),
         \/ Return(c)
         \/ \E pc \in {"expire", "clear", "persist"} : Goto(c, call[c].copy, pc)
  PROVE  Measured'
<1>1. Shapes /\ call[c] \in Calls /\ call[c].copy \in States /\ Worker \in Callers
  BY CallMoves DEF Measured, OdoInv, Callers
<1>2. CASE Return(c)
  <2>1. call'[c] = Idle /\ \A d \in Callers \ {c} : call'[d] = call[d]
    BY <1>1, <1>2, ReturnFacts
  <2>2. \A d \in Callers : FollowsCache(call'[d], redis')
    BY <2>1, CacheKept DEF FollowsCache, Idle
  <2>3. OnRoad'
    BY <1>1, <2>1, RoadKept DEF OnRoad
  <2> QED
    BY <2>2, <2>3 DEF Measured, UndisturbedTripsAreMeasured
<1>3. ASSUME NEW pc \in {"expire", "clear", "persist"}, Goto(c, call[c].copy, pc)
      PROVE  Measured'
  <2>1. /\ call'[c].op = call[c].op /\ call'[c].pc \in {"expire", "clear", "persist"}
        /\ \A d \in Callers \ {c} : call'[d] = call[d]
    BY <1>1, <1>3, GotoFacts DEF Steps
  <2>2. \A d \in Callers : FollowsCache(call'[d], redis')
    BY <2>1, CacheKept DEF FollowsCache
  <2>3. OnRoad'
    BY <1>1, <2>1, RoadKept DEF OnRoad
  <2> QED
    BY <2>2, <2>3 DEF Measured, UndisturbedTripsAreMeasured
<1> QED
  BY <1>2, <1>3

LEMMA NextMeasured == Measured /\ [Next]_vars => Measured'
<1> SUFFICES ASSUME Measured, [Next]_vars PROVE Measured'
  OBVIOUS
<1>1. OdoInv'
  BY NextOdo DEF Measured
<1>2. ASSUME NEW op \in PositionOps, BeginPosition(op) PROVE Measured'
  BY <1>2, BeginPositionMeasured
<1>3. ASSUME NEW n \in StageNames, BeginStage(n) PROVE Measured'
  BY <1>3, BeginStageMeasured
<1>4. ASSUME NEW c \in Outsiders, NEW op \in OutsiderOps, BeginOutside(c, op) PROVE Measured'
  BY <1>4, BeginOutsideMeasured
<1>5. ASSUME NEW c \in Callers, RemoteCall(c) PROVE Measured'
  <2>1. CASE Get(c) \/ Find(c) \/ Fill(c) \/ Save(c)
    BY <2>1, GetMeasured, FindMeasured, FillMeasured, SaveMeasured
  <2>2. CASE SkipSave(c) \/ Persist(c)
    BY <1>1, <2>2, QuietMeasured DEF SkipSave, Persist, Unsaved, At
  <2>3. CASE Increment(c) \/ SetTtl(c) \/ ClearCounter(c)
    <3>1. Return(c) \/ \E pc \in {"expire", "clear", "persist"} : Goto(c, call[c].copy, pc)
      BY <2>3, IncrementFacts DEF SetTtl, ClearCounter, Measured, OdoInv
    <3>2. UNCHANGED <<redis, here, path, since, published>> /\ ~Unsaved(c)
      BY <2>3, IncrementFacts DEF Increment, SetTtl, ClearCounter, Unsaved, At
    <3> QED
      BY <1>1, <3>1, <3>2, QuietMeasured
  <2> QED
    BY <1>5, <2>1, <2>2, <2>3 DEF RemoteCall
<1>6. ASSUME NEW c \in Callers, Fail(c) PROVE Measured'
  BY <1>1, <1>6, QuietMeasured DEF Fail
<1>7. CASE Crash
  BY <1>1, <1>7, IdleFacts DEF Crash, Measured, FollowsCache, OnRoad, Idle,
     UndisturbedTripsAreMeasured
<1>8. CASE ExpireState
  BY <1>1, <1>8 DEF ExpireState, Measured, FollowsCache, OnRoad, UndisturbedTripsAreMeasured
<1>9. CASE UNCHANGED vars
  <2>1. OnRoad'
    BY <1>9, RoadKept DEF vars
  <2> QED
    BY <1>1, <1>9, <2>1 DEF vars, Measured, FollowsCache, UndisturbedTripsAreMeasured
<1> QED
  BY <1>2, <1>3, <1>4, <1>5, <1>6, <1>7, <1>8, <1>9 DEF Next

\* A trip no stale write, reset, lost key or failure disturbed is published with
\* every metre driven since it began.
THEOREM TripsAreMeasured == Spec => []UndisturbedTripsAreMeasured
<1>1. Measured => UndisturbedTripsAreMeasured
  BY DEF Measured
<1> QED
  BY <1>1, InitMeasured, NextMeasured, PTL DEF Spec

Forgets == redis # Gone /\ redis' # Gone /\ redis'.odo < redis.odo
Excused(c) == call'[c] # call[c] /\ (call[c].stale \/ call[c].op.name = "reset")

LEMMA FillForgets ==
  ASSUME Measured, NEW c \in Callers, Fill(c), Forgets
  PROVE  Excused(c)
<1> DEFINE next == IF call[c].op.name \in Reads THEN Idle ELSE Carrying(c, call[c].copy, "save")
<1>1. call' = AfterWrite(c, next) /\ Shapes /\ call[c].pc = "fill"
  BY DEF Fill, Measured, OdoInv, At
<1>2. next \in Calls /\ next.pc # "fill"
  BY <1>1, CallMoves, CallFacts DEF Steps, Idle
<1> HIDE DEF next
<1>3. call'[c] # call[c]
  BY <1>1, <1>2, WriteFacts DEF Shapes
<1>4. call[c].stale
  BY <1>1 DEF Measured, FollowsCache, Forgets
<1> QED
  BY <1>3, <1>4 DEF Excused

LEMMA SaveForgets ==
  ASSUME Measured, NEW c \in Callers, Save(c), Forgets
  PROVE  Excused(c)
<1> DEFINE new  == Changed(call[c].copy, call[c].op)
           pc   == AfterSave(call[c].op.name)
           next == IF pc = "idle" THEN Idle ELSE Carrying(c, new, pc)
<1>1. redis' = new /\ call' = AfterWrite(c, next) /\ Shapes /\ call[c].pc = "save"
  BY DEF Save, Measured, OdoInv, At
<1>2. new \in States /\ pc \in {"idle", "incr", "persist"}
  BY <1>1, CallMoves, ChangedFacts DEF AfterSave
<1>3. next \in Calls /\ next.pc # "save"
  <2> HIDE DEF new, pc
  <2> QED
    BY <1>1, <1>2, CallMoves, CallFacts DEF Steps, Idle
<1>4. call'[c] # call[c]
  <2> HIDE DEF next
  <2> QED
    BY <1>1, <1>3, WriteFacts DEF Shapes
<1>5. ASSUME ~call[c].stale PROVE call[c].op.name = "reset"
  <2>1. call[c].copy = redis /\ redis \in States
    BY <1>1, <1>5 DEF Measured, FollowsCache, Forgets, Shapes
  <2>2. CASE call[c].op.name = "position"
    <3>1. redis'.odo = redis.odo + Delta(redis, call[c].op) /\ Delta(redis, call[c].op) \in Nat
      BY <1>1, <2>1, <2>2, CallMoves, ChangedFacts, DeltaFacts
    <3> QED
      BY <2>1, <3>1, RecordFacts DEF Forgets
  <2>3. CASE call[c].op.name \notin {"position", "reset"}
    <3>1. redis'.odo = redis.odo
      BY <1>1, <2>1, <2>3, CallMoves, ChangedFacts
    <3> QED
      BY <2>1, <3>1, RecordFacts DEF Forgets
  <2> QED
    BY <2>2, <2>3
<1> QED
  BY <1>4, <1>5 DEF Excused

\* While Redis holds the record, only a reset or a write of a record read too
\* early takes metres back from the odometer.
THEOREM OdometerForgetsWhenStale == Spec => OnlyStaleWritesForget
<1>1. ASSUME Measured, [Next]_vars
      PROVE  [(redis # Gone /\ redis' # Gone /\ redis'.odo < redis.odo)
                => \E c \in Callers : /\ call'[c] # call[c]
                                      /\ call[c].stale \/ call[c].op.name = "reset"]_vars
  <2> SUFFICES ASSUME Next, Forgets PROVE \E c \in Callers : Excused(c)
    BY <1>1 DEF Forgets, Excused
  <2>1. ASSUME NEW c \in Callers, Fill(c) \/ Save(c) PROVE Excused(c)
    BY <1>1, <2>1, FillForgets, SaveForgets
  <2>2. ASSUME UNCHANGED redis PROVE FALSE
    <3>1. redis \in States
      BY <1>1 DEF Measured, OdoInv, Shapes, Forgets
    <3> QED
      BY <2>2, <3>1, RecordFacts DEF Forgets
  <2>3. ASSUME NEW op \in PositionOps, BeginPosition(op) PROVE UNCHANGED redis
    BY <2>3 DEF BeginPosition
  <2>4. ASSUME NEW n \in StageNames, BeginStage(n) PROVE UNCHANGED redis
    BY <2>4 DEF BeginStage
  <2>5. ASSUME NEW c \in Outsiders, NEW op \in OutsiderOps, BeginOutside(c, op) PROVE UNCHANGED redis
    BY <2>5 DEF BeginOutside
  <2>6. ASSUME NEW c \in Callers, RemoteCall(c)
        PROVE  UNCHANGED redis \/ Fill(c) \/ Save(c)
    BY <2>6 DEF RemoteCall, Get, Find, SkipSave, Increment, SetTtl, ClearCounter, Persist
  <2>7. ASSUME NEW c \in Callers, Fail(c) PROVE UNCHANGED redis
    BY <2>7 DEF Fail
  <2>8. Crash => UNCHANGED redis
    BY DEF Crash
  <2>9. ~ExpireState
    BY DEF ExpireState, Forgets
  <2> QED
    BY <2>1, <2>2, <2>3, <2>4, <2>5, <2>6, <2>7, <2>8, <2>9 DEF Next
<1>2. Spec => []Measured
  BY InitMeasured, NextMeasured, PTL DEF Spec
<1> QED
  BY <1>1, <1>2, PTL DEF OnlyStaleWritesForget, Spec

-----------------------------------------------------------------------------
(* A negative trip.  The anchor and the odometer change and travel in one  *)
(* record, so the only thing that can part them is the operation that sets *)
(* one and not the other.                                                  *)

LEMMA BehindFacts ==
  /\ ~Behind(Gone) /\ ~Behind(Fresh)
  /\ \A s \in States : ~Behind(s) => ~Behind(AsRow(s))
  /\ \A s \in States, op \in Ops :
       ~Behind(s) /\ op.name # "reset" => ~Behind(Changed(s, op))
<1>1. ~Behind(Gone) /\ ~Behind(Fresh)
  BY DEF Behind, Fresh
<1>2. ASSUME NEW s \in States, ~Behind(s) PROVE ~Behind(AsRow(s))
  <2>1. /\ AsRow(s).odo = s.odo /\ s.odo \in Nat
        /\ AsRow(s).anchor = IF s.anchor = None THEN 0 ELSE s.anchor
    BY RecordFacts, RowFacts DEF AsRow, States
  <2> QED
    BY <1>2, <2>1, RecordFacts DEF Behind
<1>3. ASSUME NEW s \in States, NEW op \in Ops, ~Behind(s), op.name # "reset"
      PROVE  ~Behind(Changed(s, op))
  <2>1. s.odo \in Nat /\ s.anchor \in Nat \cup {None} /\ s # Gone
    BY RecordFacts
  <2>2. CASE op.name = "position"
    <3>1. /\ Changed(s, op).odo = s.odo + Delta(s, op) /\ Delta(s, op) \in Nat
          /\ Changed(s, op).anchor = s.anchor
      BY <2>2, ChangedFacts, DeltaFacts
    <3> QED
      BY <1>3, <2>1, <3>1 DEF Behind
  <2>3. CASE op.name = "started"
    BY <2>1, <2>3, ChangedFacts DEF Behind
  <2>4. CASE op.name = "completed"
    <3>1. Changed(s, op).anchor = None
      BY <2>4 DEF Changed, States
    <3> QED
      BY <3>1 DEF Behind
  <2>5. CASE op.name \notin {"position", "started", "completed", "reset"}
    BY <1>3, <2>1, <2>5, ChangedFacts DEF Behind
  <2> QED
    BY <1>3, <2>2, <2>3, <2>4, <2>5
<1> QED
  BY <1>1, <1>2, <1>3

LEMMA AnswerBehind ==
  ASSUME Shapes, ~NegativeTrip, NEW c \in Callers, NEW s \in States \cup {Gone},
         ~Behind(s), Answer(c, s)
  PROVE  ~(published'.distance < 0)
<1>1. \/ published' = published
      \/ published' = Unpublished
      \/ /\ s \in States /\ s.anchor # None
         /\ published' = [distance |-> s.odo - s.anchor, driven |-> Driven]
  BY RecordFacts DEF Answer
<1>2. ASSUME s \in States, s.anchor # None PROVE ~(s.odo - s.anchor < 0)
  BY <1>2, RecordFacts DEF Behind
<1> QED
  BY <1>1, <1>2 DEF NegativeTrip, Unpublished

\* A step after which nothing new is behind its anchor.
LEMMA StillNotNegative ==
  ASSUME ~NegativeTrip, NEW c \in Callers, ~(published'.distance < 0),
         redis' = redis \/ ~Behind(redis'), row' = row \/ ~Behind(row'),
         \A d \in Callers \ {c} : call'[d].copy = call[d].copy,
         ~Behind(call'[c].copy)
  PROVE  ~NegativeTrip'
BY DEF NegativeTrip

\* A write of a record that is not behind its anchor.
LEMMA WriteNotNegative ==
  ASSUME Shapes, ~NegativeTrip, NEW c \in Callers, NEW s \in States, NEW next \in Calls,
         ~Behind(s), redis' = s, row' = row, call' = AfterWrite(c, next),
         next = Idle \/ next.copy = s, ~(published'.distance < 0)
  PROVE  ~NegativeTrip'
<1>1. /\ call'[c] = next
      /\ \A d \in Callers \ {c} : call'[d].copy = call[d].copy
  BY WriteFacts DEF Shapes
<1>2. ~Behind(next.copy)
  BY IdleFacts, BehindFacts
<1> QED
  BY <1>1, <1>2, StillNotNegative

LEMMA RemoteCallNotNegative ==
  ASSUME OdoInv, ~NegativeTrip, NEW c \in Callers, RemoteCall(c),
         ~(call[c].op.name = "reset" /\ At(c, "save") /\ call'[c] # call[c])
  PROVE  ~NegativeTrip'
<1>1. /\ Shapes /\ call[c] \in Calls /\ call[c].op \in Ops /\ call[c].copy \in States
      /\ ~Behind(redis) /\ ~Behind(row) /\ ~Behind(call[c].copy)
      /\ ~(published.distance < 0)
  BY CallMoves DEF OdoInv, NegativeTrip
<1>2. ASSUME UNCHANGED redis, row' = row \/ ~Behind(row'), ~(published'.distance < 0),
             Return(c) \/ \E s \in States, pc \in Steps : Goto(c, s, pc) /\ ~Behind(s)
      PROVE  ~NegativeTrip'
  <2>1. ~Behind(call'[c].copy) /\ \A d \in Callers \ {c} : call'[d] = call[d]
    BY <1>1, <1>2, ReturnFacts, GotoFacts, IdleFacts, BehindFacts
  <2> QED
    BY <1>2, <2>1, StillNotNegative
<1>3. CASE Get(c)
  <2>1. /\ UNCHANGED <<redis, row>>
        /\ \/ Goto(c, Fresh, "find") /\ UNCHANGED published
           \/ Return(c) /\ Answer(c, redis)
           \/ redis # Gone /\ Goto(c, redis, "save") /\ UNCHANGED published
    BY <1>3 DEF Get
  <2>2. ~(published'.distance < 0)
    BY <1>1, <2>1, AnswerBehind DEF Shapes
  <2>3. Return(c) \/ \E s \in States, pc \in Steps : Goto(c, s, pc) /\ ~Behind(s)
    BY <1>1, <2>1, RecordFacts, BehindFacts DEF Steps, Shapes
  <2> QED
    BY <1>2, <2>1, <2>2, <2>3
<1>4. CASE Find(c)
  <2>1. /\ UNCHANGED <<redis, row>>
        /\ \/ /\ row # Gone /\ UNCHANGED published
              /\ Goto(c, row, "save") \/ Goto(c, row, "fill")
           \/ Goto(c, Fresh, "save") /\ UNCHANGED published
           \/ Return(c) /\ Answer(c, Gone)
    BY <1>4 DEF Find
  <2>2. ~(published'.distance < 0)
    BY <1>1, <2>1, AnswerBehind, BehindFacts
  <2>3. Return(c) \/ \E s \in States, pc \in Steps : Goto(c, s, pc) /\ ~Behind(s)
    BY <1>1, <2>1, RecordFacts, BehindFacts DEF Steps, Shapes
  <2> QED
    BY <1>2, <2>1, <2>2, <2>3
<1>5. CASE Fill(c)
  <2> DEFINE next == IF call[c].op.name \in Reads THEN Idle ELSE Carrying(c, call[c].copy, "save")
  <2>1. /\ redis' = call[c].copy /\ row' = row /\ call' = AfterWrite(c, next)
        /\ Answer(c, call[c].copy) \/ UNCHANGED published
    BY <1>5 DEF Fill
  <2>2. next \in Calls /\ (next = Idle \/ next.copy = call[c].copy)
    BY <1>1, CallMoves, CallFacts DEF Steps
  <2>3. ~(published'.distance < 0)
    BY <1>1, <2>1, AnswerBehind
  <2> HIDE DEF next
  <2> QED
    BY <1>1, <2>1, <2>2, <2>3, WriteNotNegative
<1>6. CASE Save(c)
  <2> DEFINE new  == Changed(call[c].copy, call[c].op)
             pc   == AfterSave(call[c].op.name)
             next == IF pc = "idle" THEN Idle ELSE Carrying(c, new, pc)
  <2>1. /\ redis' = new /\ row' = row /\ call' = AfterWrite(c, next)
        /\ UNCHANGED published /\ At(c, "save")
    BY <1>6 DEF Save
  <2>2. new \in States /\ pc \in {"idle", "incr", "persist"}
    BY <1>1, ChangedFacts DEF AfterSave
  <2>3. next \in Calls /\ next.pc # "save" /\ (next = Idle \/ next.copy = new)
    <3> HIDE DEF new, pc
    <3> QED
      BY <1>1, <2>2, CallMoves, CallFacts, IdleFacts DEF Steps
  <2>4. call'[c] # call[c]
    <3> HIDE DEF next
    <3> QED
      BY <1>1, <2>1, <2>3, WriteFacts DEF Shapes, At
  <2>5. ~Behind(new)
    BY <1>1, <2>1, <2>4, BehindFacts
  <2> HIDE DEF new, next
  <2> QED
    BY <1>1, <2>1, <2>2, <2>3, <2>5, WriteNotNegative
<1>7. CASE SkipSave(c)
  BY <1>1, <1>2, <1>7 DEF SkipSave
<1>8. CASE Increment(c) \/ SetTtl(c) \/ ClearCounter(c)
  <2>1. Return(c) \/ \E pc \in {"expire", "clear", "persist"} : Goto(c, call[c].copy, pc)
    BY <1>1, <1>8, IncrementFacts DEF SetTtl, ClearCounter, OdoInv
  <2>2. UNCHANGED <<redis, row, published>>
    BY <1>8 DEF Increment, SetTtl, ClearCounter
  <2> QED
    BY <1>1, <1>2, <2>1, <2>2 DEF Steps
<1>9. CASE Persist(c)
  BY <1>1, <1>2, <1>9, BehindFacts DEF Persist
<1> QED
  BY <1>3, <1>4, <1>5, <1>6, <1>7, <1>8, <1>9 DEF RemoteCall

LEMMA OthersNotNegative ==
  ASSUME OdoInv, ~NegativeTrip,
         \/ \E op \in PositionOps : BeginPosition(op)
         \/ \E n \in StageNames : BeginStage(n)
         \/ \E c \in Outsiders, op \in OutsiderOps : BeginOutside(c, op)
         \/ \E c \in Callers : Fail(c)
         \/ Crash \/ ExpireState
  PROVE  ~NegativeTrip'
<1>1. Shapes /\ ~(published.distance < 0) /\ Worker \in Callers
  BY DEF OdoInv, NegativeTrip, Callers
<1>2. ASSUME NEW c \in Callers, NEW x \in Calls, ~Behind(x.copy),
             call' = [call EXCEPT ![c] = x], UNCHANGED <<redis, row>>,
             published' \in {published, Unpublished}
      PROVE  ~NegativeTrip'
  <2>1. call'[c] = x /\ \A d \in Callers \ {c} : call'[d] = call[d]
    BY <1>1, <1>2, OneCall
  <2> QED
    BY <1>1, <1>2, <2>1, StillNotNegative DEF Unpublished
<1>3. \A op \in Ops : Calling(op) \in Calls /\ ~Behind(Calling(op).copy)
  BY CallFacts, BehindFacts DEF Calling
<1>4. ASSUME NEW op \in PositionOps, BeginPosition(op) PROVE ~NegativeTrip'
  BY <1>1, <1>2, <1>3, <1>4 DEF BeginPosition, Ops
<1>5. ASSUME NEW n \in StageNames, BeginStage(n) PROVE ~NegativeTrip'
  BY <1>1, <1>2, <1>3, <1>5 DEF BeginStage, Ops
<1>6. ASSUME NEW c \in Outsiders, NEW op \in OutsiderOps, BeginOutside(c, op)
      PROVE  ~NegativeTrip'
  BY <1>2, <1>3, <1>6 DEF BeginOutside, Ops, Callers
<1>7. ASSUME NEW c \in Callers, Fail(c) PROVE ~NegativeTrip'
  BY <1>2, <1>7, CallFacts, IdleFacts, BehindFacts DEF Fail, Return
<1>8. CASE Crash
  BY <1>8, IdleFacts, BehindFacts DEF Crash, NegativeTrip
<1>9. CASE ExpireState
  BY <1>9, BehindFacts DEF ExpireState, NegativeTrip
<1> QED
  BY <1>4, <1>5, <1>6, <1>7, <1>8, <1>9

\* Whatever goes stale, is lost or crashes, only resetOdometer can give a trip a
\* negative distance.
THEOREM NegativeTripsNeedResets == Spec => OnlyResetsMakeTripsNegative
<1>1. ASSUME OdoInv, [Next]_vars
      PROVE  [(NegativeTrip' /\ ~NegativeTrip)
                => \E c \in Callers : /\ call[c].op.name = "reset" /\ At(c, "save")
                                      /\ call'[c] # call[c]]_vars
  BY <1>1, RemoteCallNotNegative, OthersNotNegative DEF Next
<1>2. Spec => []OdoInv
  BY InitOdo, NextOdo, PTL DEF Spec
<1> QED
  BY <1>1, <1>2, PTL DEF OnlyResetsMakeTripsNegative, Spec

=============================================================================
