------------------------- MODULE DeviceQueue_proofs -------------------------
(***************************************************************************)
(* Mutual exclusion, no lost wakeup and first-in-first-out order of the    *)
(* per-device queues, for any devices and any number of items.  The        *)
(* invariant says how the numbers of the items handled, in progress and    *)
(* waiting continue each other, and that every queue object the cleanup    *)
(* task forgot is quiet.                                                   *)
(***************************************************************************)
EXTENDS DeviceQueue, SequenceTheorems, TLAPS

USE DeviceAssumption

\* Nothing waits and no loop runs.
Quiet(q) == q.queue = << >> /\ ~q.processing /\ q.running = {}

\* Item h + 1 is in progress, the ones up to s wait behind it in order.
Busy(q, h, s) ==
  /\ q.processing /\ q.running = {h + 1}
  /\ s = h + 1 + Len(q.queue)
  /\ \A i \in 1..Len(q.queue) : q.queue[i] = h + 1 + i

\* A queue object of which h items are handled and s were enqueued.
Consistent(q, h, s) == (Quiet(q) /\ s = h) \/ Busy(q, h, s)

DeviceInv(d) ==
  /\ \A k \in 1..Len(pool[d]) : k # queues[d] => Quiet(pool[d][k])
  /\ queues[d] # 0 => Consistent(pool[d][queues[d]], Len(handled[d]), submitted[d])
  /\ queues[d] = 0 => submitted[d] = Len(handled[d])

IInv == TypeOK /\ \A d \in Devices : DeviceInv(d)

-----------------------------------------------------------------------------
(* Queue objects.                                                          *)

\* Handled and enqueued items leave room for the objects' own numbers.
LEMMA ShiftFacts ==
  ASSUME NEW q \in QueueObjects, NEW h \in Nat, NEW s \in Nat,
         q.running = {}, s = h + Len(q.queue), q.queue # << >>, s <= MaxItems,
         \A i \in 1..Len(q.queue) : q.queue[i] = h + i
  PROVE  ShiftItem(q) \in QueueObjects /\ Busy(ShiftItem(q), h, s)
<1>1. q.queue \in Seq(Items) /\ Head(q.queue) = h + 1 /\ Head(q.queue) \in Items
  BY DEF QueueObjects
<1>2. /\ Tail(q.queue) \in Seq(Items)
      /\ Len(Tail(q.queue)) = Len(q.queue) - 1
      /\ \A i \in 1..Len(Tail(q.queue)) : Tail(q.queue)[i] = q.queue[i + 1]
  BY <1>1, HeadTailProperties
<1>3. /\ ShiftItem(q).queue = Tail(q.queue) /\ ShiftItem(q).processing = TRUE
      /\ ShiftItem(q).running = {h + 1}
      /\ ShiftItem(q) \in QueueObjects
  BY <1>1, <1>2 DEF ShiftItem, QueueObjects
<1>6. Len(q.queue) \in Nat
  BY <1>1, LenProperties
<1>4. \A i \in 1..Len(Tail(q.queue)) : Tail(q.queue)[i] = h + 1 + i
  BY <1>2, <1>6
<1>5. s = h + 1 + Len(Tail(q.queue))
  <2> DEFINE all == Len(q.queue)
             left == Len(Tail(q.queue))
  <2>1. all \in Nat /\ left = all - 1 /\ s = h + all
    BY <1>2, <1>6
  <2> HIDE DEF all, left
  <2>2. s = h + 1 + left
    BY <2>1
  <2> QED BY <2>2 DEF left
<1> QED BY <1>3, <1>4, <1>5 DEF Busy

\* add keeps the order: the new item goes behind those that wait.
LEMMA AddFacts ==
  ASSUME NEW q \in QueueObjects, NEW h \in Nat, NEW s \in Nat,
         Consistent(q, h, s), s < MaxItems
  PROVE  Add(q, s + 1) \in QueueObjects /\ Busy(Add(q, s + 1), h, s + 1)
<1> DEFINE r == Push(q, s + 1)
<1>1. q.queue \in Seq(Items) /\ s + 1 \in Items /\ Len(q.queue) \in Nat
  BY LenProperties DEF QueueObjects, Items
<1>2. /\ Append(q.queue, s + 1) \in Seq(Items)
      /\ Len(Append(q.queue, s + 1)) = Len(q.queue) + 1
      /\ \A i \in 1..Len(q.queue) : Append(q.queue, s + 1)[i] = q.queue[i]
      /\ Append(q.queue, s + 1)[Len(q.queue) + 1] = s + 1
  BY <1>1, AppendProperties
<1>3. /\ r \in QueueObjects
      /\ r.queue = Append(q.queue, s + 1)
      /\ r.processing = q.processing /\ r.running = q.running
  BY <1>2 DEF Push, QueueObjects
<1> HIDE DEF r
<1>4. CASE Quiet(q) /\ s = h
  <2>1. Len(q.queue) = 0 /\ ~r.processing /\ r.running = {}
    BY <1>3, <1>4 DEF Quiet
  <2>2. /\ Len(r.queue) = 1 /\ r.queue # << >>
        /\ \A i \in 1..Len(r.queue) : r.queue[i] = h + i
    BY <1>2, <1>3, <1>4, <2>1
  <2>3. ShiftItem(r) \in QueueObjects /\ Busy(ShiftItem(r), h, s + 1)
    BY <1>3, <1>4, <2>1, <2>2, ShiftFacts
  <2> QED BY <1>3, <2>1, <2>3 DEF Add, r
<1>5. CASE Busy(q, h, s)
  <2> DEFINE all == Len(q.queue)
  <2>1. all \in Nat /\ Len(r.queue) = all + 1 /\ r.queue[all + 1] = s + 1
          /\ \A i \in 1..all : r.queue[i] = q.queue[i]
    BY <1>1, <1>2, <1>3
  <2>2. s = h + 1 + all /\ \A i \in 1..all : q.queue[i] = h + 1 + i
    BY <1>5 DEF Busy
  <2> HIDE DEF all
  <2>3. ASSUME NEW i \in 1..(all + 1) PROVE r.queue[i] = h + 1 + i
    <3>1. CASE i \in 1..all
      BY <2>1, <2>2, <3>1
    <3>2. CASE i = all + 1
      BY <2>1, <2>2, <3>2
    <3> QED BY <2>1, <3>1, <3>2
  <2>4. s + 1 = h + 1 + (all + 1)
    BY <2>1, <2>2
  <2>5. Busy(r, h, s + 1)
    BY <1>3, <1>5, <2>1, <2>3, <2>4 DEF Busy
  <2> QED BY <1>3, <1>5, <2>5 DEF Add, Busy, r
<1> QED BY <1>4, <1>5 DEF Consistent

\* A settled handler was that of the oldest item not handled yet.
LEMMA AfterHandlerFacts ==
  ASSUME NEW q \in QueueObjects, NEW h \in Nat, NEW s \in Nat, NEW n \in q.running,
         NEW thrown \in BOOLEAN, Consistent(q, h, s), s <= MaxItems
  PROVE  /\ n = h + 1 /\ h < s
         /\ AfterHandler(q, n, thrown) \in QueueObjects
         /\ Consistent(AfterHandler(q, n, thrown), h + 1, s)
<1> DEFINE r == Finished(q, n)
<1>1. Busy(q, h, s) /\ n = h + 1
  BY DEF Consistent, Quiet, Busy
<1>2. q.queue \in Seq(Items) /\ Len(q.queue) \in Nat
  BY LenProperties DEF QueueObjects
<1>3. /\ r \in QueueObjects /\ r.queue = q.queue /\ r.running = {}
      /\ r.processing = q.processing
  BY <1>1 DEF Finished, QueueObjects, Busy
<1> HIDE DEF r
<1>4. CASE q.queue # << >>
  <2>1. /\ r.queue # << >> /\ s = (h + 1) + Len(r.queue) /\ h + 1 \in Nat
        /\ \A i \in 1..Len(r.queue) : r.queue[i] = (h + 1) + i
    BY <1>1, <1>3, <1>4 DEF Busy
  <2>2. ShiftItem(r) \in QueueObjects /\ Busy(ShiftItem(r), h + 1, s)
    BY <1>3, <2>1, ShiftFacts
  <2>3. h < s
    <3> DEFINE all == Len(r.queue)
    <3>1. all \in Nat /\ s = (h + 1) + all
      BY <1>2, <1>3, <2>1
    <3> HIDE DEF all
    <3> QED BY <3>1
  <2>4. AfterHandler(q, n, thrown) = ShiftItem(r)
    BY <1>4 DEF AfterHandler, r
  <2> QED BY <1>1, <2>2, <2>3, <2>4 DEF Consistent
<1>5. CASE q.queue = << >>
  <2>1. s = h + 1
    BY <1>1, <1>5 DEF Busy
  <2>2. Idle(r) \in QueueObjects /\ Quiet(Idle(r))
    BY <1>3, <1>5 DEF Idle, QueueObjects, Quiet
  <2>3. AfterHandler(q, n, thrown) = Idle(r)
    BY <1>5 DEF AfterHandler, r
  <2> QED BY <1>1, <2>1, <2>2, <2>3 DEF Consistent
<1> QED BY <1>4, <1>5

-----------------------------------------------------------------------------
(* The manager.                                                            *)

\* What the invariant says of the types of one device's variables.
LEMMA DeviceTypes ==
  ASSUME TypeOK, NEW d \in Devices
  PROVE  /\ pool[d] \in Seq(QueueObjects) /\ Len(pool[d]) \in Nat
         /\ queues[d] \in 0..Len(pool[d])
         /\ submitted[d] \in 0..MaxItems /\ submitted[d] \in Nat
         /\ handled[d] \in Seq(Items) /\ Len(handled[d]) \in Nat
<1>1. /\ pool[d] \in Seq(QueueObjects) /\ handled[d] \in Seq(Items)
      /\ queues[d] \in Nat /\ queues[d] <= Len(pool[d])
      /\ submitted[d] \in 0..MaxItems
  BY DEF TypeOK
<1>2. Len(pool[d]) \in Nat /\ Len(handled[d]) \in Nat
  BY <1>1, LenProperties
<1> QED BY <1>1, <1>2

LEMMA DeviceUntouched ==
  ASSUME NEW e \in Devices, DeviceInv(e), pool'[e] = pool[e], queues'[e] = queues[e],
         submitted'[e] = submitted[e], handled'[e] = handled[e]
  PROVE  DeviceInv(e)'
BY DEF DeviceInv

\* NewQueue is a fresh object in which everything enqueued so far is handled.
LEMMA NewQueueFacts ==
  ASSUME NEW h \in Nat
  PROVE  NewQueue \in QueueObjects /\ Consistent(NewQueue, h, h)
<1>1. << >> \in Seq(Items)
  BY EmptySeq
<1> QED BY <1>1 DEF NewQueue, QueueObjects, Consistent, Quiet

LEMMA EnqueueStep ==
  ASSUME IInv, NEW d \in Devices, Enqueue(d)
  PROVE  IInv'
<1> DEFINE h == Len(handled[d])
           s == submitted[d]
           c == queues[d]
<1>1. /\ TypeOK /\ DeviceInv(d) /\ s < MaxItems
      /\ submitted' = [submitted EXCEPT ![d] = s + 1] /\ handled' = handled
  BY DEF IInv, Enqueue
<1>2. h \in Nat /\ s \in Nat /\ c \in 0..Len(pool[d]) /\ pool[d] \in Seq(QueueObjects)
        /\ Len(pool[d]) \in Nat
  BY <1>1, DeviceTypes
<1>3. submitted' \in [Devices -> 0..MaxItems] /\ submitted'[d] = s + 1
  BY <1>1, <1>2 DEF TypeOK
<1>4. CASE c = 0
  <2> DEFINE new == Add(NewQueue, s + 1)
  <2>1. /\ pool' = [pool EXCEPT ![d] = Append(pool[d], new)]
        /\ queues' = [queues EXCEPT ![d] = Len(pool[d]) + 1]
    BY <1>4 DEF Enqueue
  <2>2. new \in QueueObjects /\ Consistent(new, h, s + 1)
    BY <1>1, <1>2, <1>4, NewQueueFacts, AddFacts DEF DeviceInv, Consistent
  <2> HIDE DEF new
  <2>3. /\ pool'[d] \in Seq(QueueObjects) /\ Len(pool'[d]) = Len(pool[d]) + 1
        /\ pool'[d][Len(pool[d]) + 1] = new
        /\ \A k \in 1..Len(pool[d]) : pool'[d][k] = pool[d][k]
    BY <1>1, <1>2, <2>1, <2>2, AppendProperties DEF TypeOK
  <2>4. queues'[d] = Len(pool[d]) + 1
    BY <1>1, <2>1 DEF TypeOK
  <2>5. TypeOK'
    BY <1>1, <1>2, <1>3, <2>1, <2>3, <2>4 DEF TypeOK
  <2>6. DeviceInv(d)'
    <3>1. \A k \in 1..Len(pool[d]) : Quiet(pool'[d][k])
      BY <1>1, <1>4, <2>3 DEF DeviceInv
    <3>2. \A k \in 1..Len(pool'[d]) : k # queues'[d] => Quiet(pool'[d][k])
      BY <1>2, <2>3, <2>4, <3>1
    <3> QED BY <1>1, <1>2, <1>3, <2>2, <2>3, <2>4, <3>2 DEF DeviceInv
  <2>7. ASSUME NEW e \in Devices, e # d PROVE DeviceInv(e)'
    BY <1>1, <2>1, <2>7, DeviceUntouched DEF IInv, TypeOK
  <2> QED BY <2>5, <2>6, <2>7 DEF IInv
<1>5. CASE c # 0
  <2> DEFINE q == pool[d][c]
             new == Add(q, s + 1)
  <2>1. pool' = [pool EXCEPT ![d] = [pool[d] EXCEPT ![c] = new]] /\ queues' = queues
    BY <1>1, <1>5 DEF Enqueue, TypeOK
  <2>2. c \in 1..Len(pool[d]) /\ q \in QueueObjects
    BY <1>2, <1>5, ElementOfSeq
  <2>3. new \in QueueObjects /\ Consistent(new, h, s + 1)
    BY <1>1, <1>2, <1>5, <2>2, AddFacts DEF DeviceInv, Consistent
  <2> HIDE DEF new
  <2>4. /\ pool'[d] \in Seq(QueueObjects) /\ Len(pool'[d]) = Len(pool[d])
        /\ \A k \in 1..Len(pool[d]) : pool'[d][k] = IF k = c THEN new ELSE pool[d][k]
    BY <1>1, <1>2, <2>1, <2>2, <2>3, ExceptSeq DEF TypeOK
  <2>5. TypeOK'
    BY <1>1, <1>3, <2>1, <2>4 DEF TypeOK
  <2>6. DeviceInv(d)'
    BY <1>1, <1>3, <1>5, <2>1, <2>2, <2>3, <2>4 DEF DeviceInv
  <2>7. ASSUME NEW e \in Devices, e # d PROVE DeviceInv(e)'
    BY <1>1, <2>1, <2>7, DeviceUntouched DEF IInv, TypeOK
  <2> QED BY <2>5, <2>6, <2>7 DEF IInv
<1> QED BY <1>4, <1>5

\* Only the object in the map can be running, and it runs the oldest item.
LEMMA SettleStep ==
  ASSUME IInv, NEW d \in Devices, NEW k \in 1..Len(pool[d]), NEW n \in Items,
         NEW thrown \in BOOLEAN, Settle(d, k, n, thrown)
  PROVE  IInv' /\ Executor!Finish(d)
<1> DEFINE h == Len(handled[d])
           s == submitted[d]
           q == pool[d][k]
           new == AfterHandler(q, n, thrown)
<1>1. /\ TypeOK /\ DeviceInv(d) /\ n \in q.running
      /\ handled' = [handled EXCEPT ![d] = Append(handled[d], n)]
      /\ queues' = queues /\ submitted' = submitted
  BY DEF IInv, Settle
<1>2. pool' = [pool EXCEPT ![d] = [pool[d] EXCEPT ![k] = new]]
  BY <1>1 DEF Settle, TypeOK
<1>3. /\ h \in Nat /\ s \in Nat /\ s <= MaxItems /\ pool[d] \in Seq(QueueObjects)
      /\ Len(pool[d]) \in Nat /\ handled[d] \in Seq(Items)
  BY <1>1, DeviceTypes
<1>4. q \in QueueObjects
  BY <1>3, ElementOfSeq
<1>5. k = queues[d] /\ Consistent(q, h, s)
  BY <1>1, <1>3 DEF DeviceInv, Quiet
<1>6. n = h + 1 /\ h < s /\ new \in QueueObjects /\ Consistent(new, h + 1, s)
  BY <1>1, <1>3, <1>4, <1>5, AfterHandlerFacts
<1> HIDE DEF new
<1>7. /\ pool'[d] \in Seq(QueueObjects) /\ Len(pool'[d]) = Len(pool[d])
      /\ \A j \in 1..Len(pool[d]) : pool'[d][j] = IF j = k THEN new ELSE pool[d][j]
  BY <1>1, <1>2, <1>3, <1>6, ExceptSeq DEF TypeOK
<1>8. handled'[d] \in Seq(Items) /\ Len(handled'[d]) = h + 1
  BY <1>1, <1>3, AppendProperties DEF TypeOK
<1>9. TypeOK'
  <2>1. h + 1 <= MaxItems
    BY <1>3, <1>6
  <2> QED BY <1>1, <1>2, <1>7, <1>8, <2>1 DEF TypeOK
<1>10. DeviceInv(d)'
  BY <1>1, <1>5, <1>6, <1>7, <1>8 DEF DeviceInv
<1>11. ASSUME NEW e \in Devices, e # d PROVE DeviceInv(e)'
  BY <1>1, <1>2, <1>11, DeviceUntouched DEF IInv, TypeOK
<1>12. Executor!Finish(d)
  BY <1>1, <1>6 DEF Executor!Finish, TypeOK
<1> QED BY <1>9, <1>10, <1>11, <1>12 DEF IInv

LEMMA TimePassesStep ==
  ASSUME IInv, NEW d \in Devices, TimePasses(d)
  PROVE  IInv'
<1> DEFINE c == queues[d]
           q == pool[d][c]
           new == [q EXCEPT !.stale = TRUE]
<1>1. /\ TypeOK /\ DeviceInv(d) /\ c # 0
      /\ queues' = queues /\ submitted' = submitted /\ handled' = handled
  BY DEF IInv, TimePasses
<1>2. pool' = [pool EXCEPT ![d] = [pool[d] EXCEPT ![c] = new]]
  BY <1>1 DEF TimePasses, TypeOK
<1>3. c \in 1..Len(pool[d]) /\ pool[d] \in Seq(QueueObjects) /\ q \in QueueObjects
  BY <1>1, DeviceTypes, ElementOfSeq
<1>4. /\ new \in QueueObjects /\ new.queue = q.queue
      /\ new.processing = q.processing /\ new.running = q.running
  BY <1>3 DEF QueueObjects
<1> HIDE DEF new
<1>5. /\ pool'[d] \in Seq(QueueObjects) /\ Len(pool'[d]) = Len(pool[d])
      /\ \A k \in 1..Len(pool[d]) : pool'[d][k] = IF k = c THEN new ELSE pool[d][k]
  BY <1>1, <1>2, <1>3, <1>4, ExceptSeq DEF TypeOK
<1>6. TypeOK'
  BY <1>1, <1>2, <1>5 DEF TypeOK
<1>7. Consistent(new, Len(handled[d]), submitted[d])
  BY <1>1, <1>4 DEF DeviceInv, Consistent, Quiet, Busy
<1>8. DeviceInv(d)'
  BY <1>1, <1>3, <1>5, <1>7 DEF DeviceInv
<1>9. ASSUME NEW e \in Devices, e # d PROVE DeviceInv(e)'
  BY <1>1, <1>2, <1>9, DeviceUntouched DEF IInv, TypeOK
<1> QED BY <1>6, <1>8, <1>9 DEF IInv

\* An object is forgotten only when it has nothing to do.
LEMMA CleanupStep ==
  ASSUME IInv, CleanupInactiveQueues
  PROVE  IInv'
<1>1. TypeOK /\ pool' = pool /\ submitted' = submitted /\ handled' = handled
  BY DEF IInv, CleanupInactiveQueues
<1>2. ASSUME NEW d \in Devices
      PROVE  queues'[d] = IF queues[d] # 0 /\ IsInactive(pool[d][queues[d]])
                          THEN 0 ELSE queues[d]
  BY DEF CleanupInactiveQueues
<1>3. TypeOK'
  <2>1. queues' \in [Devices -> Nat]
    BY <1>1 DEF CleanupInactiveQueues, TypeOK
  <2>2. ASSUME NEW d \in Devices PROVE queues'[d] <= Len(pool[d])
    BY <1>1, <1>2, DeviceTypes
  <2> QED BY <1>1, <2>1, <2>2 DEF TypeOK
<1>4. ASSUME NEW d \in Devices PROVE DeviceInv(d)'
  <2>1. DeviceInv(d)
    BY DEF IInv
  <2>2. CASE queues'[d] = queues[d]
    BY <1>1, <2>1, <2>2 DEF DeviceInv
  <2>3. CASE queues'[d] # queues[d]
    <3>1. queues[d] # 0 /\ ~pool[d][queues[d]].processing /\ queues'[d] = 0
      BY <1>2, <2>3 DEF IsInactive
    <3>2. Quiet(pool[d][queues[d]]) /\ submitted[d] = Len(handled[d])
      BY <2>1, <3>1 DEF DeviceInv, Consistent, Busy
    <3> QED BY <1>1, <2>1, <3>1, <3>2 DEF DeviceInv
  <2> QED BY <2>2, <2>3
<1> QED BY <1>3, <1>4 DEF IInv

LEMMA InitInductive == Init => IInv
<1> SUFFICES ASSUME Init PROVE IInv
  OBVIOUS
<1>1. << >> \in Seq(QueueObjects) /\ << >> \in Seq(Items) /\ Len(<< >>) = 0
  BY EmptySeq
<1>2. TypeOK
  BY <1>1 DEF Init, TypeOK
<1>3. ASSUME NEW d \in Devices PROVE DeviceInv(d)
  <2>1. pool[d] = << >> /\ queues[d] = 0 /\ submitted[d] = 0 /\ handled[d] = << >>
    BY DEF Init
  <2>2. Len(pool[d]) = 0 /\ Len(handled[d]) = 0
    BY <1>1, <2>1
  <2>3. \A k \in 1..Len(pool[d]) : FALSE
    BY <2>2
  <2> QED BY <2>1, <2>2, <2>3 DEF DeviceInv
<1> QED BY <1>2, <1>3 DEF IInv

LEMMA InductiveStep == IInv /\ [Next]_vars => IInv'
<1> SUFFICES ASSUME IInv, [Next]_vars PROVE IInv'
  OBVIOUS
<1>1. ASSUME NEW d \in Devices, Enqueue(d) PROVE IInv'
  BY <1>1, EnqueueStep
<1>2. ASSUME NEW d \in Devices, HandlerSettles(d) PROVE IInv'
  BY <1>2, SettleStep DEF HandlerSettles
<1>3. ASSUME NEW d \in Devices, TimePasses(d) PROVE IInv'
  BY <1>3, TimePassesStep
<1>4. CASE CleanupInactiveQueues
  BY <1>4, CleanupStep
<1>5. CASE UNCHANGED vars
  BY <1>5 DEF vars, IInv, TypeOK, DeviceInv
<1> QED BY <1>1, <1>2, <1>3, <1>4, <1>5 DEF Next

LEMMA InductiveInvariant == Spec => []IInv
BY InitInductive, InductiveStep, PTL DEF Spec

\* An object that is not quiet is the one in the map.
LEMMA ObjectFacts ==
  ASSUME IInv, NEW d \in Devices, NEW k \in 1..Len(pool[d])
  PROVE  \/ pool[d][k].queue = << >> /\ pool[d][k].running = {}
         \/ k = queues[d] /\ pool[d][k].running = {Len(handled[d]) + 1}
<1>1. DeviceInv(d) /\ Len(pool[d]) \in Nat
  BY DeviceTypes DEF IInv
<1>2. CASE k # queues[d]
  BY <1>1, <1>2 DEF DeviceInv, Quiet
<1>3. CASE k = queues[d]
  <2>1. Consistent(pool[d][k], Len(handled[d]), submitted[d])
    BY <1>1, <1>3 DEF DeviceInv
  <2> QED BY <1>3, <2>1 DEF Consistent, Quiet, Busy
<1> QED BY <1>2, <1>3

\* The objects and the map stay well-formed, and no more is handled than came.
THEOREM QueueTypes == Spec => []TypeOK
<1>1. IInv => TypeOK
  BY DEF IInv
<1> QED BY <1>1, InductiveInvariant, PTL

\* At most one position of a device is being processed, whatever the cleanup
\* task forgot and however often the loop was started.
THEOREM ItemsRunOneAtATime == Spec => []OneAtATime
<1>1. IInv => OneAtATime
  <2> SUFFICES ASSUME IInv, NEW d \in Devices,
                      NEW j \in 1..Len(pool[d]), NEW k \in 1..Len(pool[d]),
                      NEW m \in pool[d][j].running, NEW n \in pool[d][k].running
               PROVE  j = k /\ m = n
    BY DEF OneAtATime
  <2>1. j = queues[d] /\ m = Len(handled[d]) + 1
    BY ObjectFacts
  <2>2. k = queues[d] /\ n = Len(handled[d]) + 1
    BY ObjectFacts
  <2> QED BY <2>1, <2>2
<1> QED BY <1>1, InductiveInvariant, PTL

\* Waiting items always have a loop running that will take them.
THEOREM WaitingItemsAreServed == Spec => []NoLostWakeup
<1>1. IInv => NoLostWakeup
  <2> SUFFICES ASSUME IInv, NEW d \in Devices, NEW k \in 1..Len(pool[d]),
                      pool[d][k].queue # << >>
               PROVE  pool[d][k].running # {}
    BY DEF NoLostWakeup
  <2> QED BY ObjectFacts
<1> QED BY <1>1, InductiveInvariant, PTL

\* The queues handle the items of each device once each, in order.
THEOREM QueueImplementsSerialExecutor == Spec => ImplementsSerialExecutor
<1>1. Init => Executor!Init
  BY DEF Init, Executor!Init
<1>2. ASSUME IInv, NEW d \in Devices, Enqueue(d) PROVE Executor!Submit(d)
  BY <1>2 DEF Enqueue, Executor!Submit, IInv, TypeOK
<1>3. ASSUME IInv, NEW d \in Devices, HandlerSettles(d) PROVE Executor!Finish(d)
  BY <1>3, SettleStep DEF HandlerSettles
<1>4. IInv /\ [Next]_vars => [Executor!Next]_(Executor!vars)
  BY <1>2, <1>3 DEF Next, TimePasses, CleanupInactiveQueues, vars, Executor!Next, Executor!vars
<1>5. Spec => Executor!Spec
  BY <1>1, <1>4, InductiveInvariant, PTL DEF Spec, Executor!Spec
<1> QED BY <1>5 DEF ImplementsSerialExecutor

=============================================================================
