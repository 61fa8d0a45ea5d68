----------------------------- MODULE DeviceQueue -----------------------------
(***************************************************************************)
(* The per-device queues of DeviceQueueManager, which feed positions to    *)
(* PositionProcessorService, and of DeviceEventQueueManager, which runs    *)
(* the database handlers of trip and stop events: the two share this code. *)
(* A step is what JavaScript runs between two awaits.  Queue OBJECTS are   *)
(* kept apart from the map that names them, since the cleanup task forgets *)
(* an object and a later enqueue creates another for the same device.      *)
(***************************************************************************)
EXTENDS Naturals, Sequences

CONSTANTS
  Devices,
  Healthy,    \* devices whose handlers always settle
  MaxItems    \* bound: items enqueued for one device

ASSUME DeviceAssumption == Healthy \subseteq Devices /\ MaxItems \in Nat

VARIABLES
  pool,        \* per device, every DeviceQueue object ever created
  queues,      \* the manager's map: index in pool[d], 0 when d has no entry
  submitted,   \* history: items enqueued, per device
  handled      \* history: items whose handler is over, in order

vars == <<pool, queues, submitted, handled>>

\* A DeviceQueue: the array queue, the flag processing, the items inside a
\* processQueue loop (awaiting their handler), and whether QUEUE_TIMEOUT_MS
\* passed since lastActivity.
Items == 1..MaxItems
QueueObjects ==
  [queue : Seq(Items), processing : BOOLEAN, running : SUBSET Items, stale : BOOLEAN]

NewQueue == [queue |-> << >>, processing |-> FALSE, running |-> {}, stale |-> FALSE]

-----------------------------------------------------------------------------
(* What a queue object becomes.                                            *)

\* Mutant: takes the newest position.
PopItem(q) ==
  [q EXCEPT !.processing = TRUE,
            !.running = @ \cup {q.queue[Len(q.queue)]},
            !.queue = SubSeq(q.queue, 1, Len(q.queue) - 1)]

\* Mutant: looks at the first position and leaves it in the array.
PeekItem(q) == [q EXCEPT !.processing = TRUE, !.running = @ \cup {Head(q.queue)}]

\* processQueue up to its next await: shift an item and call the handler.
ShiftItem(q) ==
  [q EXCEPT !.processing = TRUE,
            !.running = @ \cup {Head(q.queue)},
            !.queue = Tail(q.queue)]

Push(q, n) == [q EXCEPT !.queue = Append(@, n), !.stale = FALSE]

\* add: push, and start the loop when none is running.
Add(q, n) == IF q.processing THEN Push(q, n) ELSE ShiftItem(Push(q, n))

Finished(q, n) == [q EXCEPT !.running = @ \ {n}]

\* The finally block.
Idle(q) == [q EXCEPT !.processing = FALSE, !.stale = FALSE]

\* Mutant: one item per activation, the rest waits for the next add.
AfterOneHandler(q, n, thrown) == Idle(Finished(q, n))

\* Mutant: an error leaves the loop.
AfterHandlerRethrowing(q, n, thrown) ==
  IF q.queue # << >> /\ ~thrown THEN ShiftItem(Finished(q, n)) ELSE Idle(Finished(q, n))

\* The handler of item n settled.  An error is logged and the loop goes on.
AfterHandler(q, n, thrown) ==
  IF q.queue # << >> THEN ShiftItem(Finished(q, n)) ELSE Idle(Finished(q, n))

\* Mutant: old is enough.
IsOld(q) == q.stale

IsInactive(q) == ~q.processing /\ q.stale

-----------------------------------------------------------------------------

Init ==
  /\ pool = [d \in Devices |-> << >>]
  /\ queues = [d \in Devices |-> 0]
  /\ submitted = [d \in Devices |-> 0]
  /\ handled = [d \in Devices |-> << >>]

Enqueue(d) ==
  LET n == submitted[d] + 1
  IN  /\ submitted[d] < MaxItems
      /\ submitted' = [submitted EXCEPT ![d] = n]
      /\ IF queues[d] = 0
         THEN /\ pool' = [pool EXCEPT ![d] = Append(@, Add(NewQueue, n))]
              /\ queues' = [queues EXCEPT ![d] = Len(pool[d]) + 1]
         ELSE /\ pool' = [pool EXCEPT ![d][queues[d]] = Add(@, n)]
              /\ UNCHANGED queues
      /\ UNCHANGED handled

\* The promise of the handler of item n resolves, or rejects when thrown.
Settle(d, k, n, thrown) ==
  /\ n \in pool[d][k].running
  /\ handled' = [handled EXCEPT ![d] = Append(@, n)]
  /\ pool' = [pool EXCEPT ![d][k] = AfterHandler(@, n, thrown)]
  /\ UNCHANGED <<queues, submitted>>

\* Ten minutes without activity; a handler may well take longer than that.
TimePasses(d) ==
  /\ queues[d] # 0
  /\ pool' = [pool EXCEPT ![d][queues[d]].stale = TRUE]
  /\ UNCHANGED <<queues, submitted, handled>>

\* The cleanup task, all devices in one go.
CleanupInactiveQueues ==
  /\ queues' = [d \in Devices |->
       IF queues[d] # 0 /\ IsInactive(pool[d][queues[d]]) THEN 0 ELSE queues[d]]
  /\ UNCHANGED <<pool, submitted, handled>>

HandlerSettles(d) ==
  \E k \in 1..Len(pool[d]), n \in Items, thrown \in BOOLEAN : Settle(d, k, n, thrown)

Next ==
  \/ \E d \in Devices : Enqueue(d) \/ HandlerSettles(d) \/ TimePasses(d)
  \/ CleanupInactiveQueues

\* Fairness: a handler of a healthy device settles, and the event loop runs
\* what follows its await.  Nothing forces calls, time or the cleanup task.
Spec == Init /\ [][Next]_vars

FairSpec == Spec /\ \A d \in Healthy : WF_vars(HandlerSettles(d))

-----------------------------------------------------------------------------

TypeOK ==
  /\ pool \in [Devices -> Seq(QueueObjects)]
  /\ queues \in [Devices -> Nat]
  /\ \A d \in Devices : queues[d] <= Len(pool[d])
  /\ submitted \in [Devices -> 0..MaxItems]
  /\ handled \in [Devices -> Seq(Items)]
  /\ \A d \in Devices : Len(handled[d]) <= MaxItems

\* Two positions of a device are never processed at the same time, although an
\* object may start its loop many times and the manager may create several
\* objects for a device: the read-modify-write of the device state in
\* PositionProcessorService relies on this alone.
OneAtATime ==
  \A d \in Devices : \A j, k \in 1..Len(pool[d]) :
    \A m \in pool[d][j].running, n \in pool[d][k].running : j = k /\ m = n

\* No position is left behind: where items wait, in the map or in an object the
\* cleanup task forgot, a loop is running that will take them.
NoLostWakeup ==
  \A d \in Devices : \A k \in 1..Len(pool[d]) :
    pool[d][k].queue # << >> => pool[d][k].running # {}

\* Items are handled exactly once and in the order they were enqueued.
Executor == INSTANCE SerialExecutor
ImplementsSerialExecutor == Executor!Spec

\* Every position of a healthy device is processed in the end, whatever happens
\* to the handlers of other devices and whichever of its own handlers throw.
EveryItemIsHandled ==
  \A d \in Healthy : \A n \in 1..MaxItems :
    submitted[d] >= n ~> Len(handled[d]) >= n

=============================================================================
