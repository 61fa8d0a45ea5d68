---------------------------- MODULE RowLifecycle ----------------------------
(***************************************************************************)
(* What tables trips and stops promise their readers about one row: it     *)
(* comes into being active, is closed, may be closed again for the other   *)
(* reason, and is active never again.  Only trips are deleted; a deleted   *)
(* trip may come back as one the cleanup closed.                           *)
(***************************************************************************)
CONSTANTS Trips, Stops

VARIABLE life   \* per trip and stop, what became of its row

Closings == {"natural", "timeout"}
Lives == {"absent", "active", "deleted"} \cup Closings

Turns(i, from, to) ==
  /\ life[i] \in from
  /\ \E l \in to : life' = [life EXCEPT ![i] = l]

Init == life = [i \in Trips \cup Stops |-> "absent"]

Create(i) == Turns(i, {"absent"}, {"active"})

Close(i) == Turns(i, {"active"} \cup Closings, Closings)

Delete(i) == i \in Trips /\ Turns(i, {"active"} \cup Closings, {"deleted"})

Revive(i) == i \in Trips /\ Turns(i, {"deleted"}, {"timeout"})

Next ==
  \E i \in Trips \cup Stops : Create(i) \/ Close(i) \/ Delete(i) \/ Revive(i)

Spec == Init /\ [][Next]_life

=============================================================================
