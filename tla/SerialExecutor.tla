--------------------------- MODULE SerialExecutor ---------------------------
(***************************************************************************)
(* What a per-device queue promises its callers: the items of a device are *)
(* handled in the order they were submitted, each once, one at a time and  *)
(* never waiting without reason; devices do not see each other.  An item   *)
(* is named by its number among the items of its device.                   *)
(***************************************************************************)
EXTENDS Naturals, Sequences

CONSTANTS Devices, MaxItems

VARIABLES
  submitted,   \* number of items submitted so far, per device
  handled      \* items whose handler is over, in the order of their ends

vars == <<submitted, handled>>

Init ==
  /\ submitted = [d \in Devices |-> 0]
  /\ handled = [d \in Devices |-> << >>]

Submit(d) ==
  /\ submitted[d] < MaxItems
  /\ submitted' = [submitted EXCEPT ![d] = @ + 1]
  /\ UNCHANGED handled

\* The item in progress is the oldest one not handled yet.
Finish(d) ==
  /\ Len(handled[d]) < submitted[d]
  /\ handled' = [handled EXCEPT ![d] = Append(@, Len(@) + 1)]
  /\ UNCHANGED submitted

Next == \E d \in Devices : Submit(d) \/ Finish(d)

Spec == Init /\ [][Next]_vars

=============================================================================
