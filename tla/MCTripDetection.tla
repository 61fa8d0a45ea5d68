-------------------------- MODULE MCTripDetection --------------------------
(***************************************************************************)
(* Small instance of TripDetection.  A unit of time stands for the 30 s    *)
(* of the speed average and the thresholds keep the order they have in the *)
(* code; distances distinguish standing still, a short segment (noise,     *)
(* near a gap's beginning) and a long one.                                 *)
(***************************************************************************)
EXTENDS TripDetection

CONSTANT MaxTime   \* bound: the last timestamp a position carries

MCTimes == 1..MaxTime
MCMoves == {0, 1, 3}

\* Fewer timestamps when positions may arrive late and time runs both ways:
\* steps of 3 (minStopDuration), 4 (a gap) and 7 (an overnight gap).
MCSparseTimes == {1, 4, MaxTime}

=============================================================================
