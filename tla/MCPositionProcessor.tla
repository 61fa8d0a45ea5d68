------------------------ MODULE MCPositionProcessor ------------------------
(* Instance of PositionProcessor: the timestamps leave gaps of one, two    *)
(* and of a night and more; a late position has the one in the middle; a   *)
(* move is nothing or a real one.                                          *)
EXTENDS PositionProcessor

MCTimes == {1, 2, 4, 6, 10}
MCLateTimes == {4}
MCMoves == {0, 3}

=============================================================================
