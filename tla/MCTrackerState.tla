--------------------------- MODULE MCTrackerState ---------------------------
(* Instance of TrackerState: one caller beside the worker, a reset to 0,   *)
(* and a periodic save every second position.                              *)
EXTENDS TrackerState

=============================================================================
