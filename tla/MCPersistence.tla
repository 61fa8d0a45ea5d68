---------------------------- MODULE MCPersistence ----------------------------
(***************************************************************************)
(* Small instance of Persistence: a trip and a stop, which share the event *)
(* queue and the cleanup run but not the connection.                       *)
(***************************************************************************)
EXTENDS Persistence

CONSTANTS trip, stop

MCTrips == {trip}
MCStops == {stop}

=============================================================================
