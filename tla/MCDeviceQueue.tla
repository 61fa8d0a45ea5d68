---------------------------- MODULE MCDeviceQueue ----------------------------
(***************************************************************************)
(* Small instance of DeviceQueue: one device whose handlers settle and one *)
(* whose handlers may hang, a few positions each.                          *)
(***************************************************************************)
EXTENDS DeviceQueue

CONSTANTS tracker, hung

MCDevices == {tracker, hung}
MCHealthy == {tracker}

=============================================================================
