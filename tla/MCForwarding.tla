---------------------------- MODULE MCForwarding ----------------------------
(***************************************************************************)
(* Forwarding for TLC.  vehicleLogin stands for both commands that a       *)
(* packet keeps when it is late (vehicleLogin and vehicleLogout).          *)
(***************************************************************************)
EXTENDS Forwarding

CONSTANT vehicleLogin

MCCmds == {realtimeUpload, reissueUpload, vehicleLogin}
MCFewCmds == {realtimeUpload, reissueUpload}
=============================================================================
