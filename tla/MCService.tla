----------------------------- MODULE MCService -----------------------------
(***************************************************************************)
(* The process around Forwarding, for TLC, with the commands of            *)
(* MCForwarding.                                                           *)
(***************************************************************************)
EXTENDS Service, MCForwarding
=============================================================================
