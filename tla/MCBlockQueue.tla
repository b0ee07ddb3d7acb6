---------------------------- MODULE MCBlockQueue ----------------------------
(***************************************************************************)
(* BlockQueue for TLC: the TCP thread and two uploaders share a queue of   *)
(* two places.  Three threads let two of them sleep on one condition       *)
(* variable while the third runs, and two places let an element or a free  *)
(* slot remain after the one a thread was woken for.                       *)
(***************************************************************************)
EXTENDS BlockQueue

CONSTANTS tcp, uploader0, uploader1, d1, d2

MCThreads == {tcp, uploader0, uploader1}
MCData    == {d1, d2}
=============================================================================
