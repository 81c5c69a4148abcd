---------------------------- MODULE MCSaveStates ----------------------------
(* A ring of two snapshots two frames apart, and one frame of run-ahead; the *)
(* ring overflows, is emptied by rewinds and outlives loads and replacements. *)
EXTENDS SaveStates
=============================================================================
