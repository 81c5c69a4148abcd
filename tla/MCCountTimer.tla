---------------------------- MODULE MCCountTimer ----------------------------
(* A counter of Modulus values, so that it wraps inside and outside stalls. *)
EXTENDS CountTimer
=============================================================================
