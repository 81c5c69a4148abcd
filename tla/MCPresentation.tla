--------------------------- MODULE MCPresentation ---------------------------
(* Sessions of up to three menu actions that end a machine, with pauses and *)
(* frames between, before and during them.                                  *)
EXTENDS Presentation
=============================================================================
