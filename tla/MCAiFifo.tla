------------------------------ MODULE MCAiFifo ------------------------------
(* Pages of four words; transfers of two words from the start and from the  *)
(* middle of a page, so that one ends with its page; empty transfers; two   *)
(* rates; one reset, of a machine younger or older than a period.           *)
EXTENDS AiFifo
=============================================================================
