------------------------------ MODULE MCChanl ------------------------------
(* Instances of Chanl for TLC. *)
EXTENDS Chanl, TLC
=============================================================================
