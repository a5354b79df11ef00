----------------------------- MODULE MCFuvLoop -----------------------------
(* Instances of FuvLoop for TLC. *)
EXTENDS FuvLoop, TLC
=============================================================================
