----------------------------- MODULE MCFuvAsync -----------------------------
(* Instances of FuvAsync for TLC. *)
EXTENDS FuvAsync, TLC
=============================================================================
