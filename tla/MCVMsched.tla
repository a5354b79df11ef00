----------------------------- MODULE MCVMsched -----------------------------
(* Instances of VMsched for TLC. *)
EXTENDS VMsched, TLC

\* The threads other than the main one are interchangeable.
Symmetry == Permutations(VMs \ {Main})
=============================================================================
