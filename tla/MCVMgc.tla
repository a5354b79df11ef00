------------------------------- MODULE MCVMgc -------------------------------
(* Instances of VMgc: objects and VMs are interchangeable. *)
EXTENDS VMgc, TLC

Symmetry == Permutations(Objs) \cup Permutations(VMs)
=============================================================================
