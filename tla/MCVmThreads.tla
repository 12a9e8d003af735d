----------------------------- MODULE MCVmThreads -----------------------------
(* Instances of VmThreads for TLC: the children are told apart by their names. *)
EXTENDS VmThreads
=============================================================================
