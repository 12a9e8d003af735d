------------------------------- MODULE MCCache -------------------------------
(* Instances of Cache for TLC. *)
EXTENDS Cache

Symmetry == Permutations(Nodes)
=============================================================================
