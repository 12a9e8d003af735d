------------------------------ MODULE MCValues ------------------------------
(* Instances of Values for TLC: the variables are alike. *)
EXTENDS Values, TLC

Symmetry == Permutations(Vars)
=============================================================================
