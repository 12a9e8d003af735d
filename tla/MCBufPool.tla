------------------------------ MODULE MCBufPool ------------------------------
(* Instances of BufPool for TLC. *)
EXTENDS BufPool, TLC

Symmetry == Permutations(Pages)
=============================================================================
