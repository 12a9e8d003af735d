------------------------------- MODULE Memory --------------------------------
(***************************************************************************)
(* What blocks of memory occupy, for the counters that gp->mm_cnt is made  *)
(* of: the bytes of a set of blocks, as pairs of a block and an offset, so *)
(* that a byte of a block that is counted is counted once.                 *)
(***************************************************************************)
EXTENDS Integers

\* The bytes of the blocks in the domain of size.
Bytes(size) == UNION {{b} \X (1..size[b]) : b \in DOMAIN size}
=============================================================================
