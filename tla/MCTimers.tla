------------------------------ MODULE MCTimers ------------------------------
(* Instances of Timers for TLC: one timer at the start, to which the script  *)
(* may add a second, or three that it can only delete.                       *)
EXTENDS Timers

CONSTANTS ta, tb, tc

OneOrThree == {<<ta>>, <<ta, tb, tc>>}
=============================================================================
