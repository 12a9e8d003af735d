------------------------------ MODULE MCObjPool ------------------------------
(* Instances of ObjPool for TLC: every setting without refusals, and refusals  *)
(* of handles and of pages under the settings of the start.                   *)
EXTENDS ObjPool

McSetups == {[first |-> 1, ranks |-> {0, 3}, adapts |-> BOOLEAN, faults |-> {}],
             [first |-> 1, ranks |-> {}, adapts |-> {FALSE}, faults |-> {"handle"}],
             [first |-> 0, ranks |-> {}, adapts |-> {FALSE}, faults |-> {"os", "handle"}]}

Symmetry == Permutations(Pages) \cup Permutations(Handles)
=============================================================================
