------------------------ MODULE MCThreadGroup ------------------------
(* Instances of ThreadGroup for TLC: both kinds of group, three threads. *)
EXTENDS ThreadGroup
======================================================================
