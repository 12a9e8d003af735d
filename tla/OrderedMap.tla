----------------------------- MODULE OrderedMap -----------------------------
(* What a script sees of a table: its keys, each once, in an order that the *)
(* script itself decides by where it puts them.  One action per call, which *)
(* names the keys it is about; a call that needs memory may be refused it.  *)
EXTENDS Naturals, Sequences, SequencesExt

CONSTANT Keys

VARIABLES
    order,  \* the keys, first to last
    call    \* the call made last, with the keys it named

Present == ToSet(order)
Without(k) == RemoveFirst(order, k)
\* keys with k put behind a; first when there is no a
Behind(keys, k, a) == InsertAt(keys, SelectInSeq(keys, LAMBDA x : x = a) + 1, k)

Add(k) == k \notin Present /\ order' = Append(order, k)
PutBehind(k, a) == k \notin Present /\ order' = Behind(order, k, a)
\* A key that is there already moves, but only behind another one.
MoveBehind(k, a) ==
    a # k /\ {a, k} \subseteq Present /\ order' = Behind(Without(k), k, a)

Init == order = <<>> /\ call = <<>>

Read(k) == call' = <<"read", k>> /\ UNCHANGED order
Assign(k) == call' = <<"assign", k>> /\ (Add(k) \/ UNCHANGED order)
Ins(a, k) == call' = <<"ins", a, k>> /\ (PutBehind(k, a) \/ MoveBehind(k, a) \/ UNCHANGED order)
Delete(k) == call' = <<"delete", k>> /\ k \in Present /\ order' = Without(k)
Unite(k) == call' = <<"unite", k>> /\ Add(k)
Sort == call' = <<"sort">> /\ Len(order') = Len(order) /\ ToSet(order') = Present
Clear == call' = <<"clear">> /\ order' = <<>>
\* A foreach goes on, the table gets another holder, the manager moves an entry.
Unseen == call' = <<"unseen">> /\ UNCHANGED order

Next == \/ \E k \in Keys : Read(k) \/ Assign(k) \/ Delete(k) \/ Unite(k)
        \/ \E a, k \in Keys : Ins(a, k)
        \/ Sort \/ Clear \/ Unseen
=============================================================================
