------------------------------ MODULE MCTable ------------------------------
(* Instances of Table for TLC: one number and two strings for three slots. *)
EXTENDS Table, TLC

CONSTANTS n1, s1, s2

\* Two hash keys: under the first the strings collide, under the second not.
MCHashOf == n1 :> <<0, 3>> @@ s1 :> <<4, 1>> @@ s2 :> <<4, 6>>

\* The bucket of a hash: the complement of the hash under the mask -size, as
\* CZL_INDEX_CAC computes it; a size need not be a power of two.
Bits(n) == {i \in 0..6 : (n \div (2 ^ i)) % 2 = 1}
MCIndexOf == [size \in 1..MaxSize |-> [h \in 0..63 |->
                MapThenSumSet(LAMBDA i : 2 ^ i, Bits(size - 1) \ Bits(h))]]
=============================================================================
