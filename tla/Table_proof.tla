----------------------------- MODULE Table_proof -----------------------------
(* Proofs about the tables: the list and the index of a sound table agree at *)
(* every step, a loop still reaches what it owes, and what the script sees   *)
(* of a table is an ordered map.                                             *)
EXTENDS Table, ChainLemmas

----------------------------------------------------------------------------
(* The inductive invariant *)

\* The entries q are linked one after another: first leads to them, fwd from
\* each to the next, and back from each to the one before, from the first to x.
Linked(fwd, back, first, q, x) ==
    /\ q \in Seq(Slots) /\ IsInjective(q)
    /\ first = IF q = <<>> THEN Nil ELSE q[1]
    /\ \A n \in 1..Len(q) : fwd[q[n]] = IF n = Len(q) THEN Nil ELSE q[n + 1]
    /\ \A n \in 1..Len(q) : back[q[n]] = IF n = 1 THEN x ELSE q[n - 1]

Refs == Slots \cup {Nil}
TableRec(n) ==
    [key : [Slots -> Keys \cup {Nil}], hash : [Slots -> Nat],
     next : [Slots -> Refs], last : [Slots -> Refs],
     up : [Slots -> Nat \cup {Nil}], down : [Slots -> Refs],
     head : Refs, tail : Refs, cursor : Refs,
     bucket : [0..(n - 1) -> Refs], count : Nat, gen : 0..LastGen]

\* The list of t is l.
ListIs(t, l) ==
    /\ Linked(t.next, t.last, t.head, l, Nil)
    /\ ToSet(l) = Used(t)
    /\ t.tail = IF Len(l) = 0 THEN Nil ELSE l[Len(l)]
    /\ t.count = Len(l)
    /\ t.cursor \in Used(t) \cup {Nil}

\* The n chains of t are C, and each entry s of DOMAIN at is in chain at[s].
InBuckets(t, n, at, C) ==
    /\ C \in [0..(n - 1) -> Seq(Slots)]
    /\ \A i \in 0..(n - 1) :
        /\ Linked(t.down, t.up, t.bucket[i], C[i], i)
        /\ ToSet(C[i]) = {s \in DOMAIN at : at[s] = i}

\* The bucket of each entry in use, in a table of n buckets.
Spots(t, n) == [s \in Used(t) |-> IndexOf[n][Hash(t, t.key[s])]]

\* No key is there twice, and strings have the hash of the current hash key.
KeysOK(t) ==
    /\ \A r, s \in Used(t) : t.key[r] = t.key[s] => r = s
    /\ \A s \in Used(t) : t.key[s] \in Strs => t.hash[s] = Hash(t, t.key[s])

\* A table with n buckets, the list l and the chains C.
Parts(t, n, l, C) ==
    /\ n \in 1..MaxSize /\ t \in TableRec(n)
    /\ KeysOK(t)
    /\ ListIs(t, l)
    /\ InBuckets(t, n, Spots(t, n), C)
TableOK(t) == \E n, l, C : Parts(t, n, l, C)

TableInv ==
    /\ order = OrderOf(tab)
    /\ shared \in BOOLEAN /\ loop \in BOOLEAN
    /\ Sound => TableOK(tab)
    /\ Sound /\ loop => todo \subseteq KeysFrom(tab, tab.cursor)

----------------------------------------------------------------------------
(* Induction over positions, and functions defined from one to the next *)

\* What holds at 0 and goes from each position to the next holds up to N.
LEMMA PositionInduction ==
    ASSUME NEW N \in Nat, NEW P, 0 \in P,
           \A n \in 0..(N - 1) : n \in P => n + 1 \in P
    PROVE  \A n \in 0..N : n \in P
<1> DEFINE B == {n \in 0..N : n \notin P}
<1>1. SUFFICES ASSUME B # {}
               PROVE  FALSE
  OBVIOUS
<1> DEFINE Less == {xy \in Nat \X Nat : xy[1] < xy[2]}
<1>2. IsWellFoundedOn(Less, Nat)
  BY NatLessThanWellFounded DEF OpToRel
<1> HIDE DEF Less
<1>3. B \subseteq Nat
  OBVIOUS
<1>4. PICK m \in B : \A n \in B : ~(<<n, m>> \in Less)
  BY <1>1, <1>2, <1>3, WFMin
<1>5. m \in 0..N /\ m \notin P
  BY <1>4
<1>6. m # 0
  BY <1>5
<1>7. m - 1 \in 0..(N - 1) /\ (m - 1) + 1 = m
  BY <1>5, <1>6
<1>8. m - 1 \notin P
  BY <1>5, <1>7
<1>9. m - 1 \in B
  BY <1>7, <1>8
<1>10. <<m - 1, m>> \in Less
  BY <1>5, <1>7 DEF Less
<1> QED
  BY <1>4, <1>9, <1>10

\* f starts with b, and g takes each value of it to the next.
Iterates(f, b, N, g) ==
    /\ f[0] = b
    /\ \A n \in 1..N : f[n] = g[<<n, f[n - 1]>>]

\* A value for 0 and a step from each value to the next make a function.
LEMMA Recursion ==
    ASSUME NEW S, NEW b \in S, NEW N \in Nat, NEW g \in [(1..N) \X S -> S]
    PROVE  \E f \in [0..N -> S] : Iterates(f, b, N, g)
<1> DEFINE P == {m \in 0..N : \E f \in [0..m -> S] :
                    f[0] = b /\ \A n \in 1..m : f[n] = g[<<n, f[n - 1]>>]}
<1>1. 0 \in P
  <2> DEFINE f == [n \in 0..0 |-> b]
  <2>1. f \in [0..0 -> S] /\ f[0] = b /\ \A n \in 1..0 : f[n] = g[<<n, f[n - 1]>>]
    OBVIOUS
  <2> HIDE DEF f
  <2>2. \E h \in [0..0 -> S] : h[0] = b /\ \A n \in 1..0 : h[n] = g[<<n, h[n - 1]>>]
    BY <2>1
  <2>3. 0 \in 0..N
    OBVIOUS
  <2> QED
    BY <2>2, <2>3
<1>2. ASSUME NEW m \in 0..(N - 1), m \in P
      PROVE  m + 1 \in P
  <2>1. PICK f \in [0..m -> S] : f[0] = b /\ \A n \in 1..m : f[n] = g[<<n, f[n - 1]>>]
    BY <1>2
  <2> DEFINE h == [n \in 0..(m + 1) |-> IF n = m + 1 THEN g[<<m + 1, f[m]>>] ELSE f[n]]
  <2>2. m \in Nat /\ m \in 0..m /\ m + 1 \in 1..N /\ m + 1 \in 0..N
    OBVIOUS
  <2>3. g[<<m + 1, f[m]>>] \in S
    BY <2>1, <2>2
  <2>4. \A n \in 0..(m + 1) : n # m + 1 => n \in 0..m
    BY <2>2
  <2>5. h \in [0..(m + 1) -> S]
    BY <2>1, <2>3, <2>4
  <2>6. \A n \in 0..m : h[n] = f[n]
    BY <2>2
  <2>7. h[m + 1] = g[<<m + 1, f[m]>>]
    BY <2>2
  <2> HIDE DEF h
  <2>8. ASSUME NEW n \in 1..(m + 1)
        PROVE  h[n] = g[<<n, h[n - 1]>>]
    <3>1. CASE n = m + 1
      <4>1. n - 1 = m
        BY <2>2, <3>1
      <4> QED
        BY <2>2, <2>6, <2>7, <3>1, <4>1
    <3>2. CASE n # m + 1
      <4>1. n \in 1..m /\ n \in 0..m /\ n - 1 \in 0..m
        BY <2>2, <3>2
      <4> QED
        BY <2>1, <2>6, <4>1
    <3> QED
      BY <3>1, <3>2
  <2>9. h[0] = b
    BY <2>1, <2>2, <2>6
  <2> QED
    BY <2>2, <2>5, <2>8, <2>9
<1> HIDE DEF P
<1>3. N \in P
  <2>1. \A n \in 0..N : n \in P
    BY <1>1, <1>2, PositionInduction
  <2> QED
    BY <2>1
<1> QED
  BY <1>3 DEF P, Iterates

----------------------------------------------------------------------------
(* Entries linked one after another *)

\* What is linked is no longer than there are entries.
LEMMA LinkedLength ==
    ASSUME NEW q \in Seq(Slots), IsInjective(q)
    PROVE  /\ Cardinality(Slots) \in Nat
           /\ Len(q) <= Cardinality(Slots)
           /\ IsFiniteSet(ToSet(q)) /\ Cardinality(ToSet(q)) = Len(q)
<1>1. Len(q) \in Nat /\ DOMAIN q = 1..Len(q) /\ q \in [1..Len(q) -> Slots]
  BY LenProperties
<1>2. q \in Injection(1..Len(q), Slots)
  BY <1>1 DEF Injection, IsInjective
<1>3. q \in Bijection(1..Len(q), ToSet(q))
  BY <1>1, <1>2 DEF Bijection, Injection, Surjection, ToSet
<1>4. IsFiniteSet(1..Len(q)) /\ Cardinality(1..Len(q)) = Len(q)
  BY <1>1, FS_Interval
<1>5. ExistsBijection(1..Len(q), ToSet(q))
  BY <1>3 DEF ExistsBijection
<1> QED
  BY <1>2, <1>4, <1>5, SlotsAssumption, FS_Injection, FS_Bijection, FS_CardinalityType

\* The first n + 1 entries of q, from the first n.
LEMMA FirstOnes ==
    ASSUME NEW q \in Seq(Slots), NEW n \in 0..(Len(q) - 1)
    PROVE  /\ SubSeq(q, 1, n) \in Seq(Slots) /\ Len(SubSeq(q, 1, n)) = n
           /\ \A j \in 1..n : SubSeq(q, 1, n)[j] = q[j]
           /\ SubSeq(q, 1, n + 1) = Append(SubSeq(q, 1, n), q[n + 1])
           /\ SubSeq(q, 1, 0) = <<>> /\ SubSeq(q, 1, Len(q)) = q
<1>1. Len(q) \in Nat /\ \A j \in 1..Len(q) : q[j] \in Slots
  BY LenProperties, ElementOfSeq
<1>2. ASSUME NEW m \in 0..Len(q)
      PROVE  /\ SubSeq(q, 1, m) \in Seq(Slots) /\ Len(SubSeq(q, 1, m)) = m
             /\ \A j \in 1..m : SubSeq(q, 1, m)[j] = q[j]
  <2>1. 1 \in Int /\ m \in Int /\ \A j \in 1..m : q[j] \in Slots
    BY <1>1
  <2>2. /\ SubSeq(q, 1, m) \in Seq(Slots)
        /\ Len(SubSeq(q, 1, m)) = IF 1 <= m THEN m - 1 + 1 ELSE 0
        /\ \A j \in 1..(m - 1 + 1) : SubSeq(q, 1, m)[j] = q[1 + j - 1]
    BY <2>1, SubSeqProperties
  <2> QED
    BY <1>1, <2>2
<1> DEFINE a == SubSeq(q, 1, n)
           b == SubSeq(q, 1, n + 1)
           z == SubSeq(q, 1, 0)
           w == SubSeq(q, 1, Len(q))
<1>3. a \in Seq(Slots) /\ Len(a) = n /\ \A j \in 1..n : a[j] = q[j]
  BY <1>1, <1>2
<1>4. b \in Seq(Slots) /\ Len(b) = n + 1 /\ \A j \in 1..(n + 1) : b[j] = q[j]
  BY <1>1, <1>2
<1>5. z \in Seq(Slots) /\ Len(z) = 0
  BY <1>1, <1>2
<1>6. w \in Seq(Slots) /\ Len(w) = Len(q) /\ \A j \in 1..Len(q) : w[j] = q[j]
  BY <1>1, <1>2
<1> HIDE DEF a, b, z, w
<1>7. q[n + 1] \in Slots
  BY <1>1
<1>8. /\ Append(a, q[n + 1]) \in Seq(Slots) /\ Len(Append(a, q[n + 1])) = n + 1
      /\ \A j \in 1..n : Append(a, q[n + 1])[j] = a[j]
      /\ Append(a, q[n + 1])[n + 1] = q[n + 1]
  BY <1>3, <1>7, AppendProperties
<1>9. b = Append(a, q[n + 1])
  <2>1. \A j \in 1..(n + 1) : b[j] = Append(a, q[n + 1])[j]
    <3>1. \A j \in 1..(n + 1) : j \in 1..n \/ j = n + 1
      OBVIOUS
    <3> QED
      BY <1>3, <1>4, <1>8, <3>1
  <2> QED
    BY <1>4, <1>8, <2>1, SeqEqual
<1>10. z = <<>>
  BY <1>5, EmptySeq
<1>11. w = q
  BY <1>6, SeqEqual
<1> QED
  BY <1>3, <1>9, <1>10, <1>11 DEF a, b, z, w

\* Following the links from the first entry meets exactly the entries linked.
LEMMA FollowIs ==
    ASSUME NEW fwd, NEW back, NEW first, NEW q, NEW x, Linked(fwd, back, first, q, x)
    PROVE  Follow(fwd, first) = q
<1> DEFINE K == Cardinality(Slots)
           Step(m) == LET e == IF m = <<>> THEN first ELSE fwd[Last(m)]
                      IN IF e = Nil THEN m ELSE Append(m, e)
           Short(n) == IF n <= Len(q) THEN n ELSE Len(q)
           F == [n \in 0..K |-> SubSeq(q, 1, Short(n))]
<1>1. /\ q \in Seq(Slots) /\ IsInjective(q)
      /\ first = IF q = <<>> THEN Nil ELSE q[1]
      /\ \A n \in 1..Len(q) : fwd[q[n]] = IF n = Len(q) THEN Nil ELSE q[n + 1]
  BY DEF Linked
<1>2. Len(q) \in Nat /\ K \in Nat /\ Len(q) <= K /\ \A n \in 1..Len(q) : q[n] \in Slots
  BY <1>1, LenProperties, LinkedLength, ElementOfSeq
<1>3. Nil \notin Slots
  BY KeysAssumption
<1>4. SubSeq(q, 1, 0) = <<>> /\ SubSeq(q, 1, Len(q)) = q
  <2>1. CASE Len(q) = 0
    <3>1. q = <<>>
      BY <1>1, <2>1, EmptySeq
    <3> QED
      BY <2>1, <3>1
  <2>2. CASE Len(q) # 0
    <3>1. 0 \in 0..(Len(q) - 1)
      BY <1>2, <2>2
    <3> QED
      BY <1>1, <3>1, FirstOnes
  <2> QED
    BY <2>1, <2>2
<1>5. ASSUME NEW n \in 0..(Len(q) - 1)
      PROVE  Step(SubSeq(q, 1, n)) = SubSeq(q, 1, n + 1)
  <2>1. PICK a : a = SubSeq(q, 1, n)
    OBVIOUS
  <2>2. /\ a \in Seq(Slots) /\ Len(a) = n
        /\ \A j \in 1..n : a[j] = q[j]
        /\ SubSeq(q, 1, n + 1) = Append(a, q[n + 1])
    BY <1>1, <2>1, FirstOnes
  <2>3. n + 1 \in 1..Len(q) /\ q[n + 1] \in Slots /\ n \in Nat
    BY <1>2
  <2>4. (IF a = <<>> THEN first ELSE fwd[Last(a)]) = q[n + 1]
    <3>1. CASE n = 0
      <4>1. a = <<>>
        BY <2>2, <3>1, EmptySeq
      <4>2. q # <<>>
        BY <1>2, <3>1, EmptySeq
      <4> QED
        BY <1>1, <3>1, <4>1, <4>2
    <3>2. CASE n # 0
      <4>1. a # <<>>
        BY <2>2, <3>2, EmptySeq
      <4>2. n \in 1..n /\ n \in 1..Len(q) /\ n # Len(q)
        BY <1>2, <3>2
      <4>3. Last(a) = q[n]
        BY <2>2, <4>2 DEF Last
      <4> QED
        BY <1>1, <4>1, <4>2, <4>3
    <3> QED
      BY <3>1, <3>2
  <2>5. q[n + 1] # Nil
    BY <1>3, <2>3
  <2> QED
    BY <2>1, <2>2, <2>4, <2>5
<1>6. Step(q) = q
  <2>1. CASE q = <<>>
    BY <1>1, <2>1
  <2>2. CASE q # <<>>
    <3>1. Len(q) \in 1..Len(q)
      BY <1>1, <1>2, <2>2, EmptySeq
    <3>2. fwd[Last(q)] = Nil
      BY <1>1, <3>1 DEF Last
    <3> QED
      BY <2>2, <3>2
  <2> QED
    BY <2>1, <2>2
<1> HIDE DEF Step, K
<1>7. ASSUME NEW n \in 1..K
      PROVE  SubSeq(q, 1, Short(n)) = Step(SubSeq(q, 1, Short(n - 1)))
  <2>1. CASE n <= Len(q)
    <3>1. n - 1 \in 0..(Len(q) - 1) /\ (n - 1) + 1 = n /\ Short(n) = n /\ Short(n - 1) = n - 1
      BY <1>2, <2>1
    <3> QED
      BY <1>5, <3>1
  <2>2. CASE ~(n <= Len(q))
    <3>1. Short(n) = Len(q) /\ Short(n - 1) = Len(q)
      BY <1>2, <2>2
    <3> QED
      BY <1>4, <1>6, <3>1
  <2> QED
    BY <2>1, <2>2
<1>8. F = [n \in 0..K |-> IF n = 0 THEN <<>> ELSE Step(F[n - 1])]
  <2>1. ASSUME NEW n \in 0..K
        PROVE  F[n] = IF n = 0 THEN <<>> ELSE Step(F[n - 1])
    <3>1. CASE n = 0
      BY <1>2, <1>4, <3>1
    <3>2. CASE n # 0
      <4>1. n \in 1..K /\ n - 1 \in 0..K
        BY <1>2, <3>2
      <4> QED
        BY <1>7, <3>2, <4>1
    <3> QED
      BY <3>1, <3>2
  <2> QED
    BY <2>1
<1>9. ASSUME NEW G, G = [n \in 0..K |-> IF n = 0 THEN <<>> ELSE Step(G[n - 1])]
      PROVE  G[K] = F[K]
  <2> DEFINE P == {n \in 0..K : G[n] = F[n]}
  <2>1. \A n \in 0..K : G[n] = IF n = 0 THEN <<>> ELSE Step(G[n - 1])
    BY <1>9
  <2>2. \A n \in 0..K : F[n] = IF n = 0 THEN <<>> ELSE Step(F[n - 1])
    BY <1>8
  <2> HIDE DEF F
  <2>3. 0 \in P
    BY <1>2, <2>1, <2>2
  <2>4. ASSUME NEW n \in 0..(K - 1), n \in P
        PROVE  n + 1 \in P
    <3>1. n + 1 \in 0..K /\ n + 1 # 0 /\ (n + 1) - 1 = n
      BY <1>2
    <3> QED
      BY <2>1, <2>2, <2>4, <3>1
  <2> HIDE DEF P
  <2>5. \A n \in 0..K : n \in P
    BY <1>2, <2>3, <2>4, PositionInduction
  <2> QED
    BY <1>2, <2>5 DEF P
<1>10. F[K] = q
  <2>1. K \in 0..K /\ Short(K) = Len(q)
    BY <1>2
  <2> QED
    BY <1>4, <2>1
<1> HIDE DEF F
<1> DEFINE G == CHOOSE G : G = [n \in 0..K |-> IF n = 0 THEN <<>> ELSE Step(G[n - 1])]
<1>11. G = [n \in 0..K |-> IF n = 0 THEN <<>> ELSE Step(G[n - 1])]
  BY <1>8
<1>12. Follow(fwd, first) = G[K]
  BY DEF Follow, K, Step
<1> QED
  BY <1>9, <1>10, <1>11, <1>12

\* Only the entries that are linked matter.
LEMMA LinkedFrame ==
    ASSUME NEW fwd, NEW back, NEW first, NEW q, NEW x, Linked(fwd, back, first, q, x),
           NEW fwd2, NEW back2,
           \A n \in 1..Len(q) : fwd2[q[n]] = fwd[q[n]] /\ back2[q[n]] = back[q[n]]
    PROVE  Linked(fwd2, back2, first, q, x)
BY DEF Linked

\* s is linked between the entries at n and n + 1 of q, behind x if it is first.
PutIn(fwd, back, q, n, s, x, fwd2, back2) ==
    /\ fwd2[s] = IF n = Len(q) THEN Nil ELSE q[n + 1]
    /\ back2[s] = IF n = 0 THEN x ELSE q[n]
    /\ \A m \in 1..Len(q) : fwd2[q[m]] = IF m = n THEN s ELSE fwd[q[m]]
    /\ \A m \in 1..Len(q) : back2[q[m]] = IF m = n + 1 THEN s ELSE back[q[m]]

\* An entry that is not linked yet is put at place n + 1.
LEMMA LinkedInsert ==
    ASSUME NEW fwd, NEW back, NEW first, NEW q, NEW x, Linked(fwd, back, first, q, x),
           NEW s \in Slots, s \notin ToSet(q), NEW n \in 0..Len(q),
           NEW fwd2, NEW back2, NEW first2,
           first2 = IF n = 0 THEN s ELSE first,
           PutIn(fwd, back, q, n, s, x, fwd2, back2)
    PROVE  /\ Linked(fwd2, back2, first2, InsertAt(q, n + 1, s), x)
           /\ ToSet(InsertAt(q, n + 1, s)) = ToSet(q) \cup {s}
<1>1. /\ q \in Seq(Slots) /\ IsInjective(q)
      /\ first = IF q = <<>> THEN Nil ELSE q[1]
      /\ \A m \in 1..Len(q) : fwd[q[m]] = IF m = Len(q) THEN Nil ELSE q[m + 1]
      /\ \A m \in 1..Len(q) : back[q[m]] = IF m = 1 THEN x ELSE q[m - 1]
  BY DEF Linked
<1>0. /\ fwd2[s] = IF n = Len(q) THEN Nil ELSE q[n + 1]
      /\ back2[s] = IF n = 0 THEN x ELSE q[n]
      /\ \A m \in 1..Len(q) : fwd2[q[m]] = IF m = n THEN s ELSE fwd[q[m]]
      /\ \A m \in 1..Len(q) : back2[q[m]] = IF m = n + 1 THEN s ELSE back[q[m]]
  BY DEF PutIn
<1>2. Len(q) \in Nat /\ n + 1 \in 1..(Len(q) + 1)
  BY <1>1, LenProperties
<1>3. PICK r : r = InsertAt(q, n + 1, s)
  OBVIOUS
<1>4. /\ r \in Seq(Slots) /\ Len(r) = Len(q) + 1
      /\ \A j \in 1..(Len(q) + 1) :
            r[j] = IF j < n + 1 THEN q[j] ELSE IF j = n + 1 THEN s ELSE q[j - 1]
  <2>1. \A i \in 1..(Len(q) + 1) :
          /\ InsertAt(q, i, s) \in Seq(Slots) /\ Len(InsertAt(q, i, s)) = Len(q) + 1
          /\ \A j \in 1..(Len(q) + 1) :
                InsertAt(q, i, s)[j] = IF j < i THEN q[j] ELSE IF j = i THEN s ELSE q[j - 1]
    BY <1>1, InsertAtProperties
  <2> QED
    BY <1>2, <1>3, <2>1
<1>5. IsInjective(r) /\ ToSet(r) = ToSet(q) \cup {s}
  BY <1>1, <1>2, <1>3, InsertAtChain
<1>6. r # <<>> /\ first2 = r[1]
  <2>1. r # <<>>
    BY <1>2, <1>4, EmptySeq
  <2>2. CASE n = 0
    BY <1>2, <1>4, <2>2
  <2>3. CASE n # 0
    <3>1. n \in 1..Len(q) /\ q # <<>>
      BY <1>1, <1>2, <2>3, EmptySeq
    <3>2. 1 \in 1..(Len(q) + 1) /\ 1 < n + 1
      BY <1>2, <2>3
    <3>3. r[1] = q[1]
      BY <1>4, <3>2
    <3> QED
      BY <1>1, <2>1, <2>3, <3>1, <3>3
  <2> QED
    BY <2>1, <2>2, <2>3
<1>7. ASSUME NEW j \in 1..Len(r)
      PROVE  fwd2[r[j]] = IF j = Len(r) THEN Nil ELSE r[j + 1]
  <2>1. CASE j < n
    <3>1. j \in 1..Len(q) /\ j # n /\ j # Len(q) /\ j < n + 1 /\ j + 1 < n + 1 /\ j + 1 \in 1..(Len(q) + 1) /\ j # Len(r)
      BY <1>2, <1>4, <2>1
    <3>2. j \in 1..(Len(q) + 1)
      BY <1>4
    <3>3. r[j] = q[j] /\ r[j + 1] = q[j + 1]
      BY <1>4, <3>1, <3>2
    <3>4. fwd2[q[j]] = fwd[q[j]] /\ fwd[q[j]] = q[j + 1]
      BY <1>0, <1>1, <3>1
    <3> QED
      BY <3>1, <3>3, <3>4
  <2>2. CASE j = n
    <3>1. j \in 1..Len(q) /\ j < n + 1 /\ j + 1 = n + 1 /\ j + 1 \in 1..(Len(q) + 1) /\ j # Len(r)
      BY <1>2, <1>4, <2>2
    <3>2. r[j] = q[j] /\ r[j + 1] = s
      BY <1>4, <3>1
    <3> QED
      BY <1>0, <2>2, <3>1, <3>2
  <2>3. CASE j = n + 1
    <3>1. r[j] = s
      BY <1>4, <2>3
    <3>2. CASE n = Len(q)
      BY <1>0, <1>4, <2>3, <3>1, <3>2
    <3>3. CASE n # Len(q)
      <4>1. j # Len(r) /\ j + 1 \in 1..(Len(q) + 1) /\ ~(j + 1 < n + 1) /\ j + 1 # n + 1 /\ (j + 1) - 1 = n + 1
        BY <1>2, <1>4, <2>3, <3>3
      <4>2. r[j + 1] = q[n + 1]
        BY <1>4, <4>1
      <4> QED
        BY <1>0, <3>1, <3>3, <4>1, <4>2
    <3> QED
      BY <3>2, <3>3
  <2>4. CASE j > n + 1
    <3>1. PICK m \in 1..Len(q) : m = j - 1
      BY <1>2, <1>4, <2>4
    <3>2. j \in 1..(Len(q) + 1) /\ ~(j < n + 1) /\ j # n + 1 /\ m # n
      BY <1>2, <1>4, <2>4, <3>1
    <3>3. r[j] = q[m]
      BY <1>4, <3>1, <3>2
    <3>4. fwd2[r[j]] = IF m = Len(q) THEN Nil ELSE q[m + 1]
      BY <1>0, <1>1, <3>2, <3>3
    <3>5. CASE m = Len(q)
      BY <1>2, <1>4, <3>1, <3>4, <3>5
    <3>6. CASE m # Len(q)
      <4>1. j # Len(r) /\ j + 1 \in 1..(Len(q) + 1) /\ ~(j + 1 < n + 1) /\ j + 1 # n + 1 /\ (j + 1) - 1 = m + 1
        BY <1>2, <1>4, <2>4, <3>1, <3>6
      <4>2. r[j + 1] = q[m + 1]
        BY <1>4, <4>1
      <4> QED
        BY <3>4, <3>6, <4>1, <4>2
    <3> QED
      BY <3>5, <3>6
  <2> QED
    BY <1>2, <1>4, <2>1, <2>2, <2>3, <2>4
<1>8. ASSUME NEW j \in 1..Len(r)
      PROVE  back2[r[j]] = IF j = 1 THEN x ELSE r[j - 1]
  <2>1. CASE j < n + 1
    <3>1. j \in 1..Len(q) /\ j # n + 1 /\ j \in 1..(Len(q) + 1)
      BY <1>2, <1>4, <2>1
    <3>2. back2[r[j]] = IF j = 1 THEN x ELSE q[j - 1]
      BY <1>0, <1>1, <1>4, <2>1, <3>1
    <3>3. CASE j = 1
      BY <3>2, <3>3
    <3>4. CASE j # 1
      <4>1. j - 1 \in 1..(Len(q) + 1) /\ j - 1 < n + 1
        BY <1>2, <2>1, <3>1, <3>4
      <4> QED
        BY <1>4, <3>2, <3>4, <4>1
    <3> QED
      BY <3>3, <3>4
  <2>2. CASE j = n + 1
    <3>1. r[j] = s
      BY <1>4, <2>2
    <3>2. CASE n = 0
      BY <1>0, <2>2, <3>1, <3>2
    <3>3. CASE n # 0
      <4>1. j # 1 /\ j - 1 = n /\ n \in 1..(Len(q) + 1) /\ n < n + 1
        BY <1>2, <2>2, <3>3
      <4>2. r[n] = q[n]
        BY <1>4, <4>1
      <4> QED
        BY <1>0, <3>1, <3>3, <4>1, <4>2
    <3> QED
      BY <3>2, <3>3
  <2>3. CASE j > n + 1
    <3>1. PICK m \in 1..Len(q) : m = j - 1
      BY <1>2, <1>4, <2>3
    <3>2. j \in 1..(Len(q) + 1) /\ ~(j < n + 1) /\ j # n + 1 /\ j # 1
      BY <1>2, <1>4, <2>3
    <3>3. r[j] = q[m]
      BY <1>4, <3>1, <3>2
    <3>4. CASE m = n + 1
      <4>1. j - 1 = n + 1 /\ n + 1 \in 1..(Len(q) + 1) /\ ~(n + 1 < n + 1)
        BY <1>2, <3>1, <3>4
      <4>2. r[j - 1] = s
        BY <1>4, <4>1
      <4> QED
        BY <1>0, <3>2, <3>3, <3>4, <4>2
    <3>5. CASE m # n + 1
      <4>1. j - 1 \in 1..(Len(q) + 1) /\ ~(j - 1 < n + 1) /\ j - 1 # n + 1 /\ (j - 1) - 1 = m - 1 /\ m # 1
        BY <1>2, <2>3, <3>1, <3>2, <3>5
      <4>2. r[j - 1] = q[m - 1]
        BY <1>4, <4>1
      <4>3. back2[r[j]] = q[m - 1]
        BY <1>0, <1>1, <3>3, <3>5, <4>1
      <4> QED
        BY <3>2, <4>2, <4>3
    <3> QED
      BY <3>4, <3>5
  <2> QED
    BY <1>2, <1>4, <2>1, <2>2, <2>3
<1> QED
  BY <1>3, <1>4, <1>5, <1>6, <1>7, <1>8 DEF Linked

\* The neighbours of the entry at place n of q take over its links.
TakenOut(fwd, back, q, n, fwd2, back2) ==
    \A m \in 1..Len(q) : m # n =>
        /\ fwd2[q[m]] = IF m + 1 = n THEN fwd[q[n]] ELSE fwd[q[m]]
        /\ back2[q[m]] = IF m = n + 1 THEN back[q[n]] ELSE back[q[m]]

\* The entry at place n is taken out.
LEMMA LinkedRemove ==
    ASSUME NEW fwd, NEW back, NEW first, NEW q, NEW x, Linked(fwd, back, first, q, x),
           NEW n \in 1..Len(q),
           NEW fwd2, NEW back2, NEW first2,
           first2 = IF n = 1 THEN fwd[q[n]] ELSE first,
           TakenOut(fwd, back, q, n, fwd2, back2)
    PROVE  /\ Linked(fwd2, back2, first2, RemoveAt(q, n), x)
           /\ ToSet(RemoveAt(q, n)) = ToSet(q) \ {q[n]}
<1>1. /\ q \in Seq(Slots) /\ IsInjective(q)
      /\ \A m \in 1..Len(q) : fwd[q[m]] = IF m = Len(q) THEN Nil ELSE q[m + 1]
      /\ \A m \in 1..Len(q) : back[q[m]] = IF m = 1 THEN x ELSE q[m - 1]
  BY DEF Linked
<1>2. Len(q) \in Nat
  BY <1>1, LenProperties
<1>0. DOMAIN q = 1..Len(q) /\ first = q[1]
  BY <1>1, LenProperties, EmptySeq DEF Linked
<1>3. PICK r : r = RemoveAt(q, n)
  OBVIOUS
<1>4. /\ r \in Seq(Slots) /\ Len(r) = Len(q) - 1
      /\ \A j \in 1..(Len(q) - 1) : r[j] = IF j < n THEN q[j] ELSE q[j + 1]
  BY <1>1, <1>3, RemoveAtProperties
<1>5. DOMAIN r = 1..Len(r)
  BY <1>4, LenProperties
<1>6. ASSUME NEW j \in 1..Len(r)
      PROVE  \E m \in 1..Len(q) : /\ m # n /\ r[j] = q[m]
                                  /\ m = IF j < n THEN j ELSE j + 1
  <2>1. CASE j < n
    BY <1>2, <1>4, <2>1
  <2>2. CASE ~(j < n)
    BY <1>2, <1>4, <2>2
  <2> QED
    BY <2>1, <2>2
<1>7. \A a, b \in 1..Len(q) : q[a] = q[b] => a = b
  BY <1>0, <1>1, <1>2 DEF IsInjective
<1>8. IsInjective(r)
  <2>1. ASSUME NEW a \in 1..Len(r), NEW b \in 1..Len(r), r[a] = r[b]
        PROVE  a = b
    <3>1. PICK c \in 1..Len(q) : r[a] = q[c] /\ c = IF a < n THEN a ELSE a + 1
      BY <1>6
    <3>2. PICK d \in 1..Len(q) : r[b] = q[d] /\ d = IF b < n THEN b ELSE b + 1
      BY <1>6
    <3>3. c = d
      BY <1>7, <2>1, <3>1, <3>2
    <3> QED
      BY <3>1, <3>2, <3>3
  <2> QED
    BY <1>5, <2>1 DEF IsInjective
<1>9. ToSet(r) = ToSet(q) \ {q[n]}
  <2>1. ASSUME NEW m \in 1..Len(q), m # n
        PROVE  \E j \in 1..Len(r) : r[j] = q[m]
    <3>1. CASE m < n
      BY <1>2, <1>4, <3>1
    <3>2. CASE m > n
      <4>1. m - 1 \in 1..(Len(q) - 1) /\ ~(m - 1 < n) /\ (m - 1) + 1 = m
        BY <1>2, <3>2
      <4> QED
        BY <1>4, <4>1
    <3> QED
      BY <2>1, <3>1, <3>2
  <2>2. \A m \in 1..Len(q) : q[m] # q[n] => q[m] \in ToSet(r)
    BY <1>5, <2>1 DEF ToSet
  <2>3. \A j \in 1..Len(r) : r[j] \in ToSet(q) /\ r[j] # q[n]
    BY <1>0, <1>6, <1>7 DEF ToSet
  <2> QED
    BY <1>0, <1>5, <2>2, <2>3 DEF ToSet
<1>10. first2 = IF Len(r) = 0 THEN Nil ELSE r[1]
  <2>1. CASE n = 1 /\ Len(q) = 1
    <3>1. Len(r) = 0
      BY <1>4, <2>1
    <3>2. fwd[q[n]] = Nil
      BY <1>1, <2>1
    <3> QED
      BY <2>1, <3>1, <3>2
  <2>2. CASE n = 1 /\ Len(q) # 1
    <3>1. 1 \in 1..(Len(q) - 1) /\ ~(1 < n) /\ Len(r) # 0 /\ n # Len(q)
      BY <1>2, <1>4, <2>2
    <3>2. r[1] = q[n + 1]
      BY <1>4, <2>2, <3>1
    <3>3. fwd[q[n]] = q[n + 1]
      BY <1>1, <3>1
    <3> QED
      BY <2>2, <3>1, <3>2, <3>3
  <2>3. CASE n # 1
    <3>1. 1 \in 1..(Len(q) - 1) /\ 1 < n /\ Len(r) # 0
      BY <1>2, <1>4, <2>3
    <3>2. r[1] = q[1]
      BY <1>4, <3>1
    <3> QED
      BY <1>0, <2>3, <3>1, <3>2
  <2> QED
    BY <2>1, <2>2, <2>3
<1>13. Len(r) = 0 <=> r = <<>>
  BY <1>4, EmptySeq
<1>11. ASSUME NEW j \in 1..Len(r)
       PROVE  fwd2[r[j]] = IF j = Len(r) THEN Nil ELSE r[j + 1]
  <2>1. CASE j + 1 < n
    <3>1. j \in 1..Len(q) /\ j \in 1..(Len(q) - 1) /\ j < n /\ j # n /\ j + 1 # n /\ j # Len(q) /\ j # Len(r) /\ j + 1 \in 1..(Len(q) - 1)
      BY <1>2, <1>4, <2>1
    <3>2. r[j] = q[j] /\ r[j + 1] = q[j + 1]
      BY <1>4, <2>1, <3>1
    <3>3. fwd2[q[j]] = fwd[q[j]]
      BY <3>1 DEF TakenOut
    <3> QED
      BY <1>1, <3>1, <3>2, <3>3
  <2>2. CASE j + 1 = n
    <3>1. j \in 1..Len(q) /\ j \in 1..(Len(q) - 1) /\ j < n /\ j # n
      BY <1>2, <1>4, <2>2
    <3>2. r[j] = q[j] /\ fwd2[q[j]] = fwd[q[n]]
      BY <1>4, <2>2, <3>1 DEF TakenOut
    <3>3. fwd[q[n]] = IF n = Len(q) THEN Nil ELSE q[n + 1]
      BY <1>1
    <3>4. CASE n = Len(q)
      BY <1>2, <1>4, <2>2, <3>2, <3>3, <3>4
    <3>5. CASE n # Len(q)
      <4>1. j # Len(r) /\ j + 1 \in 1..(Len(q) - 1) /\ ~(j + 1 < n) /\ (j + 1) + 1 = n + 1
        BY <1>2, <1>4, <2>2, <3>5
      <4>2. r[j + 1] = q[n + 1]
        BY <1>4, <4>1
      <4> QED
        BY <3>2, <3>3, <3>5, <4>1, <4>2
    <3> QED
      BY <3>4, <3>5
  <2>3. CASE j + 1 > n
    <3>1. PICK m \in 1..Len(q) : m = j + 1
      BY <1>2, <1>4
    <3>2. j \in 1..(Len(q) - 1) /\ ~(j < n) /\ m # n /\ m + 1 # n
      BY <1>2, <1>4, <2>3, <3>1
    <3>3. r[j] = q[m]
      BY <1>4, <3>1, <3>2
    <3>4. fwd2[r[j]] = IF m = Len(q) THEN Nil ELSE q[m + 1]
      <4>1. fwd2[q[m]] = fwd[q[m]]
        BY <3>2 DEF TakenOut
      <4> QED
        BY <1>1, <3>3, <4>1
    <3>5. CASE m = Len(q)
      BY <1>2, <1>4, <3>1, <3>4, <3>5
    <3>6. CASE m # Len(q)
      <4>1. j # Len(r) /\ j + 1 \in 1..(Len(q) - 1) /\ ~(j + 1 < n) /\ (j + 1) + 1 = m + 1
        BY <1>2, <1>4, <2>3, <3>1, <3>6
      <4>2. r[j + 1] = q[m + 1]
        BY <1>4, <4>1
      <4> QED
        BY <3>4, <3>6, <4>1, <4>2
    <3> QED
      BY <3>5, <3>6
  <2> QED
    BY <1>2, <1>4, <2>1, <2>2, <2>3
<1>12. ASSUME NEW j \in 1..Len(r)
       PROVE  back2[r[j]] = IF j = 1 THEN x ELSE r[j - 1]
  <2>1. CASE j < n
    <3>1. j \in 1..Len(q) /\ j \in 1..(Len(q) - 1) /\ j # n /\ j # n + 1
      BY <1>2, <1>4, <2>1
    <3>2. back2[r[j]] = IF j = 1 THEN x ELSE q[j - 1]
      <4>1. back2[q[j]] = back[q[j]]
        BY <3>1 DEF TakenOut
      <4> QED
        BY <1>1, <1>4, <2>1, <3>1, <4>1
    <3>3. CASE j = 1
      BY <3>2, <3>3
    <3>4. CASE j # 1
      <4>1. j - 1 \in 1..(Len(q) - 1) /\ j - 1 < n
        BY <1>2, <2>1, <3>1, <3>4
      <4> QED
        BY <1>4, <3>2, <3>4, <4>1
    <3> QED
      BY <3>3, <3>4
  <2>2. CASE j = n
    <3>1. PICK m \in 1..Len(q) : m = n + 1
      BY <1>2, <1>4, <2>2
    <3>2. j \in 1..(Len(q) - 1) /\ ~(j < n) /\ m # n /\ j + 1 = m
      BY <1>2, <1>4, <2>2, <3>1
    <3>3. r[j] = q[m] /\ back2[q[m]] = back[q[n]]
      BY <1>4, <3>1, <3>2 DEF TakenOut
    <3>4. back[q[n]] = IF n = 1 THEN x ELSE q[n - 1]
      BY <1>1
    <3>5. CASE j = 1
      BY <2>2, <3>3, <3>4, <3>5
    <3>6. CASE j # 1
      <4>1. j - 1 \in 1..(Len(q) - 1) /\ j - 1 < n /\ j - 1 = n - 1
        BY <1>2, <1>4, <2>2, <3>6
      <4> QED
        BY <1>4, <2>2, <3>3, <3>4, <3>6, <4>1
    <3> QED
      BY <3>5, <3>6
  <2>3. CASE j > n
    <3>1. PICK m \in 1..Len(q) : m = j + 1
      BY <1>2, <1>4
    <3>2. j \in 1..(Len(q) - 1) /\ ~(j < n) /\ m # n /\ m # n + 1 /\ j # 1 /\ m # 1
      BY <1>2, <1>4, <2>3, <3>1
    <3>3. r[j] = q[m] /\ back2[q[m]] = q[m - 1]
      <4>1. back2[q[m]] = back[q[m]]
        BY <3>2 DEF TakenOut
      <4> QED
        BY <1>1, <1>4, <3>1, <3>2, <4>1
    <3>4. j - 1 \in 1..(Len(q) - 1) /\ ~(j - 1 < n) /\ (j - 1) + 1 = m - 1
      BY <1>2, <1>4, <2>3, <3>1
    <3>5. r[j - 1] = q[m - 1]
      BY <1>4, <3>4
    <3> QED
      BY <3>2, <3>3, <3>5
  <2> QED
    BY <1>2, <1>4, <2>1, <2>2, <2>3
<1> QED
  BY <1>3, <1>4, <1>8, <1>9, <1>10, <1>11, <1>12, <1>13 DEF Linked

\* The entry at place n of q has become d, and its neighbours link to d.
Replaced(fwd, back, q, n, d, fwd2, back2) ==
    /\ fwd2[d] = fwd[q[n]] /\ back2[d] = back[q[n]]
    /\ \A m \in 1..Len(q) : m # n =>
        /\ fwd2[q[m]] = IF m + 1 = n THEN d ELSE fwd[q[m]]
        /\ back2[q[m]] = IF m = n + 1 THEN d ELSE back[q[m]]

\* The link to the entries leads to d, if that is the first now.
FirstIs(first, n, d, first2) == first2 = IF n = 1 THEN d ELSE first

\* r is q with d at n.
Exchanged(q, n, d, r) == r = [q EXCEPT ![n] = d]

\* The entry at place n becomes d, which was not linked.
LEMMA LinkedRename ==
    ASSUME NEW fwd, NEW back, NEW first, NEW q, NEW x, Linked(fwd, back, first, q, x),
           NEW n \in 1..Len(q), NEW d \in Slots, d \notin ToSet(q),
           NEW fwd2, NEW back2, NEW first2,
           FirstIs(first, n, d, first2), Replaced(fwd, back, q, n, d, fwd2, back2),
           NEW r, Exchanged(q, n, d, r)
    PROVE  Linked(fwd2, back2, first2, r, x) /\ ToSet(r) = (ToSet(q) \ {q[n]}) \cup {d}
<1>1. /\ q \in Seq(Slots) /\ IsInjective(q)
      /\ \A m \in 1..Len(q) : fwd[q[m]] = IF m = Len(q) THEN Nil ELSE q[m + 1]
      /\ \A m \in 1..Len(q) : back[q[m]] = IF m = 1 THEN x ELSE q[m - 1]
  BY DEF Linked
<1>2. Len(q) \in Nat
  BY <1>1, LenProperties
<1>0. DOMAIN q = 1..Len(q) /\ first = q[1]
  BY <1>1, LenProperties, EmptySeq DEF Linked
<1>3. r = [q EXCEPT ![n] = d]
  BY DEF Exchanged
<1>4. /\ r \in Seq(Slots) /\ Len(r) = Len(q)
      /\ \A j \in 1..Len(q) : r[j] = IF j = n THEN d ELSE q[j]
  BY <1>1, <1>3, ExceptSeq
<1>5. DOMAIN r = 1..Len(r) /\ r # <<>>
  BY <1>2, <1>4, LenProperties, EmptySeq
<1>13. 1 \in 1..Len(q)
  BY <1>2
<1>6. \A a, b \in 1..Len(q) : q[a] = q[b] => a = b
  BY <1>0, <1>1, <1>2 DEF IsInjective
<1>7. \A a \in 1..Len(q) : q[a] # d
  BY <1>0 DEF ToSet
<1>8. IsInjective(r)
  BY <1>4, <1>5, <1>6, <1>7 DEF IsInjective
<1>9. ToSet(r) = (ToSet(q) \ {q[n]}) \cup {d}
  BY <1>0, <1>4, <1>5, <1>6 DEF ToSet
<1>10. first2 = r[1]
  <2>1. first2 = IF n = 1 THEN d ELSE first
    BY DEF FirstIs
  <2> QED
    BY <1>0, <1>4, <1>13, <2>1
<1>11. ASSUME NEW j \in 1..Len(q)
       PROVE  fwd2[r[j]] = IF j = Len(q) THEN Nil ELSE r[j + 1]
  <2>1. fwd[q[j]] = IF j = Len(q) THEN Nil ELSE q[j + 1]
    BY <1>1
  <2>2. CASE j = n
    <3>1. j # Len(q) => j + 1 \in 1..Len(q) /\ j + 1 # n
      BY <1>2, <2>2
    <3> QED
      BY <1>4, <2>1, <2>2, <3>1 DEF Replaced
  <2>3. CASE j + 1 = n
    <3>1. j # n /\ j # Len(q) /\ j + 1 \in 1..Len(q)
      BY <1>2, <2>3
    <3> QED
      BY <1>4, <2>3, <3>1 DEF Replaced
  <2>4. CASE j # n /\ j + 1 # n
    <3>1. j # Len(q) => j + 1 \in 1..Len(q)
      BY <1>2
    <3> QED
      BY <1>4, <2>1, <2>4, <3>1 DEF Replaced
  <2> QED
    BY <2>2, <2>3, <2>4
<1>12. ASSUME NEW j \in 1..Len(q)
       PROVE  back2[r[j]] = IF j = 1 THEN x ELSE r[j - 1]
  <2>1. back[q[j]] = IF j = 1 THEN x ELSE q[j - 1]
    BY <1>1
  <2>2. CASE j = n
    <3>1. j # 1 => j - 1 \in 1..Len(q) /\ j - 1 # n
      BY <1>2, <2>2
    <3> QED
      BY <1>4, <2>1, <2>2, <3>1 DEF Replaced
  <2>3. CASE j = n + 1
    <3>1. j # n /\ j # 1 /\ j - 1 \in 1..Len(q) /\ j - 1 = n
      BY <1>2, <2>3
    <3> QED
      BY <1>4, <2>3, <3>1 DEF Replaced
  <2>4. CASE j # n /\ j # n + 1
    <3>1. j # 1 => j - 1 \in 1..Len(q) /\ j - 1 # n
      BY <1>2, <2>4
    <3> QED
      BY <1>4, <2>1, <2>4, <3>1 DEF Replaced
  <2> QED
    BY <2>2, <2>3, <2>4
<1> QED
  BY <1>4, <1>5, <1>8, <1>9, <1>10, <1>11, <1>12 DEF Linked

\* The entries of l from c on; none if c is not in l.
From(l, c) == {l[m] : m \in {j \in 1..Len(l) : \E n \in 1..j : l[n] = c}}

\* Following the links from any entry meets it and what is behind it.
LEMMA FollowFrom ==
    ASSUME NEW fwd, NEW back, NEW first, NEW q, NEW x, Linked(fwd, back, first, q, x),
           NEW c \in ToSet(q) \cup {Nil}
    PROVE  ToSet(Follow(fwd, c)) = From(q, c)
<1>1. /\ q \in Seq(Slots) /\ IsInjective(q)
      /\ \A m \in 1..Len(q) : fwd[q[m]] = IF m = Len(q) THEN Nil ELSE q[m + 1]
      /\ \A m \in 1..Len(q) : back[q[m]] = IF m = 1 THEN x ELSE q[m - 1]
  BY DEF Linked
<1>2. Len(q) \in Nat /\ \A m \in 1..Len(q) : q[m] \in Slots
  BY <1>1, LenProperties, ElementOfSeq
<1>3. DOMAIN q = 1..Len(q)
  BY <1>1, LenProperties
<1>4. \A a, b \in 1..Len(q) : q[a] = q[b] => a = b
  BY <1>1, <1>3 DEF IsInjective
<1>5. CASE c = Nil
  <2>1. \A n \in 1..Len(q) : q[n] # c
    BY <1>2, <1>5, KeysAssumption
  <2>2. From(q, c) = {}
    BY <1>2, <2>1 DEF From
  <2>3. /\ <<>> \in Seq(Slots) /\ Len(<<>>) = 0 /\ DOMAIN <<>> = {}
    BY EmptySeq
  <2>4. Linked(fwd, back, Nil, <<>>, x)
    BY <2>3 DEF Linked, IsInjective
  <2>5. Follow(fwd, Nil) = <<>>
    BY <2>4, FollowIs
  <2> QED
    BY <1>5, <2>2, <2>3, <2>5 DEF ToSet
<1>6. CASE c \in ToSet(q)
  <2>1. PICK n \in 1..Len(q) : q[n] = c
    BY <1>3, <1>6 DEF ToSet
  <2>2. PICK r : r = SubSeq(q, n, Len(q))
    OBVIOUS
  <2>3. r \in Seq(Slots) /\ Len(r) = Len(q) - n + 1 /\ \A j \in 1..(Len(q) - n + 1) : r[j] = q[n + j - 1]
    <3>1. n \in Int /\ Len(q) \in Int /\ \A j \in n..Len(q) : q[j] \in Slots
      BY <1>2
    <3>2. /\ r \in Seq(Slots) /\ Len(r) = IF n <= Len(q) THEN Len(q) - n + 1 ELSE 0
          /\ \A j \in 1..(Len(q) - n + 1) : r[j] = q[n + j - 1]
      BY <2>2, <3>1, SubSeqProperties
    <3>3. n <= Len(q)
      BY <1>2
    <3> QED
      BY <3>2, <3>3
  <2>4. DOMAIN r = 1..Len(r) /\ r # <<>>
    BY <1>2, <2>3, LenProperties, EmptySeq
  <2>5. \A j \in 1..Len(r) : n + j - 1 \in 1..Len(q) /\ r[j] = q[n + j - 1]
    <3>1. n \in 1..Len(q) /\ Len(q) \in Nat /\ Len(r) = Len(q) - n + 1
      BY <1>2, <2>3
    <3>2. \A j \in 1..Len(r) : n + j - 1 \in 1..Len(q)
      BY <3>1
    <3> QED
      BY <2>3, <3>2
  <2>6. IsInjective(r)
    <3>1. ASSUME NEW a \in 1..Len(r), NEW b \in 1..Len(r), r[a] = r[b]
          PROVE  a = b
      <4>1. n + a - 1 = n + b - 1
        BY <1>4, <2>5, <3>1
      <4> QED
        BY <1>2, <2>3, <4>1
    <3> QED
      BY <2>4, <3>1 DEF IsInjective
  <2>7. c = r[1]
    <3>1. 1 \in 1..(Len(q) - n + 1) /\ n + 1 - 1 = n
      BY <1>2
    <3> QED
      BY <2>1, <2>3, <3>1
  <2>8. ASSUME NEW j \in 1..Len(r)
        PROVE  fwd[r[j]] = IF j = Len(r) THEN Nil ELSE r[j + 1]
    <3>1. PICK m \in 1..Len(q) : m = n + j - 1 /\ r[j] = q[m]
      BY <2>5
    <3>2. fwd[r[j]] = IF m = Len(q) THEN Nil ELSE q[m + 1]
      BY <1>1, <3>1
    <3>3. m = Len(q) <=> j = Len(r)
      BY <1>2, <2>3, <3>1
    <3>4. j # Len(r) => j + 1 \in 1..(Len(q) - n + 1) /\ n + (j + 1) - 1 = m + 1
      <4>1. Len(r) = Len(q) - n + 1
        BY <2>3
      <4> QED
        BY <1>2, <3>1, <4>1
    <3>5. ASSUME j # Len(r)
          PROVE  r[j + 1] = q[m + 1]
      <4>1. j + 1 \in 1..(Len(q) - n + 1) /\ n + (j + 1) - 1 = m + 1
        BY <3>4, <3>5
      <4>2. r[j + 1] = q[n + (j + 1) - 1]
        BY <2>3, <4>1
      <4> QED
        BY <4>1, <4>2
    <3> QED
      BY <3>2, <3>3, <3>5
  <2>9. PICK y : y = back[q[n]]
    OBVIOUS
  <2>10. ASSUME NEW j \in 1..Len(r)
         PROVE  back[r[j]] = IF j = 1 THEN y ELSE r[j - 1]
    <3>1. PICK m \in 1..Len(q) : m = n + j - 1 /\ r[j] = q[m]
      BY <2>5
    <3>2. CASE j = 1
      <4>1. m = n
        BY <3>1, <3>2
      <4> QED
        BY <2>9, <3>1, <3>2, <4>1
    <3>3. CASE j # 1
      <4>1. m # 1 /\ j - 1 \in 1..(Len(q) - n + 1) /\ n + (j - 1) - 1 = m - 1
        BY <1>2, <2>3, <3>1, <3>3
      <4>2. r[j - 1] = q[m - 1]
        BY <2>3, <4>1
      <4> QED
        BY <1>1, <3>1, <3>3, <4>1, <4>2
    <3> QED
      BY <3>2, <3>3
  <2>11. Linked(fwd, back, c, r, y)
    BY <2>3, <2>4, <2>6, <2>7, <2>8, <2>10 DEF Linked
  <2>12. Follow(fwd, c) = r
    BY <2>11, FollowIs
  <2>13. \A j \in 1..Len(r) : r[j] \in From(q, c)
    <3>1. \A j \in 1..Len(r) : n + j - 1 \in 1..Len(q) /\ n \in 1..(n + j - 1)
      BY <1>2, <2>5
    <3> QED
      BY <2>1, <2>5, <3>1 DEF From
  <2>14. ASSUME NEW m \in 1..Len(q), NEW k \in 1..m, q[k] = c
         PROVE  \E j \in 1..Len(r) : r[j] = q[m]
    <3>1. k = n
      BY <1>2, <1>4, <2>1, <2>14
    <3>2. (m - n) + 1 \in 1..Len(r) /\ n + ((m - n) + 1) - 1 = m
      BY <1>2, <2>3, <3>1
    <3> QED
      BY <2>5, <3>2
  <2>15. \A e \in From(q, c) : \E j \in 1..Len(r) : r[j] = e
    BY <2>14 DEF From
  <2>16. ToSet(r) = {r[j] : j \in 1..Len(r)}
    BY <2>4 DEF ToSet
  <2> QED
    BY <2>12, <2>13, <2>15, <2>16
<1> QED
  BY <1>5, <1>6

----------------------------------------------------------------------------
(* Chains *)

\* The list of u, and what is in its entries, are those of t.
SameEntries(t, u) ==
    /\ u.key = t.key /\ u.hash = t.hash /\ u.gen = t.gen
    /\ u.next = t.next /\ u.last = t.last /\ u.head = t.head /\ u.tail = t.tail
    /\ u.cursor = t.cursor /\ u.count = t.count

\* What pushing an entry into a bucket does to each field.
Pushed(n, t, s, i, u) ==
    /\ u \in TableRec(n)
    /\ SameEntries(t, u)
    /\ u.bucket = [t.bucket EXCEPT ![i] = s]
    /\ u.down = [t.down EXCEPT ![s] = t.bucket[i]]
    /\ t.bucket[i] = Nil => u.up = [t.up EXCEPT ![s] = i]
    /\ t.bucket[i] # Nil => /\ t.bucket[i] \in Slots
                            /\ u.up = [[t.up EXCEPT ![s] = i] EXCEPT ![t.bucket[i]] = s]

\* A push changes the chain links and one bucket, and nothing else.
LEMMA PushFields ==
    ASSUME NEW n \in 1..MaxSize, NEW t \in TableRec(n), NEW s \in Slots,
           NEW i \in 0..(n - 1)
    PROVE  Pushed(n, t, s, i, Push(t, s, i))
<1>1. /\ t.bucket[i] \in Slots \cup {Nil} /\ i \in Nat /\ s \in Nat
      /\ t.up \in [Slots -> Nat \cup {Nil}]
  BY SizesAssumption, SlotsAssumption DEF TableRec, Refs
<1> DEFINE up == IF t.bucket[i] = Nil THEN [t.up EXCEPT ![s] = i]
                 ELSE [[t.up EXCEPT ![s] = i] EXCEPT ![t.bucket[i]] = s]
<1>2. up \in [Slots -> Nat \cup {Nil}]
  BY <1>1
<1>3. PICK v : v = up
  OBVIOUS
<1>4. Push(t, s, i) = [t EXCEPT !.up = v, !.down[s] = t.bucket[i], !.bucket[i] = s]
  BY <1>3 DEF Push
<1>5. [t EXCEPT !.up = v, !.down[s] = t.bucket[i], !.bucket[i] = s] \in TableRec(n)
  BY <1>1, <1>2, <1>3 DEF TableRec, Refs
<1> QED
  BY <1>1, <1>3, <1>4, <1>5 DEF TableRec, SameEntries, Pushed

\* The chain in bucket i is q, of the entries s with at[s] = i.
ChainIs(t, at, i, q) ==
    /\ q \in Seq(Slots) /\ Len(q) \in Nat
    /\ Linked(t.down, t.up, t.bucket[i], q, i)
    /\ \A m \in 1..Len(q) : q[m] \in DOMAIN at /\ q[m] \in Slots /\ at[q[m]] = i
    /\ \A s \in DOMAIN at : at[s] = i => \E m \in 1..Len(q) : q[m] = s
    /\ t.bucket[i] = IF Len(q) = 0 THEN Nil ELSE q[1]

\* What a chain holds, and that no entry is in two of them.
LEMMA ChainHolds ==
    ASSUME NEW t, NEW n, NEW at, NEW C, InBuckets(t, n, at, C), NEW i \in 0..(n - 1)
    PROVE  ChainIs(t, at, i, C[i])
<1>1. /\ C[i] \in Seq(Slots) /\ Linked(t.down, t.up, t.bucket[i], C[i], i)
      /\ ToSet(C[i]) = {s \in DOMAIN at : at[s] = i}
  BY DEF InBuckets
<1>2. PICK q : q = C[i]
  OBVIOUS
<1>3. q \in Seq(Slots) /\ Len(q) \in Nat /\ DOMAIN q = 1..Len(q)
  BY <1>1, <1>2, LenProperties
<1>4. \A m \in 1..Len(q) : q[m] \in Slots /\ q[m] \in ToSet(q)
  BY <1>3, ElementOfSeq DEF ToSet
<1>5. \A s \in ToSet(q) : \E m \in 1..Len(q) : q[m] = s
  BY <1>3 DEF ToSet
<1>6. t.bucket[i] = IF Len(q) = 0 THEN Nil ELSE q[1]
  <2>1. t.bucket[i] = IF q = <<>> THEN Nil ELSE q[1]
    BY <1>1, <1>2 DEF Linked
  <2> QED
    BY <1>3, <2>1, EmptySeq
<1> QED
  BY <1>1, <1>2, <1>3, <1>4, <1>5, <1>6 DEF ChainIs

\* An entry pushed into a bucket is the first of its chain.
LEMMA PushOK ==
    ASSUME NEW n \in 1..MaxSize, NEW t \in TableRec(n), NEW at, NEW C,
           InBuckets(t, n, at, C), DOMAIN at \subseteq Slots,
           NEW s \in Slots, s \notin DOMAIN at, NEW i \in 0..(n - 1)
    PROVE  \E D : InBuckets(Push(t, s, i), n,
                      [e \in DOMAIN at \cup {s} |-> IF e = s THEN i ELSE at[e]], D)
<1> DEFINE q == C[i]
           r == InsertAt(q, 0 + 1, s)
           D == [C EXCEPT ![i] = r]
<1>1. PICK u : u = Push(t, s, i)
  OBVIOUS
<1>2. PICK at2 : at2 = [e \in DOMAIN at \cup {s} |-> IF e = s THEN i ELSE at[e]]
  OBVIOUS
<1>3. /\ u \in TableRec(n)
      /\ u.bucket = [t.bucket EXCEPT ![i] = s]
      /\ u.down = [t.down EXCEPT ![s] = t.bucket[i]]
      /\ t.bucket[i] = Nil => u.up = [t.up EXCEPT ![s] = i]
      /\ t.bucket[i] # Nil => u.up = [[t.up EXCEPT ![s] = i] EXCEPT ![t.bucket[i]] = s]
  <2>1. Pushed(n, t, s, i, Push(t, s, i))
    BY PushFields
  <2> QED
    BY <1>1, <2>1 DEF Pushed
<1>4. /\ DOMAIN t.up = Slots /\ DOMAIN t.down = Slots /\ DOMAIN t.bucket = 0..(n - 1)
      /\ Nil \notin Slots
  BY KeysAssumption DEF TableRec
<1>5. /\ q \in Seq(Slots) /\ Len(q) \in Nat
      /\ Linked(t.down, t.up, t.bucket[i], q, i)
      /\ \A m \in 1..Len(q) : q[m] \in DOMAIN at /\ q[m] \in Slots /\ at[q[m]] = i
      /\ t.bucket[i] = IF Len(q) = 0 THEN Nil ELSE q[1]
  BY ChainHolds DEF ChainIs
<1>6. s \notin ToSet(q) /\ \A m \in 1..Len(q) : q[m] # s
  <2>1. DOMAIN q = 1..Len(q)
    BY <1>5, LenProperties
  <2> QED
    BY <1>5, <2>1 DEF ToSet
<1>7. \A a, b \in 1..Len(q) : q[a] = q[b] => a = b
  <2>1. DOMAIN q = 1..Len(q) /\ IsInjective(q)
    BY <1>5, LenProperties DEF Linked
  <2> QED
    BY <2>1 DEF IsInjective
<1>8. /\ Linked(u.down, u.up, s, r, i)
      /\ ToSet(r) = ToSet(q) \cup {s}
  <2>1. PICK q0 : q0 = q
    OBVIOUS
  <2>2. PICK fwd, back, first, fwd2, back2 :
           /\ fwd = t.down /\ back = t.up /\ first = t.bucket[i]
           /\ fwd2 = u.down /\ back2 = u.up
    OBVIOUS
  <2>3. 0 \in 0..Len(q0)
    BY <1>5, <2>1
  <2>4. fwd2[s] = IF 0 = Len(q0) THEN Nil ELSE q0[0 + 1]
    BY <1>3, <1>4, <1>5, <2>1, <2>2
  <2>5. back2[s] = i
    <3>1. CASE t.bucket[i] = Nil
      BY <1>3, <1>4, <2>2, <3>1
    <3>2. CASE t.bucket[i] # Nil
      <4>1. Len(q) # 0
        BY <1>5, <3>2
      <4>2. 1 \in 1..Len(q)
        BY <1>5, <4>1
      <4>3. t.bucket[i] # s /\ t.bucket[i] \in Slots
        BY <1>5, <1>6, <4>1, <4>2
      <4> QED
        BY <1>3, <1>4, <2>2, <3>2, <4>3
    <3> QED
      BY <3>1, <3>2
  <2>6. \A m \in 1..Len(q0) : fwd2[q0[m]] = IF m = 0 THEN s ELSE fwd[q0[m]]
    <3>1. \A m \in 1..Len(q) : m # 0
      BY <1>5
    <3> QED
      BY <1>3, <1>4, <1>5, <1>6, <2>1, <2>2, <3>1
  <2>7. ASSUME NEW m \in 1..Len(q0)
        PROVE  back2[q0[m]] = IF m = 0 + 1 THEN s ELSE back[q0[m]]
    <3>1. Len(q) # 0 /\ 1 \in 1..Len(q) /\ m \in 1..Len(q)
      BY <1>5, <2>1
    <3>2. t.bucket[i] = q[1] /\ q[1] \in Slots /\ t.bucket[i] # Nil
      BY <1>4, <1>5, <3>1
    <3>3. q[m] # s /\ q[m] \in Slots
      BY <1>5, <1>6, <3>1
    <3>4. CASE m = 1
      BY <1>3, <1>4, <2>1, <2>2, <3>2, <3>3, <3>4
    <3>5. CASE m # 1
      <4>1. q[m] # q[1]
        BY <1>7, <3>1, <3>5
      <4> QED
        BY <1>3, <1>4, <2>1, <2>2, <3>2, <3>3, <3>5, <4>1
    <3> QED
      BY <3>4, <3>5
  <2>8. s \in Slots /\ s \notin ToSet(q0) /\ Linked(fwd, back, first, q0, i)
    BY <1>5, <1>6, <2>1, <2>2
  <2>9. /\ Linked(fwd2, back2, s, InsertAt(q0, 0 + 1, s), i)
        /\ ToSet(InsertAt(q0, 0 + 1, s)) = ToSet(q0) \cup {s}
    <3>1. PutIn(fwd, back, q0, 0, s, i, fwd2, back2)
      BY <2>4, <2>5, <2>6, <2>7 DEF PutIn
    <3> QED
      BY <2>3, <2>8, <3>1, LinkedInsert
  <2> QED
    BY <2>1, <2>2, <2>9
<1>9. ASSUME NEW j \in 0..(n - 1), j # i
      PROVE  Linked(u.down, u.up, t.bucket[j], C[j], j)
  <2>1. PICK p : p = C[j]
    OBVIOUS
  <2>2. /\ p \in Seq(Slots) /\ Linked(t.down, t.up, t.bucket[j], p, j)
        /\ \A m \in 1..Len(p) : p[m] \in DOMAIN at /\ p[m] \in Slots /\ at[p[m]] = j
    BY <2>1, ChainHolds DEF ChainIs
  <2>3. ASSUME NEW m \in 1..Len(p)
        PROVE  u.down[p[m]] = t.down[p[m]] /\ u.up[p[m]] = t.up[p[m]]
    <3>1. p[m] # s /\ p[m] \in Slots
      BY <2>2
    <3>2. p[m] # t.bucket[i]
      <4>1. CASE Len(q) = 0
        BY <1>4, <1>5, <3>1, <4>1
      <4>2. CASE Len(q) # 0
        <5>1. 1 \in 1..Len(q)
          BY <1>5, <4>2
        <5> QED
          BY <1>5, <1>9, <2>2, <4>2, <5>1
      <4> QED
        BY <4>1, <4>2
    <3> QED
      BY <1>3, <1>4, <3>1, <3>2
  <2> QED
    BY <2>1, <2>2, <2>3, LinkedFrame
<1>10. C \in [0..(n - 1) -> Seq(Slots)] /\ \A j \in 0..(n - 1) : ToSet(C[j]) = {e \in DOMAIN at : at[e] = j}
  BY DEF InBuckets
<1>11. r \in Seq(Slots)
  BY <1>8 DEF Linked
<1> HIDE DEF r, q
<1>12. D \in [0..(n - 1) -> Seq(Slots)] /\ D[i] = r /\ \A j \in 0..(n - 1) : j # i => D[j] = C[j]
  BY <1>10, <1>11
<1> HIDE DEF D
<1>13. DOMAIN at2 = DOMAIN at \cup {s} /\ at2[s] = i /\ \A e \in DOMAIN at : at2[e] = at[e]
  BY <1>2
<1>14. ASSUME NEW j \in 0..(n - 1)
       PROVE  /\ Linked(u.down, u.up, u.bucket[j], D[j], j)
              /\ ToSet(D[j]) = {e \in DOMAIN at2 : at2[e] = j}
  <2>1. CASE j = i
    <3>1. u.bucket[j] = s /\ D[j] = r
      BY <1>3, <1>4, <1>12, <2>1
    <3>2. ToSet(r) = {e \in DOMAIN at : at[e] = i} \cup {s}
      BY <1>8, <1>10 DEF q
    <3>3. {e \in DOMAIN at2 : at2[e] = i} = {e \in DOMAIN at : at[e] = i} \cup {s}
      BY <1>13
    <3> QED
      BY <1>8, <2>1, <3>1, <3>2, <3>3
  <2>2. CASE j # i
    <3>1. u.bucket[j] = t.bucket[j] /\ D[j] = C[j]
      BY <1>3, <1>4, <1>12, <2>2
    <3>2. {e \in DOMAIN at2 : at2[e] = j} = {e \in DOMAIN at : at[e] = j}
      BY <1>13, <2>2
    <3> QED
      BY <1>9, <1>10, <2>2, <3>1, <3>2
  <2> QED
    BY <2>1, <2>2
<1>15. InBuckets(u, n, at2, D)
  BY <1>12, <1>14 DEF InBuckets
<1> QED
  BY <1>1, <1>2, <1>15

\* Each entry of t has a bucket at[s] in an index of size buckets.
Spotted(t, size, at) ==
    /\ at \in [Used(t) -> 0..(size - 1)]
    /\ \A s \in Used(t) : at[s] = IndexOf[size][EntryHash(t, s)]

\* Every entry of the list is put into its bucket of an index with size buckets.
LEMMA RehashOK ==
    ASSUME NEW n \in 1..MaxSize, NEW t \in TableRec(n), NEW l, ListIs(t, l),
           NEW size \in 1..MaxSize, NEW at, Spotted(t, size, at)
    PROVE  /\ Rehash(t, size) \in TableRec(size)
           /\ SameEntries(t, Rehash(t, size))
           /\ \E D : InBuckets(Rehash(t, size), size, at, D)
<1> DEFINE N == Len(l)
           b == [t EXCEPT !.bucket = [i \in 0..(size - 1) |-> Nil]]
           Ixs == [k \in 1..N |-> IndexOf[size][EntryHash(t, l[k])]]
           g == [p \in (1..N) \X TableRec(size) |-> Push(p[2], l[p[1]], Ixs[p[1]])]
           Step(G, k) == IF k = 0 THEN b ELSE Push(G[k - 1], l[k], IndexOf[size][EntryHash(t, l[k])])
<1>1. Linked(t.next, t.last, t.head, l, Nil) /\ ToSet(l) = Used(t)
  BY DEF ListIs
<1>2. l \in Seq(Slots) /\ N \in Nat /\ DOMAIN l = 1..N /\ Used(t) \subseteq Slots
  BY <1>1, LenProperties DEF Linked, Used
<1>3. \A k, m \in 1..N : l[k] = l[m] => k = m
  <2>1. IsInjective(l)
    BY <1>1 DEF Linked
  <2> QED
    BY <1>2, <2>1 DEF IsInjective
<1>4. \A k \in 1..N : l[k] \in Slots /\ l[k] \in Used(t)
  BY <1>1, <1>2 DEF ToSet
<1>5. \A k \in 1..N : Ixs[k] = at[l[k]] /\ Ixs[k] \in 0..(size - 1)
  BY <1>4 DEF Spotted
<1>6. b \in TableRec(size) /\ SameEntries(t, b) /\ b.bucket = [i \in 0..(size - 1) |-> Nil]
  BY DEF TableRec, Refs, SameEntries
<1>7. Listed(t) = l
  BY <1>1, FollowIs DEF Listed
<1> HIDE DEF b
<1>8. g \in [(1..N) \X TableRec(size) -> TableRec(size)]
  <2>1. ASSUME NEW k \in 1..N, NEW u \in TableRec(size)
        PROVE  Push(u, l[k], Ixs[k]) \in TableRec(size)
    BY <1>4, <1>5, PushFields DEF Pushed
  <2> HIDE DEF Ixs
  <2>2. \A p \in (1..N) \X TableRec(size) : Push(p[2], l[p[1]], Ixs[p[1]]) \in TableRec(size)
    BY <2>1
  <2> QED
    BY <2>2
<1> DEFINE F == CHOOSE F : F = [k \in 0..N |-> Step(F, k)]
<1>9. F = [k \in 0..N |-> Step(F, k)]
  <2>1. PICK f \in [0..N -> TableRec(size)] :
           f[0] = b /\ \A k \in 1..N : f[k] = g[<<k, f[k - 1]>>]
    <3>1. PICK T, M, h : T = TableRec(size) /\ M = N /\ h = g
      OBVIOUS
    <3>2. b \in T /\ M \in Nat /\ h \in [(1..M) \X T -> T]
      BY <1>2, <1>6, <1>8, <3>1
    <3>3. \E f \in [0..M -> T] : Iterates(f, b, M, h)
      BY <3>2, Recursion
    <3> QED
      BY <3>1, <3>3 DEF Iterates
  <2>2. ASSUME NEW k \in 1..N
        PROVE  f[k] = Push(f[k - 1], l[k], IndexOf[size][EntryHash(t, l[k])])
    <3>1. k - 1 \in 0..N
      BY <1>2
    <3>2. f[k - 1] \in TableRec(size)
      BY <2>1, <3>1
    <3>3. g[<<k, f[k - 1]>>] = Push(f[k - 1], l[k], Ixs[k])
      BY <3>2
    <3> QED
      BY <2>1, <3>3
  <2>3. \A k \in 0..N : k # 0 => k \in 1..N
    BY <1>2
  <2>4. f = [k \in 0..N |-> Step(f, k)]
    BY <2>1, <2>2, <2>3
  <2> QED
    BY <2>4
<1> HIDE DEF F
<1>10. Rehash(t, size) = F[N]
  BY <1>7 DEF Rehash, F, b
<1>11. F[0] = b /\ \A k \in 1..N : F[k] = Push(F[k - 1], l[k], Ixs[k])
  <2>1. 0 \in 0..N /\ \A k \in 1..N : k \in 0..N /\ k # 0
    BY <1>2
  <2>2. \A k \in 0..N : F[k] = Step(F, k)
    BY <1>9
  <2> QED
    BY <2>1, <2>2
<1> HIDE DEF Ixs, Step, g
<1> DEFINE In(k) == {l[m] : m \in 1..k}
           P == {k \in 0..N : /\ F[k] \in TableRec(size) /\ SameEntries(t, F[k])
                              /\ \E D : InBuckets(F[k], size, [e \in In(k) |-> at[e]], D)}
<1>12. 0 \in P
  <2>1. In(0) = {}
    OBVIOUS
  <2>2. PICK none : none = [e \in {} |-> at[e]]
    OBVIOUS
  <2>3. DOMAIN none = {}
    BY <2>2
  <2> DEFINE D == [i \in 0..(size - 1) |-> <<>>]
  <2>4. ASSUME NEW i \in 0..(size - 1)
        PROVE  /\ D[i] \in Seq(Slots) /\ Linked(b.down, b.up, b.bucket[i], D[i], i)
               /\ ToSet(D[i]) = {e \in DOMAIN none : none[e] = i}
    <3>1. D[i] = <<>> /\ b.bucket[i] = Nil
      BY <1>6
    <3>2. <<>> \in Seq(Slots) /\ Len(<<>>) = 0 /\ DOMAIN <<>> = {}
      BY EmptySeq
    <3>3. ToSet(<<>>) = {} /\ IsInjective(<<>>)
      BY <3>2 DEF ToSet, IsInjective
    <3>4. Linked(b.down, b.up, Nil, <<>>, i)
      BY <3>2, <3>3 DEF Linked
    <3> QED
      BY <2>3, <3>1, <3>2, <3>3, <3>4
  <2>5. D \in [0..(size - 1) -> Seq(Slots)]
    BY <2>4
  <2> HIDE DEF D
  <2>6. InBuckets(b, size, none, D)
    BY <2>4, <2>5 DEF InBuckets
  <2>7. InBuckets(F[0], size, [e \in In(0) |-> at[e]], D)
    BY <1>11, <2>1, <2>2, <2>6
  <2>8. 0 \in 0..N
    BY <1>2
  <2> QED
    BY <1>6, <1>11, <2>7, <2>8
<1>13. ASSUME NEW k \in 0..(N - 1), k \in P
       PROVE  k + 1 \in P
  <2>1. PICK u : u = F[k]
    OBVIOUS
  <2>2. PICK C : InBuckets(u, size, [e \in In(k) |-> at[e]], C)
    BY <1>13, <2>1
  <2>3. u \in TableRec(size) /\ SameEntries(t, u)
    BY <1>13, <2>1
  <2>4. k + 1 \in 1..N /\ (k + 1) - 1 = k /\ k + 1 \in 0..N
    BY <1>2
  <2>5. PICK s \in Slots : s = l[k + 1] /\ Ixs[k + 1] = at[s] /\ at[s] \in 0..(size - 1)
    BY <1>4, <1>5, <2>4
  <2>6. F[k + 1] = Push(u, s, at[s])
    BY <1>11, <2>1, <2>4, <2>5
  <2>7. PICK has : has = [e \in In(k) |-> at[e]]
    OBVIOUS
  <2>8. DOMAIN has = In(k) /\ \A e \in In(k) : has[e] = at[e]
    BY <2>7
  <2>9. \A m \in 1..k : m \in 1..N /\ m # k + 1
    BY <1>2
  <2>10. In(k) \subseteq Slots /\ s \notin In(k)
    BY <1>3, <1>4, <2>4, <2>5, <2>9
  <2>11. In(k + 1) = In(k) \cup {s}
    <3>1. \A m \in 1..(k + 1) : m \in 1..k \/ m = k + 1
      BY <2>4
    <3>2. k + 1 \in 1..(k + 1) /\ \A m \in 1..k : m \in 1..(k + 1)
      BY <2>4
    <3> QED
      BY <2>5, <3>1, <3>2
  <2> HIDE DEF In
  <2>12. PICK D : InBuckets(Push(u, s, at[s]), size,
                       [e \in DOMAIN has \cup {s} |-> IF e = s THEN at[s] ELSE has[e]], D)
    <3>1. PICK i \in 0..(size - 1) : i = at[s]
      BY <2>5
    <3>2. InBuckets(u, size, has, C) /\ DOMAIN has \subseteq Slots /\ s \notin DOMAIN has
      BY <2>2, <2>7, <2>8, <2>10
    <3>3. u \in TableRec(size)
      BY <2>3
    <3>4. \E D : InBuckets(Push(u, s, i), size,
                       [e \in DOMAIN has \cup {s} |-> IF e = s THEN i ELSE has[e]], D)
      BY <3>2, <3>3, PushOK
    <3> QED
      BY <3>1, <3>4
  <2>13. [e \in DOMAIN has \cup {s} |-> IF e = s THEN at[s] ELSE has[e]] = [e \in In(k + 1) |-> at[e]]
    BY <2>8, <2>10, <2>11
  <2>14. InBuckets(F[k + 1], size, [e \in In(k + 1) |-> at[e]], D)
    BY <2>6, <2>12, <2>13
  <2>15. F[k + 1] \in TableRec(size) /\ SameEntries(t, F[k + 1])
    <3>1. PICK i \in 0..(size - 1) : i = at[s]
      BY <2>5
    <3>2. Push(u, s, i) \in TableRec(size) /\ SameEntries(u, Push(u, s, i))
      BY <2>3, <2>5, <3>1, PushFields DEF Pushed
    <3>3. SameEntries(t, Push(u, s, i))
      BY <2>3, <3>2 DEF SameEntries
    <3> QED
      BY <2>6, <3>1, <3>2, <3>3
  <2> QED
    BY <2>4, <2>14, <2>15
<1> HIDE DEF P
<1>14. \A k \in 0..N : k \in P
  <2> HIDE DEF N
  <2> QED
    BY <1>2, <1>12, <1>13, PositionInduction
<1>15. N \in P
  BY <1>2, <1>14
<1>16. In(N) = Used(t)
  <2>1. \A e \in Used(t) : e \in In(N)
    BY <1>1, <1>2 DEF ToSet
  <2> QED
    BY <1>4, <2>1
<1>17. [e \in In(N) |-> at[e]] = at
  <2>1. at = [e \in Used(t) |-> at[e]]
    BY DEF Spotted
  <2> QED
    BY <1>16, <2>1
<1>18. /\ F[N] \in TableRec(size) /\ SameEntries(t, F[N])
       /\ \E D : InBuckets(F[N], size, at, D)
  BY <1>15, <1>17 DEF P
<1> HIDE DEF N
<1> QED
  BY <1>10, <1>18

----------------------------------------------------------------------------
(* What a table is made of, and the index rebuilt from the list *)

\* Everything about a table but its chains.
Base(t, n, l) == n \in 1..MaxSize /\ t \in TableRec(n) /\ KeysOK(t) /\ ListIs(t, l)

\* u has the list of t, possibly under a later hash key.
SameList(t, u) ==
    /\ u.key = t.key /\ u.next = t.next /\ u.last = t.last
    /\ u.head = t.head /\ u.tail = t.tail
    /\ u.cursor = t.cursor /\ u.count = t.count
    /\ t.gen <= u.gen

\* One change of the index after another keeps the list.
LEMMA SameListTransitive ==
    ASSUME NEW t, NEW u, NEW v, t.gen \in Nat, u.gen \in Nat, v.gen \in Nat,
           SameList(t, u), SameList(u, v)
    PROVE  SameList(t, v)
BY DEF SameList

\* Every key has a hash under every hash key, and so a bucket in every table.
LEMMA HashIs ==
    ASSUME NEW n \in 1..MaxSize, NEW t \in TableRec(n), NEW k \in Keys,
           NEW size \in 1..MaxSize
    PROVE  /\ Hash(t, k) \in Nat
           /\ IndexOf[size][Hash(t, k)] \in 0..(size - 1)
<1>1. t.gen \in 0..LastGen
  BY DEF TableRec
<1>2. t.gen + 1 \in 1..(LastGen + 1)
  BY <1>1, HashAssumption
<1>3. HashOf[k][t.gen + 1] \in Nat
  BY <1>2, HashAssumption
<1>4. IndexOf[size][HashOf[k][t.gen + 1]] \in 0..(size - 1)
  BY <1>2, IndexAssumption
<1> QED
  BY <1>3, <1>4 DEF Hash

\* The entries in use are those of the list, each with a key.
LEMMA UsedIs ==
    ASSUME NEW n, NEW t \in TableRec(n), NEW s \in Used(t)
    PROVE  s \in Slots /\ t.key[s] \in Keys
BY DEF Used, TableRec

\* The bucket that is computed from an entry is that of the hash of its key.
LEMMA SpotsOK ==
    ASSUME NEW n \in 1..MaxSize, NEW t \in TableRec(n), KeysOK(t), NEW size \in 1..MaxSize
    PROVE  Spotted(t, size, Spots(t, size))
<1>1. ASSUME NEW s \in Used(t)
      PROVE  /\ EntryHash(t, s) = Hash(t, t.key[s])
             /\ IndexOf[size][Hash(t, t.key[s])] \in 0..(size - 1)
  <2>1. t.key[s] \in Keys
    BY UsedIs
  <2>2. IndexOf[size][Hash(t, t.key[s])] \in 0..(size - 1)
    BY <2>1, HashIs
  <2> QED
    BY <2>2 DEF EntryHash, KeysOK
<1> QED
  BY <1>1 DEF Spotted, Spots

\* SizeOf is the number of buckets.
LEMMA SizeIs ==
    ASSUME NEW n \in 1..MaxSize, NEW t \in TableRec(n)
    PROVE  SizeOf(t) = n
<1>1. DOMAIN t.bucket = 0..(n - 1)
  BY DEF TableRec
<1>2. n \in Nat \ {0}
  BY SizesAssumption
<1>3. Cardinality(0..(n - 1)) = (n - 1) - 0 + 1
  BY <1>2, FS_Interval
<1> QED
  BY <1>1, <1>2, <1>3 DEF SizeOf

\* A table with an index rebuilt for any size is a table, with the same list.
LEMMA RehashParts ==
    ASSUME NEW n, NEW t, NEW l, Base(t, n, l), NEW size \in 1..MaxSize
    PROVE  /\ \E D : Parts(Rehash(t, size), size, l, D)
           /\ SameEntries(t, Rehash(t, size))
<1>1. n \in 1..MaxSize /\ t \in TableRec(n) /\ KeysOK(t) /\ ListIs(t, l)
  BY DEF Base
<1>2. Spotted(t, size, Spots(t, size))
  BY <1>1, SpotsOK
<1>3. PICK u : u = Rehash(t, size)
  OBVIOUS
<1>4. u \in TableRec(size) /\ SameEntries(t, u) /\ \E D : InBuckets(u, size, Spots(t, size), D)
  BY <1>1, <1>2, <1>3, RehashOK
<1>5. Used(u) = Used(t) /\ \A k : Hash(u, k) = Hash(t, k)
  BY <1>4 DEF SameEntries, Used, Hash
<1>6. Spots(u, size) = Spots(t, size)
  BY <1>4, <1>5 DEF Spots, SameEntries
<1>7. KeysOK(u)
  BY <1>1, <1>4, <1>5 DEF KeysOK, SameEntries
<1>8. ListIs(u, l)
  BY <1>1, <1>4, <1>5 DEF ListIs, SameEntries
<1> QED
  BY <1>3, <1>4, <1>6, <1>7, <1>8 DEF Parts

\* A table with the same entries has the same list.
LEMMA SameEntriesList ==
    ASSUME NEW n \in 1..MaxSize, NEW t \in TableRec(n), NEW u, SameEntries(t, u)
    PROVE  SameList(t, u)
<1>1. t.gen \in Nat
  BY HashAssumption DEF TableRec
<1> QED
  BY <1>1 DEF SameEntries, SameList

\* The parts of a table without its chains.
LEMMA PartsBase ==
    ASSUME NEW n, NEW t, NEW l, NEW C, Parts(t, n, l, C)
    PROVE  Base(t, n, l)
BY DEF Parts, Base

\* The listed strings hashed again under a later hash key.
LEMMA NewHashes ==
    ASSUME NEW n, NEW t, NEW l, Base(t, n, l), NEW g \in 0..LastGen, t.gen <= g
    PROVE  LET u == [t EXCEPT !.gen = g, !.hash = HashesAt(t, g)]
           IN  Base(u, n, l) /\ SameList(t, u)
<1>1. n \in 1..MaxSize /\ t \in TableRec(n) /\ KeysOK(t) /\ ListIs(t, l)
  BY DEF Base
<1>2. PICK h : h = HashesAt(t, g)
  OBVIOUS
<1>3. PICK u : u = [t EXCEPT !.gen = g, !.hash = h]
  OBVIOUS
<1>4. ToSet(Listed(t)) = Used(t)
  <2>1. Listed(t) = l
    BY <1>1, FollowIs DEF Listed, ListIs
  <2> QED
    BY <1>1, <2>1 DEF ListIs
<1>5. \A k \in Keys : HashOf[k][g + 1] \in Nat
  <2>1. g + 1 \in 1..(LastGen + 1)
    BY HashAssumption
  <2> QED
    BY <2>1, HashAssumption
<1>6. \A s \in Slots : t.hash[s] \in Nat /\ t.key[s] \in Keys \cup {Nil}
  BY <1>1 DEF TableRec
<1>7. Nil \notin Strs /\ Strs \subseteq Keys
  BY KeysAssumption DEF Keys
<1>8. h \in [Slots -> Nat]
  BY <1>2, <1>5, <1>6, <1>7 DEF HashesAt
<1>9. u \in TableRec(n)
  BY <1>1, <1>3, <1>8 DEF TableRec
<1>10. /\ u.gen = g /\ u.hash = h /\ u.key = t.key /\ u.next = t.next /\ u.last = t.last
       /\ u.head = t.head /\ u.tail = t.tail /\ u.cursor = t.cursor /\ u.count = t.count
  BY <1>1, <1>3 DEF TableRec
<1>11. Used(u) = Used(t) /\ Used(t) \subseteq Slots
  BY <1>10 DEF Used
<1>12. KeysOK(u)
  <2>1. ASSUME NEW s \in Used(u), u.key[s] \in Strs
        PROVE  u.hash[s] = Hash(u, u.key[s])
    BY <1>2, <1>4, <1>10, <1>11, <2>1 DEF HashesAt, Hash
  <2> QED
    BY <1>1, <1>10, <1>11, <2>1 DEF KeysOK
<1>13. ListIs(u, l)
  BY <1>1, <1>10, <1>11 DEF ListIs
<1>14. SameList(t, u)
  BY <1>10 DEF SameList
<1> QED
  BY <1>1, <1>2, <1>3, <1>9, <1>12, <1>13, <1>14 DEF Base

\* czl_hash_key_update: the chains are right under the new hash key.
LEMMA KeyUpdateParts ==
    ASSUME NEW n, NEW t, NEW l, Base(t, n, l)
    PROVE  /\ \E D : Parts(KeyUpdate(t), n, l, D)
           /\ SameList(t, KeyUpdate(t))
<1>1. n \in 1..MaxSize /\ t \in TableRec(n)
  BY DEF Base
<1>2. PICK g : g = NextGen(t.gen)
  OBVIOUS
<1>3. t.gen \in 0..LastGen /\ LastGen \in Nat
  BY <1>1, HashAssumption DEF TableRec
<1>4. g \in 0..LastGen /\ t.gen <= g
  BY <1>2, <1>3 DEF NextGen
<1>5. PICK u : u = [t EXCEPT !.gen = g, !.hash = HashesAt(t, g)]
  OBVIOUS
<1>6. Base(u, n, l) /\ SameList(t, u)
  BY <1>4, <1>5, NewHashes
<1>7. KeyUpdate(t) = Rehash(u, n)
  <2>1. SizeOf(t) = n
    BY <1>1, SizeIs
  <2> QED
    BY <1>2, <1>5, <2>1 DEF KeyUpdate
<1>8. PICK v : v = Rehash(u, n)
  OBVIOUS
<1>9. (\E D : Parts(v, n, l, D)) /\ SameEntries(u, v)
  BY <1>1, <1>6, <1>8, RehashParts
<1>10. SameList(t, v)
  BY <1>6, <1>9 DEF SameList, SameEntries
<1> QED
  BY <1>7, <1>8, <1>9, <1>10

\* czl_hash_size_update: the chains are right in the new number of buckets.
LEMMA ResizeParts ==
    ASSUME NEW n, NEW t, NEW l, Base(t, n, l), NEW size \in 1..MaxSize
    PROVE  /\ \E D : Parts(Resize(t, size), size, l, D)
           /\ SameList(t, Resize(t, size))
<1>1. n \in 1..MaxSize /\ t \in TableRec(n) /\ size # 0
  BY DEF Base
<1>2. PICK u : u = Rehash(t, size)
  OBVIOUS
<1>3. PICK D : Parts(u, size, l, D)
  BY <1>2, RehashParts
<1>4. SameList(t, u)
  BY <1>1, <1>2, RehashParts, SameEntriesList
<1>5. Base(u, size, l)
  BY <1>3, PartsBase
<1>6. PICK v : v = KeyUpdate(u)
  OBVIOUS
<1>7. (\E E : Parts(v, size, l, E)) /\ SameList(u, v)
  BY <1>5, <1>6, KeyUpdateParts
<1>8. SameList(t, v)
  <2>1. PICK E : Parts(v, size, l, E)
    BY <1>7
  <2>2. t.gen \in Nat /\ u.gen \in Nat /\ v.gen \in Nat
    BY <1>1, <1>3, <2>1, HashAssumption DEF Parts, TableRec
  <2> QED
    BY <1>4, <1>7, <2>2, SameListTransitive
<1>9. Resize(t, size) = u \/ Resize(t, size) = v
  BY <1>1, <1>2, <1>6 DEF Resize, Spread
<1> QED
  BY <1>3, <1>4, <1>7, <1>8, <1>9

----------------------------------------------------------------------------
(* Searching *)

\* The hash h leads to a bucket of a table of n buckets.
Leads(n, h) == IndexOf[n][h] \in 0..(n - 1)

\* A search finds only an entry with the key, and finds it with its hash.
LEMMA LookupIs ==
    ASSUME NEW n, NEW t, NEW l, NEW C, Parts(t, n, l, C), NEW k \in Keys,
           NEW h, Leads(n, h)
    PROVE  /\ Lookup(t, k, h) \in Used(t) \cup {Nil}
           /\ Lookup(t, k, h) # Nil => t.key[Lookup(t, k, h)] = k
           /\ h = Hash(t, k) => \A s \in Used(t) : t.key[s] = k => Lookup(t, k, h) = s
<1>1. /\ n \in 1..MaxSize /\ t \in TableRec(n) /\ KeysOK(t)
      /\ InBuckets(t, n, Spots(t, n), C)
  BY DEF Parts
<1>2. PICK i \in 0..(n - 1) : i = IndexOf[n][h]
  BY DEF Leads
<1>3. PICK q : q = C[i]
  OBVIOUS
<1>0. PICK at : at = Spots(t, n)
  OBVIOUS
<1>4. DOMAIN at = Used(t) /\ \A s \in Used(t) : at[s] = IndexOf[n][Hash(t, t.key[s])]
  BY <1>0 DEF Spots
<1>5. /\ Linked(t.down, t.up, t.bucket[i], q, i)
      /\ \A m \in 1..Len(q) : q[m] \in Used(t)
      /\ \A s \in Used(t) : at[s] = i => \E m \in 1..Len(q) : q[m] = s
  <2>1. InBuckets(t, n, at, C)
    BY <1>0, <1>1
  <2>2. ChainIs(t, at, i, q)
    BY <1>2, <1>3, <2>1, ChainHolds
  <2> QED
    BY <1>4, <2>2 DEF ChainIs
<1>10. Len(q) \in Nat
  BY <1>5, LenProperties DEF Linked
<1>6. Chain(t, IndexOf[SizeOf(t)][h]) = q
  <2>1. SizeOf(t) = n
    BY <1>1, SizeIs
  <2>2. Follow(t.down, t.bucket[i]) = q
    BY <1>5, FollowIs
  <2> QED
    BY <1>2, <2>1, <2>2 DEF Chain
<1> DEFINE I == {m \in 1..Len(q) : Matches(t, q[m], k, h)}
<1>7. PICK p : p = Lookup(t, k, h)
  OBVIOUS
<1>8. CASE I = {}
  <2>1. SelectInSeq(q, LAMBDA s : Matches(t, s, k, h)) = 0
    BY <1>8 DEF SelectInSeq
  <2>2. p = Nil
    BY <1>6, <1>7, <2>1 DEF Lookup
  <2>3. ASSUME h = Hash(t, k), NEW s \in Used(t), t.key[s] = k
        PROVE  FALSE
    <3>1. at[s] = i
      BY <1>2, <1>4, <2>3
    <3>2. PICK m \in 1..Len(q) : q[m] = s
      BY <1>5, <3>1
    <3>3. Matches(t, s, k, h)
      BY <1>1, <2>3 DEF Matches, KeysOK
    <3> QED
      BY <1>8, <3>2, <3>3
  <2> QED
    BY <1>7, <2>2, <2>3
<1>9. CASE I # {}
  <2>1. I \subseteq Nat
    BY <1>10
  <2>2. Min(I) \in I
    BY <1>9, <2>1, MinInSet
  <2>3. PICK m \in 1..Len(q) : m = Min(I) /\ Matches(t, q[m], k, h)
    BY <2>2
  <2>4. SelectInSeq(q, LAMBDA s : Matches(t, s, k, h)) = m
    BY <1>9, <2>3 DEF SelectInSeq
  <2>5. m # 0
    BY <1>10
  <2>6. p = q[m]
    BY <1>6, <1>7, <2>4, <2>5 DEF Lookup
  <2>7. p \in Used(t) /\ t.key[p] = k
    BY <1>5, <2>3, <2>6 DEF Matches
  <2>8. \A s \in Used(t) : t.key[s] = k => p = s
    BY <1>1, <2>7 DEF KeysOK
  <2> QED
    BY <1>7, <2>7, <2>8
<1> QED
  BY <1>8, <1>9

\* Find gives the entry of the key if there is one, and otherwise nothing.
LEMMA FindIs ==
    ASSUME NEW n, NEW t, NEW l, NEW C, Parts(t, n, l, C), NEW k \in Keys
    PROVE  /\ Find(t, k) \in Used(t) \cup {Nil}
           /\ Find(t, k) # Nil => t.key[Find(t, k)] = k
           /\ \A s \in Used(t) : t.key[s] = k => Find(t, k) = s
           /\ Find(t, k) = Nil <=> k \notin KeysOf(t)
<1>1. n \in 1..MaxSize /\ t \in TableRec(n)
  BY DEF Parts
<1>2. PICK h : h = Hash(t, k)
  OBVIOUS
<1>3. Leads(n, h)
  BY <1>1, <1>2, HashIs DEF Leads
<1>4. PICK p : p = Lookup(t, k, h)
  OBVIOUS
<1>5. /\ p \in Used(t) \cup {Nil}
      /\ p # Nil => t.key[p] = k
      /\ \A s \in Used(t) : t.key[s] = k => p = s
  BY <1>2, <1>3, <1>4, LookupIs
<1>6. Nil \notin Used(t)
  BY KeysAssumption DEF Used
<1>7. p = Nil <=> k \notin KeysOf(t)
  BY <1>5, <1>6 DEF KeysOf
<1> QED
  BY <1>2, <1>4, <1>5, <1>7 DEF Find

----------------------------------------------------------------------------
(* What the script sees *)

LEMMA ListedIs ==
    ASSUME NEW t, NEW l, ListIs(t, l)
    PROVE  /\ Listed(t) = l
           /\ l \in Seq(Slots) /\ Len(l) \in Nat /\ DOMAIN l = 1..Len(l)
           /\ \A m \in 1..Len(l) : l[m] \in Slots /\ l[m] \in Used(t)
           /\ \A s \in Used(t) : \E m \in 1..Len(l) : l[m] = s
           /\ \A a, b \in 1..Len(l) : l[a] = l[b] => a = b
           /\ OrderOf(t) = [m \in 1..Len(l) |-> t.key[l[m]]]
<1>1. Linked(t.next, t.last, t.head, l, Nil) /\ ToSet(l) = Used(t)
  BY DEF ListIs
<1>2. Listed(t) = l
  BY <1>1, FollowIs DEF Listed
<1>3. l \in Seq(Slots) /\ Len(l) \in Nat /\ DOMAIN l = 1..Len(l) /\ IsInjective(l)
  BY <1>1, LenProperties DEF Linked
<1>4. \A m \in 1..Len(l) : l[m] \in Slots
  BY <1>3, ElementOfSeq
<1>5. /\ \A m \in 1..Len(l) : l[m] \in Used(t)
      /\ \A s \in Used(t) : \E m \in 1..Len(l) : l[m] = s
  BY <1>1, <1>3 DEF ToSet
<1>6. \A a, b \in 1..Len(l) : l[a] = l[b] => a = b
  BY <1>3 DEF IsInjective
<1> QED
  BY <1>2, <1>3, <1>4, <1>5, <1>6 DEF OrderOf

\* What is met from an entry on is the rest of the list.
LEMMA KeysFromIs ==
    ASSUME NEW t, NEW l, ListIs(t, l), NEW c \in Used(t) \cup {Nil}
    PROVE  KeysFrom(t, c) = {t.key[e] : e \in From(l, c)}
<1>1. Linked(t.next, t.last, t.head, l, Nil) /\ ToSet(l) = Used(t)
  BY DEF ListIs
<1>2. ToSet(Follow(t.next, c)) = From(l, c)
  BY <1>1, FollowFrom
<1> QED
  BY <1>2 DEF KeysFrom

\* Tables with the same list look the same.
LEMMA SameLook ==
    ASSUME NEW t, NEW u, SameList(t, u)
    PROVE  /\ OrderOf(u) = OrderOf(t) /\ Used(u) = Used(t) /\ KeysOf(u) = KeysOf(t)
           /\ \A s : KeysFrom(u, s) = KeysFrom(t, s)
<1>1. Listed(u) = Listed(t)
  BY DEF Listed, SameList
<1>2. OrderOf(u) = OrderOf(t)
  BY <1>1 DEF OrderOf, SameList
<1>3. Used(u) = Used(t)
  BY DEF Used, SameList
<1>4. KeysOf(u) = KeysOf(t)
  BY <1>3 DEF KeysOf, SameList
<1>5. \A s : KeysFrom(u, s) = KeysFrom(t, s)
  BY DEF KeysFrom, SameList
<1> QED
  BY <1>2, <1>3, <1>4, <1>5

\* No more entries than keys: the index grows only while it is below the bound.
LEMMA CountBound ==
    ASSUME NEW n, NEW t, NEW l, Base(t, n, l)
    PROVE  /\ t.count = Len(l) /\ Len(l) = Cardinality(Used(t)) /\ Len(l) \in Nat
           /\ Len(l) <= Cardinality(Keys)
           /\ Cardinality(Keys) \in Nat
<1>1. n \in 1..MaxSize /\ t \in TableRec(n) /\ KeysOK(t) /\ ListIs(t, l)
  BY DEF Base
<1>2. l \in Seq(Slots) /\ IsInjective(l) /\ ToSet(l) = Used(t) /\ t.count = Len(l)
  BY <1>1 DEF ListIs, Linked
<1>3. Len(l) = Cardinality(Used(t)) /\ Len(l) \in Nat
  BY <1>2, LinkedLength, LenProperties
<1> DEFINE f == [s \in Used(t) |-> t.key[s]]
<1>4. f \in [Used(t) -> Keys]
  BY <1>1, UsedIs
<1>5. f \in Injection(Used(t), Keys)
  BY <1>1, <1>4 DEF Injection, IsInjective, KeysOK
<1>6. IsFiniteSet(Keys)
  BY KeysAssumption
<1> QED
  BY <1>2, <1>3, <1>5, <1>6, FS_Injection, FS_CardinalityType

----------------------------------------------------------------------------
(* The list *)

\* The list of t, apart from what is in the entries.
ListLinks(t, l) ==
    /\ Linked(t.next, t.last, t.head, l, Nil)
    /\ t.tail = IF Len(l) = 0 THEN Nil ELSE l[Len(l)]

\* u has the entries and the index of t.
SameIndex(t, u) ==
    /\ u.key = t.key /\ u.hash = t.hash /\ u.gen = t.gen
    /\ u.up = t.up /\ u.down = t.down /\ u.bucket = t.bucket
    /\ u.cursor = t.cursor /\ u.count = t.count

\* u is t with e behind s, or first when s is no entry.
NextSet(t, u, s, e) ==
    /\ SameIndex(t, u) /\ u.last = t.last /\ u.tail = t.tail
    /\ u.next = IF s = Nil THEN t.next ELSE [t.next EXCEPT ![s] = e]
    /\ u.head = IF s = Nil THEN e ELSE t.head

\* u is t with e before s, or last when s is no entry.
LastSet(t, u, s, e) ==
    /\ SameIndex(t, u) /\ u.next = t.next /\ u.head = t.head
    /\ u.last = IF s = Nil THEN t.last ELSE [t.last EXCEPT ![s] = e]
    /\ u.tail = IF s = Nil THEN e ELSE t.tail

\* SetNext and SetLast change one link, or the head or the tail.
LEMMA SetFields ==
    ASSUME NEW n, NEW t \in TableRec(n), NEW s \in Refs, NEW e \in Refs
    PROVE  /\ SetNext(t, s, e) \in TableRec(n) /\ NextSet(t, SetNext(t, s, e), s, e)
           /\ SetLast(t, s, e) \in TableRec(n) /\ LastSet(t, SetLast(t, s, e), s, e)
<1>1. CASE s = Nil
  <2>1. SetNext(t, s, e) = [t EXCEPT !.head = e] /\ SetLast(t, s, e) = [t EXCEPT !.tail = e]
    BY <1>1 DEF SetNext, SetLast
  <2>2. [t EXCEPT !.head = e] \in TableRec(n) /\ [t EXCEPT !.tail = e] \in TableRec(n)
    BY DEF TableRec
  <2> QED
    BY <1>1, <2>1, <2>2 DEF TableRec, SameIndex, NextSet, LastSet
<1>2. CASE s # Nil
  <2>1. SetNext(t, s, e) = [t EXCEPT !.next[s] = e] /\ SetLast(t, s, e) = [t EXCEPT !.last[s] = e]
    BY <1>2 DEF SetNext, SetLast
  <2>2. [t EXCEPT !.next[s] = e] \in TableRec(n) /\ [t EXCEPT !.last[s] = e] \in TableRec(n)
    BY DEF TableRec
  <2> QED
    BY <1>2, <2>1, <2>2 DEF TableRec, SameIndex, NextSet, LastSet
<1> QED
  BY <1>1, <1>2

\* u is t without the entry between a and e.
Bridged(t, u, a, e) ==
    /\ SameIndex(t, u)
    /\ u.next = IF a = Nil THEN t.next ELSE [t.next EXCEPT ![a] = e]
    /\ u.head = IF a = Nil THEN e ELSE t.head
    /\ u.last = IF e = Nil THEN t.last ELSE [t.last EXCEPT ![e] = a]
    /\ u.tail = IF e = Nil THEN a ELSE t.tail

\* An entry is taken out of the list.
LEMMA UnlinkFields ==
    ASSUME NEW n, NEW t \in TableRec(n), NEW s \in Slots
    PROVE  /\ Unlink(t, s) \in TableRec(n)
           /\ Bridged(t, Unlink(t, s), t.last[s], t.next[s])
<1>1. PICK e \in Refs : e = t.next[s]
  BY DEF TableRec
<1>2. PICK a \in Refs : a = t.last[s]
  BY DEF TableRec
<1>3. PICK v : v = SetNext(t, a, e)
  OBVIOUS
<1>4. v \in TableRec(n) /\ NextSet(t, v, a, e)
  BY <1>1, <1>2, <1>3, SetFields
<1>5. PICK u : u = SetLast(v, e, a)
  OBVIOUS
<1>6. u \in TableRec(n) /\ LastSet(v, u, e, a)
  BY <1>1, <1>2, <1>4, <1>5, SetFields
<1>7. Unlink(t, s) = u
  BY <1>1, <1>2, <1>3, <1>5 DEF Unlink
<1>8. Bridged(t, u, a, e)
  BY <1>4, <1>6 DEF SameIndex, NextSet, LastSet, Bridged
<1> QED
  BY <1>1, <1>2, <1>6, <1>7, <1>8

\* czl_swap_tabkv, first half: the entry at m is out of the list.
LEMMA UnlinkList ==
    ASSUME NEW n, NEW t \in TableRec(n), NEW l, ListLinks(t, l), NEW m \in 1..Len(l)
    PROVE  /\ ListLinks(Unlink(t, l[m]), RemoveAt(l, m))
           /\ ToSet(RemoveAt(l, m)) = ToSet(l) \ {l[m]}
<1>1. Linked(t.next, t.last, t.head, l, Nil) /\ t.tail = IF Len(l) = 0 THEN Nil ELSE l[Len(l)]
  BY DEF ListLinks
<1>2. /\ l \in Seq(Slots) /\ Len(l) \in Nat
      /\ \A j \in 1..Len(l) : l[j] \in Slots
      /\ \A j \in 1..Len(l) : t.next[l[j]] = IF j = Len(l) THEN Nil ELSE l[j + 1]
      /\ \A j \in 1..Len(l) : t.last[l[j]] = IF j = 1 THEN Nil ELSE l[j - 1]
  BY <1>1, LenProperties, ElementOfSeq DEF Linked
<1>3. \A a, b \in 1..Len(l) : l[a] = l[b] => a = b
  <2>1. DOMAIN l = 1..Len(l) /\ IsInjective(l)
    BY <1>1, <1>2, LenProperties DEF Linked
  <2> QED
    BY <2>1 DEF IsInjective
<1>4. PICK s \in Slots : s = l[m]
  BY <1>2
<1>5. PICK e : e = t.next[s]
  OBVIOUS
<1>6. PICK a : a = t.last[s]
  OBVIOUS
<1>7. PICK u : u = Unlink(t, s)
  OBVIOUS
<1>8. /\ u.next = IF a = Nil THEN t.next ELSE [t.next EXCEPT ![a] = e]
      /\ u.head = IF a = Nil THEN e ELSE t.head
      /\ u.last = IF e = Nil THEN t.last ELSE [t.last EXCEPT ![e] = a]
      /\ u.tail = IF e = Nil THEN a ELSE t.tail
  BY <1>4, <1>5, <1>6, <1>7, UnlinkFields DEF Bridged
<1>9. Nil \notin Slots /\ DOMAIN t.next = Slots /\ DOMAIN t.last = Slots
  BY KeysAssumption DEF TableRec
<1>10. e = IF m = Len(l) THEN Nil ELSE l[m + 1]
  BY <1>2, <1>4, <1>5
<1>11. a = IF m = 1 THEN Nil ELSE l[m - 1]
  BY <1>2, <1>4, <1>6
<1>12. m # 1 => m - 1 \in 1..Len(l) /\ a \in Slots /\ a # Nil
  BY <1>2, <1>9, <1>11
<1>13. m # Len(l) => m + 1 \in 1..Len(l) /\ e \in Slots /\ e # Nil
  BY <1>2, <1>9, <1>10
<1>14. u.head = IF m = 1 THEN t.next[l[m]] ELSE t.head
  BY <1>4, <1>5, <1>8, <1>11, <1>12
<1>15. ASSUME NEW j \in 1..Len(l), j # m
       PROVE  /\ u.next[l[j]] = IF j + 1 = m THEN t.next[l[m]] ELSE t.next[l[j]]
              /\ u.last[l[j]] = IF j = m + 1 THEN t.last[l[m]] ELSE t.last[l[j]]
  <2>1. l[j] \in Slots
    BY <1>2
  <2>2. u.next[l[j]] = IF j + 1 = m THEN e ELSE t.next[l[j]]
    <3>1. CASE m = 1
      <4>1. j + 1 # m
        BY <1>2, <3>1
      <4> QED
        BY <1>8, <1>11, <3>1, <4>1
    <3>2. CASE m # 1
      <4>1. l[j] = a <=> j + 1 = m
        <5>1. l[j] = l[m - 1] <=> j = m - 1
          BY <1>3, <1>12, <3>2
        <5>2. j = m - 1 <=> j + 1 = m
          BY <1>2
        <5> QED
          BY <1>11, <3>2, <5>1, <5>2
      <4> QED
        BY <1>8, <1>9, <1>12, <2>1, <3>2, <4>1
    <3> QED
      BY <3>1, <3>2
  <2>3. u.last[l[j]] = IF j = m + 1 THEN a ELSE t.last[l[j]]
    <3>1. CASE m = Len(l)
      <4>1. j # m + 1
        BY <1>2, <3>1
      <4> QED
        BY <1>8, <1>10, <3>1, <4>1
    <3>2. CASE m # Len(l)
      <4>1. l[j] = e <=> j = m + 1
        BY <1>3, <1>10, <1>13, <3>2
      <4> QED
        BY <1>8, <1>9, <1>13, <2>1, <3>2, <4>1
    <3> QED
      BY <3>1, <3>2
  <2> QED
    BY <1>4, <1>5, <1>6, <2>2, <2>3
<1>16. TakenOut(t.next, t.last, l, m, u.next, u.last)
  BY <1>15 DEF TakenOut
<1>17. PICK r : r = RemoveAt(l, m)
  OBVIOUS
<1>18. Linked(u.next, u.last, u.head, r, Nil) /\ ToSet(r) = ToSet(l) \ {l[m]}
  BY <1>1, <1>14, <1>16, <1>17, LinkedRemove
<1>19. /\ Len(r) = Len(l) - 1
       /\ \A j \in 1..(Len(l) - 1) : r[j] = IF j < m THEN l[j] ELSE l[j + 1]
  BY <1>2, <1>17, RemoveAtProperties
<1>20. u.tail = IF Len(r) = 0 THEN Nil ELSE r[Len(r)]
  <2>1. CASE m = Len(l)
    <3>1. CASE m = 1
      BY <1>8, <1>10, <1>11, <1>19, <2>1, <3>1
    <3>2. CASE m # 1
      <4>1. Len(r) = m - 1 /\ Len(r) # 0 /\ Len(r) \in 1..(Len(l) - 1) /\ Len(r) < m
        BY <1>2, <1>19, <2>1, <3>2
      <4>2. r[Len(r)] = l[m - 1]
        BY <1>19, <4>1
      <4> QED
        BY <1>8, <1>10, <1>11, <2>1, <3>2, <4>1, <4>2
    <3> QED
      BY <3>1, <3>2
  <2>2. CASE m # Len(l)
    <3>1. /\ Len(r) # 0 /\ Len(r) \in 1..(Len(l) - 1) /\ ~(Len(r) < m)
          /\ Len(r) + 1 = Len(l) /\ Len(l) # 0
      BY <1>2, <1>19, <2>2
    <3>2. r[Len(r)] = l[Len(l)]
      BY <1>19, <3>1
    <3> QED
      BY <1>1, <1>8, <1>13, <2>2, <3>1, <3>2
  <2> QED
    BY <2>1, <2>2
<1> QED
  BY <1>4, <1>7, <1>17, <1>18, <1>20 DEF ListLinks

\* u is t with s between a and e.
Joined(t, u, s, a, e) ==
    /\ SameIndex(t, u)
    /\ \A r \in Slots : u.next[r] = IF r = a THEN s ELSE IF r = s THEN e ELSE t.next[r]
    /\ u.head = IF a = Nil THEN s ELSE t.head
    /\ \A r \in Slots : u.last[r] = IF r = e THEN s ELSE IF r = s THEN a ELSE t.last[r]
    /\ u.tail = IF e = Nil THEN s ELSE t.tail

\* What is behind a, or first when a is no entry.
After(t, a) == IF a = Nil THEN t.head ELSE t.next[a]

\* An entry is put into the list.
LEMMA LinkFields ==
    ASSUME NEW n, NEW t \in TableRec(n), NEW s \in Slots, NEW a \in Refs \ {s}
    PROVE  /\ LinkBehind(t, s, a) \in TableRec(n)
           /\ Joined(t, LinkBehind(t, s, a), s, a, After(t, a))
<1>0. Nil \notin Slots
  BY KeysAssumption
<1>1. PICK e \in Refs : e = After(t, a)
  BY DEF TableRec, After, Refs
<1>2. PICK w : w = [t EXCEPT !.next[s] = e, !.last[s] = a]
  OBVIOUS
<1>3. /\ w \in TableRec(n) /\ SameIndex(t, w) /\ w.head = t.head /\ w.tail = t.tail
      /\ w.next = [t.next EXCEPT ![s] = e] /\ w.last = [t.last EXCEPT ![s] = a]
  BY <1>1, <1>2 DEF TableRec, SameIndex
<1>4. PICK v : v = SetNext(w, a, s)
  OBVIOUS
<1>5. v \in TableRec(n) /\ NextSet(w, v, a, s)
  BY <1>3, <1>4, SetFields DEF Refs
<1>6. DOMAIN t.next = Slots /\ DOMAIN t.last = Slots
  BY DEF TableRec
<1>7. v.next[s] = e
  BY <1>3, <1>5, <1>6 DEF NextSet
<1>8. PICK u : u = SetLast(v, e, s)
  OBVIOUS
<1>9. u \in TableRec(n) /\ LastSet(v, u, e, s)
  BY <1>1, <1>5, <1>8, SetFields DEF Refs
<1>10. LinkBehind(t, s, a) = u
  BY <1>1, <1>2, <1>4, <1>7, <1>8 DEF LinkBehind, After
<1>11. SameIndex(t, u)
  BY <1>3, <1>5, <1>9 DEF SameIndex, NextSet, LastSet
<1>12. \A r \in Slots : u.next[r] = IF r = a THEN s ELSE IF r = s THEN e ELSE t.next[r]
  BY <1>0, <1>3, <1>5, <1>6, <1>9 DEF NextSet, LastSet, Refs
<1>13. \A r \in Slots : u.last[r] = IF r = e THEN s ELSE IF r = s THEN a ELSE t.last[r]
  BY <1>0, <1>1, <1>3, <1>5, <1>6, <1>9 DEF NextSet, LastSet, Refs
<1>14. u.head = (IF a = Nil THEN s ELSE t.head) /\ u.tail = (IF e = Nil THEN s ELSE t.tail)
  BY <1>3, <1>5, <1>9 DEF NextSet, LastSet
<1> QED
  BY <1>1, <1>9, <1>10, <1>11, <1>12, <1>13, <1>14 DEF Joined

\* The entry at place m of l, or none when m is 0.
Entry(l, m) == IF m = 0 THEN Nil ELSE l[m]

\* czl_swap_tabkv, second half: the entry is in the list behind the m-th.
LEMMA LinkList ==
    ASSUME NEW n, NEW t \in TableRec(n), NEW l, ListLinks(t, l), NEW s \in Slots,
           s \notin ToSet(l), NEW m \in 0..Len(l)
    PROVE  /\ LinkBehind(t, s, Entry(l, m)) \in TableRec(n)
           /\ SameIndex(t, LinkBehind(t, s, Entry(l, m)))
           /\ ListLinks(LinkBehind(t, s, Entry(l, m)), InsertAt(l, m + 1, s))
           /\ ToSet(InsertAt(l, m + 1, s)) = ToSet(l) \cup {s}
<1>1. Linked(t.next, t.last, t.head, l, Nil) /\ t.tail = IF Len(l) = 0 THEN Nil ELSE l[Len(l)]
  BY DEF ListLinks
<1>0. l \in Seq(Slots) /\ DOMAIN l = 1..Len(l) /\ IsInjective(l)
  BY <1>1, LenProperties DEF Linked
<1>2. /\ l \in Seq(Slots) /\ Len(l) \in Nat
      /\ \A j \in 1..Len(l) : l[j] \in Slots
      /\ \A j \in 1..Len(l) : t.next[l[j]] = IF j = Len(l) THEN Nil ELSE l[j + 1]
      /\ \A j \in 1..Len(l) : t.last[l[j]] = IF j = 1 THEN Nil ELSE l[j - 1]
  BY <1>1, LenProperties, ElementOfSeq DEF Linked
<1>3. \A a, b \in 1..Len(l) : l[a] = l[b] => a = b
  BY <1>0 DEF IsInjective
<1>4. \A j \in 1..Len(l) : l[j] # s
  BY <1>0 DEF ToSet
<1>5. Nil \notin Slots
  BY KeysAssumption
<1>6. PICK a : a = Entry(l, m)
  OBVIOUS
<1>7. m # 0 => m \in 1..Len(l) /\ a = l[m] /\ a \in Slots
  BY <1>2, <1>6 DEF Entry
<1>8. m = 0 => a = Nil
  BY <1>6 DEF Entry
<1>9. a \in Refs \ {s}
  BY <1>4, <1>5, <1>7, <1>8 DEF Refs
<1>10. t.head = IF Len(l) = 0 THEN Nil ELSE l[1]
  BY <1>1, <1>2, EmptySeq DEF Linked
<1>11. PICK e : e = After(t, a)
  OBVIOUS
<1>12. e = IF m = Len(l) THEN Nil ELSE l[m + 1]
  <2>1. CASE m = 0
    <3>1. e = t.head
      BY <1>8, <1>11, <2>1 DEF After
    <3> QED
      BY <1>2, <1>10, <2>1, <3>1
  <2>2. CASE m # 0
    <3>1. e = t.next[l[m]]
      BY <1>5, <1>7, <1>11, <2>2 DEF After
    <3> QED
      BY <1>2, <1>7, <2>2, <3>1
  <2> QED
    BY <2>1, <2>2
<1>13. PICK u : u = LinkBehind(t, s, a)
  OBVIOUS
<1>14. u \in TableRec(n) /\ Joined(t, u, s, a, e)
  BY <1>9, <1>11, <1>13, LinkFields
<1>15. m # Len(l) => m + 1 \in 1..Len(l) /\ e \in Slots
  BY <1>2, <1>12
<1>16. u.head = IF m = 0 THEN s ELSE t.head
  BY <1>5, <1>7, <1>8, <1>14 DEF Joined
<1>17. u.next[s] = IF m = Len(l) THEN Nil ELSE l[m + 1]
  BY <1>9, <1>12, <1>14 DEF Joined
<1>18. u.last[s] = IF m = 0 THEN Nil ELSE l[m]
  <2>1. e # s
    BY <1>4, <1>5, <1>12, <1>15
  <2> QED
    BY <1>7, <1>8, <1>14, <2>1 DEF Joined
<1>19. ASSUME NEW j \in 1..Len(l)
       PROVE  u.next[l[j]] = IF j = m THEN s ELSE t.next[l[j]]
  <2>1. l[j] = a <=> j = m
    <3>1. CASE m = 0
      <4>1. j # m
        BY <1>2, <3>1
      <4> QED
        BY <1>2, <1>5, <1>8, <3>1, <4>1
    <3>2. CASE m # 0
      BY <1>3, <1>7, <3>2
    <3> QED
      BY <3>1, <3>2
  <2> QED
    BY <1>2, <1>4, <1>14, <2>1 DEF Joined
<1>20. ASSUME NEW j \in 1..Len(l)
       PROVE  u.last[l[j]] = IF j = m + 1 THEN s ELSE t.last[l[j]]
  <2>1. l[j] = e <=> j = m + 1
    <3>1. CASE m = Len(l)
      <4>1. j # m + 1
        BY <1>2, <3>1
      <4> QED
        BY <1>2, <1>5, <1>12, <3>1, <4>1
    <3>2. CASE m # Len(l)
      BY <1>3, <1>12, <1>15, <3>2
    <3> QED
      BY <3>1, <3>2
  <2> QED
    BY <1>2, <1>4, <1>14, <2>1 DEF Joined
<1>21. PICK r : r = InsertAt(l, m + 1, s)
  OBVIOUS
<1>22. Linked(u.next, u.last, u.head, r, Nil) /\ ToSet(r) = ToSet(l) \cup {s}
  <2>1. PutIn(t.next, t.last, l, m, s, Nil, u.next, u.last)
    BY <1>17, <1>18, <1>19, <1>20 DEF PutIn
  <2> QED
    BY <1>1, <1>16, <1>21, <2>1, LinkedInsert
<1>23. /\ Len(r) = Len(l) + 1
       /\ \A j \in 1..(Len(l) + 1) :
            r[j] = IF j < m + 1 THEN l[j] ELSE IF j = m + 1 THEN s ELSE l[j - 1]
  <2>1. \A i \in 1..(Len(l) + 1) :
          /\ Len(InsertAt(l, i, s)) = Len(l) + 1
          /\ \A j \in 1..(Len(l) + 1) :
                InsertAt(l, i, s)[j] = IF j < i THEN l[j] ELSE IF j = i THEN s ELSE l[j - 1]
    BY <1>2, InsertAtProperties
  <2>2. m + 1 \in 1..(Len(l) + 1)
    BY <1>2
  <2> QED
    BY <1>21, <2>1, <2>2
<1>24. u.tail = IF Len(r) = 0 THEN Nil ELSE r[Len(r)]
  <2>1. Len(r) # 0 /\ Len(r) \in 1..(Len(l) + 1) /\ Len(r) - 1 = Len(l)
    BY <1>2, <1>23
  <2>2. CASE m = Len(l)
    <3>0. Len(r) = m + 1 /\ ~(Len(r) < m + 1)
      BY <1>2, <1>23, <2>2
    <3>1. r[Len(r)] = s
      BY <1>23, <2>1, <3>0
    <3> QED
      BY <1>12, <1>14, <2>1, <2>2, <3>1 DEF Joined
  <2>3. CASE m # Len(l)
    <3>1. ~(Len(r) < m + 1) /\ Len(r) # m + 1 /\ Len(l) # 0
      BY <1>2, <1>23, <2>3
    <3>2. r[Len(r)] = l[Len(l)]
      BY <1>23, <2>1, <3>1
    <3> QED
      BY <1>1, <1>5, <1>14, <1>15, <2>1, <2>3, <3>1, <3>2 DEF Joined
  <2> QED
    BY <2>2, <2>3
<1> QED
  BY <1>6, <1>13, <1>14, <1>21, <1>22, <1>24 DEF ListLinks, Joined

----------------------------------------------------------------------------
(* An entry leaves its chain *)

\* u is t without the entry below a, or the first of bucket i when a is none,
\* and above b.
Freed(t, u, i, a, b) ==
    /\ SameEntries(t, u)
    /\ u.bucket = IF a = Nil THEN [t.bucket EXCEPT ![i] = b] ELSE t.bucket
    /\ u.down = IF a = Nil THEN t.down ELSE [t.down EXCEPT ![a] = b]

\* x is a, or the bucket i when a is none: what the first of a chain points at.
Above(x, i, a) == x = IF a = Nil THEN i ELSE a

\* b is put below x, which is an entry or the bucket i.
Hung(t, x, i, b) == IF x \in DOMAIN t.bucket THEN [t EXCEPT !.bucket[i] = b]
                    ELSE [t EXCEPT !.down[x] = b]

\* What leads to an entry of a chain, a bucket or an entry, leads to b instead.
LEMMA HungFields ==
    ASSUME NEW n \in 1..MaxSize, NEW t \in TableRec(n), NEW b \in Refs,
           NEW i \in 0..(n - 1), NEW a \in Refs, NEW x, Above(x, i, a)
    PROVE  /\ x \in Nat /\ (x \in DOMAIN t.bucket <=> a = Nil)
           /\ Hung(t, x, i, b) \in TableRec(n)
           /\ Freed(t, Hung(t, x, i, b), i, a, b)
           /\ Hung(t, x, i, b).up = t.up
<1>1. n \in Nat
  BY SizesAssumption
<1>2. DOMAIN t.bucket = 0..(n - 1)
  BY DEF TableRec
<1>3. PICK v : v = Hung(t, x, i, b)
  OBVIOUS
<1>4. CASE a = Nil
  <2>1. x = i
    BY <1>4 DEF Above
  <2>2. x \in Nat
    BY <1>1, <2>1
  <2>3. x \in DOMAIN t.bucket
    BY <1>2, <2>1
  <2>4. v = [t EXCEPT !.bucket[i] = b]
    BY <1>3, <2>3 DEF Hung
  <2>5. v \in TableRec(n) /\ Freed(t, v, i, a, b) /\ v.up = t.up
    BY <1>4, <2>4 DEF TableRec, Freed, SameEntries
  <2> QED
    BY <1>3, <1>4, <2>2, <2>3, <2>5
<1>5. CASE a # Nil
  <2>1. x = a /\ a \in Slots
    BY <1>5 DEF Above, Refs
  <2>2. x \in Nat /\ x \notin 0..(n - 1)
    BY <1>1, <2>1, SlotsAssumption, SizesAssumption
  <2>3. x \notin DOMAIN t.bucket
    BY <1>2, <2>2
  <2>4. v = [t EXCEPT !.down[a] = b]
    BY <1>3, <2>1, <2>3 DEF Hung
  <2>5. v \in TableRec(n) /\ Freed(t, v, i, a, b) /\ v.up = t.up
    BY <1>5, <2>1, <2>4 DEF TableRec, Freed, SameEntries
  <2> QED
    BY <1>3, <1>5, <2>2, <2>3, <2>5
<1> QED
  BY <1>4, <1>5

\* u is t with b, if it is an entry, pointing back at x.
UpSet(t, u, b, x) ==
    /\ SameEntries(t, u) /\ u.bucket = t.bucket /\ u.down = t.down
    /\ u.up = IF b = Nil THEN t.up ELSE [t.up EXCEPT ![b] = x]

\* The fields of a table after the change of one link back.
LEMMA UpFields ==
    ASSUME NEW n, NEW t \in TableRec(n), NEW b \in Refs, NEW x \in Nat
    PROVE  LET u == IF b = Nil THEN t ELSE [t EXCEPT !.up[b] = x]
           IN  u \in TableRec(n) /\ UpSet(t, u, b, x)
<1>1. CASE b = Nil
  BY <1>1 DEF UpSet, SameEntries
<1>2. CASE b # Nil
  <2>1. PICK u : u = [t EXCEPT !.up[b] = x]
    OBVIOUS
  <2>2. u \in TableRec(n) /\ UpSet(t, u, b, x)
    BY <1>2, <2>1 DEF TableRec, UpSet, SameEntries, Refs
  <2> QED
    BY <1>2, <2>1, <2>2
<1> QED
  BY <1>1, <1>2

\* u is t without s in the chain of bucket i, and a above it.
Unchained(t, u, s, i, a) ==
    /\ Freed(t, u, i, a, t.down[s])
    /\ u.up = IF t.down[s] = Nil THEN t.up ELSE [t.up EXCEPT ![t.down[s]] = t.up[s]]

\* An entry taken out of its chain changes at most one link each way.
LEMMA UnchainFields ==
    ASSUME NEW n \in 1..MaxSize, NEW t \in TableRec(n), NEW s \in Slots,
           NEW i \in 0..(n - 1), NEW a \in Refs, Above(t.up[s], i, a)
    PROVE  /\ Unchain(t, s, i) \in TableRec(n)
           /\ Unchained(t, Unchain(t, s, i), s, i, a)
<1>1. PICK b \in Refs : b = t.down[s]
  BY DEF TableRec
<1>2. PICK x : x = t.up[s]
  OBVIOUS
<1>3. PICK v : v = Hung(t, x, i, b)
  OBVIOUS
<1>4. x \in Nat /\ v \in TableRec(n) /\ Freed(t, v, i, a, b) /\ v.up = t.up
  BY <1>1, <1>2, <1>3, HungFields
<1>5. PICK u : u = IF b = Nil THEN v ELSE [v EXCEPT !.up[b] = x]
  OBVIOUS
<1>6. u \in TableRec(n) /\ UpSet(v, u, b, x)
  BY <1>1, <1>4, <1>5, UpFields
<1>7. Unchain(t, s, i) = u
  BY <1>1, <1>2, <1>3, <1>5 DEF Unchain, Hung
<1>8. Unchained(t, u, s, i, a)
  BY <1>1, <1>2, <1>4, <1>6 DEF Unchained, Freed, UpSet, SameEntries
<1> QED
  BY <1>6, <1>7, <1>8

\* The chains without the entry.
LEMMA UnchainOK ==
    ASSUME NEW n \in 1..MaxSize, NEW t \in TableRec(n), NEW at, NEW C,
           InBuckets(t, n, at, C), DOMAIN at \subseteq Slots,
           NEW s \in DOMAIN at, NEW i \in 0..(n - 1), i = at[s]
    PROVE  /\ Unchain(t, s, i) \in TableRec(n)
           /\ SameEntries(t, Unchain(t, s, i))
           /\ \E D : InBuckets(Unchain(t, s, i), n, [e \in DOMAIN at \ {s} |-> at[e]], D)
<1>1. PICK q : q = C[i]
  OBVIOUS
<1>2. ChainIs(t, at, i, q)
  BY <1>1, ChainHolds
<1>3. /\ Len(q) \in Nat /\ Linked(t.down, t.up, t.bucket[i], q, i)
      /\ \A m \in 1..Len(q) : q[m] \in Slots
      /\ \A m \in 1..Len(q) : t.down[q[m]] = IF m = Len(q) THEN Nil ELSE q[m + 1]
      /\ \A m \in 1..Len(q) : t.up[q[m]] = IF m = 1 THEN i ELSE q[m - 1]
  BY <1>2 DEF ChainIs, Linked
<1>4. PICK m \in 1..Len(q) : q[m] = s
  BY <1>2 DEF ChainIs
<1>5. \A c, d \in 1..Len(q) : q[c] = q[d] => c = d
  <2>1. DOMAIN q = 1..Len(q) /\ IsInjective(q)
    BY <1>2, LenProperties DEF ChainIs, Linked
  <2> QED
    BY <2>1 DEF IsInjective
<1>6. Nil \notin Slots /\ s \in Slots
  BY KeysAssumption
<1>7. PICK a : a = IF m = 1 THEN Nil ELSE q[m - 1]
  OBVIOUS
<1>8. m # 1 => m - 1 \in 1..Len(q) /\ a \in Slots /\ a # Nil
  BY <1>3, <1>6, <1>7
<1>9. a \in Refs /\ Above(t.up[s], i, a)
  BY <1>3, <1>4, <1>7, <1>8 DEF Refs, Above
<1>10. PICK b : b = t.down[s]
  OBVIOUS
<1>11. b = IF m = Len(q) THEN Nil ELSE q[m + 1]
  BY <1>3, <1>4, <1>10
<1>12. m # Len(q) => m + 1 \in 1..Len(q) /\ b \in Slots /\ b # Nil
  BY <1>3, <1>6, <1>11
<1>13. PICK u : u = Unchain(t, s, i)
  OBVIOUS
<1>14. /\ u \in TableRec(n) /\ Freed(t, u, i, a, b)
       /\ u.up = IF b = Nil THEN t.up ELSE [t.up EXCEPT ![b] = t.up[s]]
  <2>1. u \in TableRec(n) /\ Unchained(t, u, s, i, a)
    BY <1>6, <1>9, <1>13, UnchainFields
  <2> QED
    BY <1>10, <2>1 DEF Unchained
<1>15. DOMAIN t.down = Slots /\ DOMAIN t.up = Slots /\ DOMAIN t.bucket = 0..(n - 1)
  BY DEF TableRec
<1>16. u.bucket[i] = IF m = 1 THEN t.down[q[m]] ELSE t.bucket[i]
  BY <1>4, <1>7, <1>8, <1>10, <1>14, <1>15 DEF Freed
<1>17. ASSUME NEW j \in 1..Len(q), j # m
       PROVE  /\ u.down[q[j]] = IF j + 1 = m THEN t.down[q[m]] ELSE t.down[q[j]]
              /\ u.up[q[j]] = IF j = m + 1 THEN t.up[q[m]] ELSE t.up[q[j]]
  <2>1. q[j] \in Slots
    BY <1>3
  <2>2. u.down[q[j]] = IF j + 1 = m THEN b ELSE t.down[q[j]]
    <3>1. CASE m = 1
      <4>1. j + 1 # m
        BY <1>3, <3>1
      <4> QED
        BY <1>7, <1>14, <3>1, <4>1 DEF Freed
    <3>2. CASE m # 1
      <4>1. q[j] = a <=> j + 1 = m
        <5>1. q[j] = q[m - 1] <=> j = m - 1
          BY <1>5, <1>8, <3>2
        <5>2. j = m - 1 <=> j + 1 = m
          BY <1>3
        <5> QED
          BY <1>7, <3>2, <5>1, <5>2
      <4> QED
        BY <1>8, <1>14, <1>15, <2>1, <3>2, <4>1 DEF Freed
    <3> QED
      BY <3>1, <3>2
  <2>3. u.up[q[j]] = IF j = m + 1 THEN t.up[s] ELSE t.up[q[j]]
    <3>1. CASE m = Len(q)
      <4>1. j # m + 1
        BY <1>3, <3>1
      <4> QED
        BY <1>11, <1>14, <3>1, <4>1
    <3>2. CASE m # Len(q)
      <4>1. q[j] = b <=> j = m + 1
        BY <1>5, <1>11, <1>12, <3>2
      <4> QED
        BY <1>12, <1>14, <1>15, <2>1, <3>2, <4>1
    <3> QED
      BY <3>1, <3>2
  <2> QED
    BY <1>4, <1>10, <2>2, <2>3
<1>18. TakenOut(t.down, t.up, q, m, u.down, u.up)
  BY <1>17 DEF TakenOut
<1>19. PICK r : r = RemoveAt(q, m)
  OBVIOUS
<1>20. Linked(u.down, u.up, u.bucket[i], r, i) /\ ToSet(r) = ToSet(q) \ {s}
  BY <1>3, <1>4, <1>16, <1>18, <1>19, LinkedRemove
<1>21. PICK at2 : at2 = [e \in DOMAIN at \ {s} |-> at[e]]
  OBVIOUS
<1>22. DOMAIN at2 = DOMAIN at \ {s} /\ \A e \in DOMAIN at2 : at2[e] = at[e]
  BY <1>21
<1>23. ASSUME NEW j \in 0..(n - 1), j # i
       PROVE  /\ Linked(u.down, u.up, u.bucket[j], C[j], j)
              /\ ToSet(C[j]) = {e \in DOMAIN at2 : at2[e] = j}
  <2>1. PICK p : p = C[j]
    OBVIOUS
  <2>2. ChainIs(t, at, j, p)
    BY <2>1, ChainHolds
  <2>3. ASSUME NEW k \in 1..Len(p)
        PROVE  u.down[p[k]] = t.down[p[k]] /\ u.up[p[k]] = t.up[p[k]]
    <3>1. at[p[k]] = j /\ p[k] \in Slots
      BY <2>2 DEF ChainIs
    <3>2. p[k] # a
      <4>1. CASE m = 1
        BY <1>6, <1>7, <3>1, <4>1
      <4>2. CASE m # 1
        <5>1. at[a] = i
          BY <1>2, <1>7, <1>8, <4>2 DEF ChainIs
        <5> QED
          BY <1>23, <3>1, <5>1
      <4> QED
        BY <4>1, <4>2
    <3>3. p[k] # b
      <4>1. CASE m = Len(q)
        BY <1>6, <1>11, <3>1, <4>1
      <4>2. CASE m # Len(q)
        <5>1. at[b] = i
          BY <1>2, <1>11, <1>12, <4>2 DEF ChainIs
        <5> QED
          BY <1>23, <3>1, <5>1
      <4> QED
        BY <4>1, <4>2
    <3> QED
      BY <1>14, <1>15, <3>1, <3>2, <3>3 DEF Freed
  <2>4. u.bucket[j] = t.bucket[j]
    BY <1>14, <1>15, <1>23 DEF Freed
  <2>5. Linked(t.down, t.up, t.bucket[j], p, j)
    BY <2>2 DEF ChainIs
  <2>6. Linked(u.down, u.up, u.bucket[j], p, j)
    BY <2>3, <2>4, <2>5, LinkedFrame
  <2>7. ToSet(p) = {e \in DOMAIN at : at[e] = j}
    BY <2>1 DEF InBuckets
  <2>8. {e \in DOMAIN at : at[e] = j} = {e \in DOMAIN at2 : at2[e] = j}
    BY <1>22, <1>23
  <2> QED
    BY <2>1, <2>6, <2>7, <2>8
<1>24. ToSet(r) = {e \in DOMAIN at2 : at2[e] = i}
  <2>1. ToSet(q) = {e \in DOMAIN at : at[e] = i}
    BY <1>1 DEF InBuckets
  <2> QED
    BY <1>20, <1>22, <2>1
<1>25. PICK D : D = [C EXCEPT ![i] = r]
  OBVIOUS
<1>26. C \in [0..(n - 1) -> Seq(Slots)] /\ r \in Seq(Slots)
  BY <1>20 DEF InBuckets, Linked
<1>27. D \in [0..(n - 1) -> Seq(Slots)] /\ D[i] = r /\ \A j \in 0..(n - 1) : j # i => D[j] = C[j]
  BY <1>25, <1>26
<1>28. InBuckets(u, n, at2, D)
  <2>1. ASSUME NEW j \in 0..(n - 1)
        PROVE  /\ Linked(u.down, u.up, u.bucket[j], D[j], j)
               /\ ToSet(D[j]) = {e \in DOMAIN at2 : at2[e] = j}
    BY <1>20, <1>23, <1>24, <1>27
  <2> QED
    BY <1>27, <2>1 DEF InBuckets
<1> QED
  BY <1>13, <1>14, <1>21, <1>28 DEF Freed

\* Only the entries in the chains, and those in the list, matter.
LEMMA BucketsFrame ==
    ASSUME NEW t, NEW u, NEW n, NEW at, NEW C, InBuckets(t, n, at, C), u.bucket = t.bucket,
           \A e \in DOMAIN at : u.down[e] = t.down[e] /\ u.up[e] = t.up[e]
    PROVE  InBuckets(u, n, at, C)
<1>1. ASSUME NEW i \in 0..(n - 1)
      PROVE  Linked(u.down, u.up, u.bucket[i], C[i], i)
  <2>1. PICK q : q = C[i]
    OBVIOUS
  <2>2. ChainIs(t, at, i, q)
    BY <2>1, ChainHolds
  <2>3. Linked(t.down, t.up, u.bucket[i], q, i)
    BY <2>2 DEF ChainIs
  <2>4. \A m \in 1..Len(q) : u.down[q[m]] = t.down[q[m]] /\ u.up[q[m]] = t.up[q[m]]
    BY <2>2 DEF ChainIs
  <2> QED
    BY <2>1, <2>3, <2>4, LinkedFrame
<1> QED
  BY <1>1 DEF InBuckets

\* The list depends on its own links only.
LEMMA ListFrame ==
    ASSUME NEW t, NEW u, NEW l, ListLinks(t, l), u.head = t.head, u.tail = t.tail,
           \A e \in ToSet(l) : u.next[e] = t.next[e] /\ u.last[e] = t.last[e]
    PROVE  ListLinks(u, l)
<1>1. Linked(t.next, t.last, u.head, l, Nil)
  BY DEF ListLinks
<1>2. \A m \in 1..Len(l) : l[m] \in ToSet(l)
  BY <1>1, LenProperties DEF Linked, ToSet
<1>3. Linked(u.next, u.last, u.head, l, Nil)
  BY <1>1, <1>2, LinkedFrame
<1> QED
  BY <1>3 DEF ListLinks

\* v is t without the entry s, which is free now; a loop that stood there has
\* gone on to the next.
CutFrom(t, v, s) ==
    /\ v.key = [t.key EXCEPT ![s] = Nil] /\ v.gen = t.gen
    /\ v.cursor = IF t.cursor = s THEN t.next[s] ELSE t.cursor

\* i is the bucket of the entry s.
SpotIs(t, n, s, i) == i = IndexOf[n][Hash(t, t.key[s])]

\* czl_delete_tabkv_node.
LEMMA CutParts ==
    ASSUME NEW n, NEW t, NEW l, NEW C, Parts(t, n, l, C), NEW m \in 1..Len(l),
           NEW i, SpotIs(t, n, l[m], i)
    PROVE  /\ \E D : Parts(Cut(t, l[m], i), n, RemoveAt(l, m), D)
           /\ CutFrom(t, Cut(t, l[m], i), l[m])
<1>1. /\ n \in 1..MaxSize /\ t \in TableRec(n) /\ KeysOK(t) /\ ListIs(t, l)
      /\ InBuckets(t, n, Spots(t, n), C)
  BY DEF Parts
<1>2. /\ l \in Seq(Slots) /\ Len(l) \in Nat
      /\ \A j \in 1..Len(l) : l[j] \in Slots /\ l[j] \in Used(t)
      /\ \A a, b \in 1..Len(l) : l[a] = l[b] => a = b
  BY <1>1, ListedIs
<1>0. Len(l) \in Nat
  BY <1>2
<1>3. PICK s \in Slots : s = l[m]
  BY <1>2
<1>4. s \in Used(t) /\ Nil \notin Slots /\ t.key[s] \in Keys /\ t.gen \in 0..LastGen
  BY <1>1, <1>2, <1>3, KeysAssumption, UsedIs DEF TableRec
<1>5. PICK c : c = IF t.cursor = s THEN t.next[s] ELSE t.cursor
  OBVIOUS
<1>6. c \in Refs /\ c \in (Used(t) \ {s}) \cup {Nil}
  <2>1. t.next[s] = IF m = Len(l) THEN Nil ELSE l[m + 1]
    BY <1>1, <1>3 DEF ListIs, Linked
  <2>2. m # Len(l) => m + 1 \in 1..Len(l) /\ m + 1 # m
    BY <1>0
  <2>3. m # Len(l) => t.next[s] \in Used(t) \ {s}
    BY <1>2, <1>3, <2>1, <2>2
  <2>4. t.next[s] \in (Used(t) \ {s}) \cup {Nil}
    BY <2>1, <2>3
  <2>5. t.cursor \in Used(t) \cup {Nil}
    BY <1>1 DEF ListIs
  <2>6. c \in (Used(t) \ {s}) \cup {Nil}
    BY <1>5, <2>4, <2>5
  <2> QED
    BY <2>6 DEF Refs, Used
<1>7. PICK t0 : t0 = [t EXCEPT !.cursor = c]
  OBVIOUS
<1>8. /\ t0 \in TableRec(n) /\ t0.cursor = c
      /\ t0.key = t.key /\ t0.hash = t.hash /\ t0.gen = t.gen /\ t0.count = t.count
      /\ t0.next = t.next /\ t0.last = t.last /\ t0.head = t.head /\ t0.tail = t.tail
      /\ t0.up = t.up /\ t0.down = t.down /\ t0.bucket = t.bucket
  BY <1>1, <1>6, <1>7 DEF TableRec
<1>9. ListLinks(t0, l) /\ ToSet(l) = Used(t) /\ t.count = Len(l)
  BY <1>1, <1>8 DEF ListIs, ListLinks
<1>10. PICK r : r = RemoveAt(l, m)
  OBVIOUS
<1>11. PICK u1 : u1 = Unlink(t0, s)
  OBVIOUS
<1>12. u1 \in TableRec(n) /\ SameIndex(t0, u1)
  BY <1>8, <1>11, UnlinkFields DEF Bridged
<1>13. ListLinks(u1, r) /\ ToSet(r) = Used(t) \ {s}
  <2>1. t0 \in TableRec(n) /\ ListLinks(t0, l)
    BY <1>8, <1>9
  <2>2. ListLinks(Unlink(t0, l[m]), RemoveAt(l, m)) /\ ToSet(RemoveAt(l, m)) = ToSet(l) \ {l[m]}
    BY <2>1, UnlinkList
  <2> QED
    BY <1>3, <1>9, <1>10, <1>11, <2>2
<1>14. PICK at : at = Spots(t, n)
  OBVIOUS
<1>15. DOMAIN at = Used(t) /\ at[s] = i /\ i \in 0..(n - 1)
  <2>1. DOMAIN at = Used(t) /\ at[s] = IndexOf[n][Hash(t, t.key[s])]
    BY <1>4, <1>14 DEF Spots
  <2>2. IndexOf[n][Hash(t, t.key[s])] \in 0..(n - 1)
    BY <1>1, <1>4, HashIs
  <2> QED
    BY <1>3, <2>1, <2>2 DEF SpotIs
<1>16. InBuckets(u1, n, at, C)
  <2>1. u1.bucket = t.bucket /\ u1.down = t.down /\ u1.up = t.up
    BY <1>8, <1>12 DEF SameIndex
  <2> QED
    BY <1>1, <1>14, <2>1 DEF InBuckets
<1>17. PICK u2 : u2 = Unchain(u1, s, i)
  OBVIOUS
<1>18. PICK at2 : at2 = [e \in Used(t) \ {s} |-> at[e]]
  OBVIOUS
<1>19. /\ u2 \in TableRec(n) /\ SameEntries(u1, u2)
       /\ \E D : InBuckets(u2, n, at2, D)
  <2>1. Used(t) \subseteq Slots
    BY DEF Used
  <2> QED
    BY <1>1, <1>4, <1>12, <1>15, <1>16, <1>17, <1>18, <2>1, UnchainOK
<1>20. PICK D : InBuckets(u2, n, at2, D)
  BY <1>19
<1>21. PICK v : v = [u2 EXCEPT !.key[s] = Nil, !.hash[s] = 0, !.next[s] = Nil, !.last[s] = Nil,
                               !.up[s] = Nil, !.down[s] = Nil, !.count = t.count - 1]
  OBVIOUS
<1>22. /\ v.key = [u2.key EXCEPT ![s] = Nil] /\ v.hash = [u2.hash EXCEPT ![s] = 0]
       /\ v.next = [u2.next EXCEPT ![s] = Nil] /\ v.last = [u2.last EXCEPT ![s] = Nil]
       /\ v.up = [u2.up EXCEPT ![s] = Nil] /\ v.down = [u2.down EXCEPT ![s] = Nil]
       /\ v.count = t.count - 1 /\ v.head = u2.head /\ v.tail = u2.tail
       /\ v.cursor = u2.cursor /\ v.bucket = u2.bucket /\ v.gen = u2.gen
  BY <1>19, <1>21 DEF TableRec
<1>23. t.count - 1 = Len(r) /\ Len(r) \in Nat
  <2>1. Len(r) = Len(l) - 1
    BY <1>2, <1>10, RemoveAtProperties
  <2> QED
    BY <1>0, <1>9, <2>1
<1>24. v \in TableRec(n)
  <2>1. t.count - 1 \in Nat
    BY <1>23
  <2> QED
    <3>1. u2 \in TableRec(n) /\ Nil \in Refs /\ 0 \in Nat
      BY <1>19 DEF Refs
    <3>2. /\ [u2.key EXCEPT ![s] = Nil] \in [Slots -> Keys \cup {Nil}]
          /\ [u2.hash EXCEPT ![s] = 0] \in [Slots -> Nat]
          /\ [u2.next EXCEPT ![s] = Nil] \in [Slots -> Refs]
          /\ [u2.last EXCEPT ![s] = Nil] \in [Slots -> Refs]
          /\ [u2.up EXCEPT ![s] = Nil] \in [Slots -> Nat \cup {Nil}]
          /\ [u2.down EXCEPT ![s] = Nil] \in [Slots -> Refs]
      BY <3>1 DEF TableRec
    <3> QED
      BY <1>21, <2>1, <3>1, <3>2 DEF TableRec
<1>25. /\ u2.key = t.key /\ u2.hash = t.hash /\ u2.gen = t.gen /\ u2.cursor = c
       /\ u2.next = u1.next /\ u2.last = u1.last /\ u2.head = u1.head /\ u2.tail = u1.tail
  BY <1>8, <1>12, <1>19 DEF SameEntries, SameIndex
<1>26. v.key = [t.key EXCEPT ![s] = Nil] /\ v.cursor = c /\ v.gen = t.gen
  BY <1>22, <1>25
<1>27. /\ DOMAIN t.key = Slots /\ DOMAIN t.hash = Slots
       /\ DOMAIN u2.next = Slots /\ DOMAIN u2.last = Slots
       /\ DOMAIN u2.up = Slots /\ DOMAIN u2.down = Slots
  BY <1>1, <1>19 DEF TableRec
<1>28. Used(v) = Used(t) \ {s} /\ \A e \in Used(v) : v.key[e] = t.key[e] /\ v.hash[e] = t.hash[e]
  <2>1. \A e \in Slots : /\ v.key[e] = IF e = s THEN Nil ELSE t.key[e]
                         /\ e # s => v.hash[e] = t.hash[e]
    <3>1. v.key = [t.key EXCEPT ![s] = Nil]
      BY <1>26
    <3>2. v.hash = [t.hash EXCEPT ![s] = 0]
      BY <1>22, <1>25
    <3> QED
      BY <1>27, <3>1, <3>2
  <2>2. Used(v) = Used(t) \ {s}
    BY <2>1 DEF Used
  <2>3. \A e \in Used(v) : e \in Slots /\ e # s
    BY <2>2 DEF Used
  <2> QED
    BY <2>1, <2>2, <2>3
<1>29. \A k : Hash(v, k) = Hash(t, k)
  BY <1>26 DEF Hash
<1>30. KeysOK(v)
  BY <1>1, <1>28, <1>29 DEF KeysOK
<1>31. ListLinks(v, r)
  <2>1. ListLinks(u2, r)
    BY <1>13, <1>25 DEF ListLinks
  <2>2. \A e \in ToSet(r) : v.next[e] = u2.next[e] /\ v.last[e] = u2.last[e]
    BY <1>13, <1>22, <1>27 DEF Used
  <2> QED
    BY <1>22, <2>1, <2>2, ListFrame
<1>32. ListIs(v, r)
  BY <1>6, <1>13, <1>22, <1>23, <1>26, <1>28, <1>31 DEF ListIs, ListLinks
<1>33. at2 = Spots(v, n)
  BY <1>14, <1>18, <1>28, <1>29 DEF Spots
<1>34. InBuckets(v, n, at2, D)
  <2>1. DOMAIN at2 = Used(t) \ {s}
    BY <1>18
  <2>2. \A e \in DOMAIN at2 : v.down[e] = u2.down[e] /\ v.up[e] = u2.up[e]
    BY <1>22, <1>27, <2>1 DEF Used
  <2> QED
    BY <1>20, <1>22, <2>2, BucketsFrame
<1>35. Cut(t, s, i) = v
  BY <1>5, <1>7, <1>11, <1>17, <1>21 DEF Cut
<1>36. Parts(v, n, r, D)
  BY <1>1, <1>24, <1>30, <1>32, <1>33, <1>34 DEF Parts
<1> QED
  BY <1>3, <1>5, <1>10, <1>26, <1>35, <1>36 DEF CutFrom

----------------------------------------------------------------------------
(* An entry is added *)

\* h is the hash of the key k, and i the bucket it leads to.
BucketIs(n, h, i) == i = IndexOf[n][h]
KeySpot(t, n, k, h, i) == h = Hash(t, k) /\ BucketIs(n, h, i)

\* ins asks for the place behind the first m entries.
Asked(l, m, ins) ==
    /\ ins = End => m = Len(l)
    /\ ins = First => m = 0
    /\ ins \notin {First, End} => m # 0 /\ ins = l[m]

\* v is t with the key k in the entry s.
AddedTo(t, v, s, k) ==
    v.key = [t.key EXCEPT ![s] = k] /\ v.gen = t.gen /\ v.cursor = t.cursor

\* czl_hash_tabkv_insert.
LEMMA InsertParts ==
    ASSUME NEW n, NEW t, NEW l, NEW C, Parts(t, n, l, C), NEW s \in Slots \ Used(t),
           NEW k \in Keys \ KeysOf(t), NEW h, NEW i, KeySpot(t, n, k, h, i),
           NEW m \in 0..Len(l), NEW ins, Asked(l, m, ins)
    PROVE  /\ \E D : Parts(Insert(t, s, k, h, i, ins), n, InsertAt(l, m + 1, s), D)
           /\ AddedTo(t, Insert(t, s, k, h, i, ins), s, k)
<1>1. /\ n \in 1..MaxSize /\ t \in TableRec(n) /\ KeysOK(t) /\ ListIs(t, l)
      /\ InBuckets(t, n, Spots(t, n), C)
  BY DEF Parts
<1>2. /\ l \in Seq(Slots)
      /\ \A j \in 1..Len(l) : l[j] \in Slots
  BY <1>1, ListedIs
<1>3. Len(l) \in Nat
  BY <1>1, ListedIs
<1>4. Nil \notin Slots /\ Nil \notin Keys
  BY KeysAssumption
<1>5. h \in Nat /\ i \in 0..(n - 1)
  BY <1>1, HashIs DEF KeySpot, BucketIs
<1>6. PICK p : p = Push(t, s, i)
  OBVIOUS
<1>7. p \in TableRec(n) /\ SameEntries(t, p)
  BY <1>1, <1>5, <1>6, PushFields DEF Pushed
<1>8. PICK at : at = Spots(t, n)
  OBVIOUS
<1>9. DOMAIN at = Used(t) /\ \A e \in Used(t) : at[e] = IndexOf[n][Hash(t, t.key[e])]
  BY <1>8 DEF Spots
<1>10. PICK at2 : at2 = [e \in Used(t) \cup {s} |-> IF e = s THEN i ELSE at[e]]
  OBVIOUS
<1>11. PICK D : InBuckets(p, n, at2, D)
  <2>1. InBuckets(t, n, at, C) /\ DOMAIN at \subseteq Slots /\ s \in Slots /\ s \notin DOMAIN at
    BY <1>1, <1>8, <1>9 DEF Used
  <2>2. \E D : InBuckets(Push(t, s, i), n,
                 [e \in DOMAIN at \cup {s} |-> IF e = s THEN i ELSE at[e]], D)
    BY <1>1, <1>5, <2>1, PushOK
  <2> QED
    BY <1>6, <1>9, <1>10, <2>2
<1>12. PICK g : g = IF k \in Strs THEN h ELSE 0
  OBVIOUS
<1>13. g \in Nat
  BY <1>5, <1>12
<1>14. PICK w : w = [p EXCEPT !.key[s] = k, !.hash[s] = g, !.count = t.count + 1]
  OBVIOUS
<1>15. t.count = Len(l) /\ t.count + 1 \in Nat
  BY <1>1, <1>3 DEF ListIs
<1>16. w \in TableRec(n)
  BY <1>7, <1>13, <1>14, <1>15 DEF TableRec
<1>17. /\ w.key = [t.key EXCEPT ![s] = k] /\ w.hash = [t.hash EXCEPT ![s] = g]
       /\ w.next = t.next /\ w.last = t.last /\ w.head = t.head /\ w.tail = t.tail
       /\ w.up = p.up /\ w.down = p.down /\ w.bucket = p.bucket
       /\ w.gen = t.gen /\ w.cursor = t.cursor
  BY <1>7, <1>14 DEF TableRec, SameEntries
<1>18. w.count = t.count + 1
  BY <1>7, <1>14 DEF TableRec
<1>19. ListLinks(w, l) /\ ToSet(l) = Used(t)
  BY <1>1, <1>17 DEF ListIs, ListLinks
<1>20. PICK a : a = Entry(l, m)
  OBVIOUS
<1>21. a = IF ins = End THEN w.tail ELSE IF ins = First THEN Nil ELSE ins
  <2>1. CASE ins = End
    <3>1. m = Len(l)
      BY <2>1 DEF Asked
    <3>2. w.tail = IF Len(l) = 0 THEN Nil ELSE l[Len(l)]
      BY <1>19 DEF ListLinks
    <3> QED
      BY <1>20, <2>1, <3>1, <3>2 DEF Entry
  <2>2. CASE ins = First
    BY <1>20, <2>2 DEF Entry, Asked, First, End
  <2>3. CASE ins \notin {First, End}
    BY <1>20, <2>3 DEF Entry, Asked
  <2> QED
    BY <2>1, <2>2, <2>3
<1>22. PICK v : v = LinkBehind(w, s, a)
  OBVIOUS
<1>23. PICK r : r = InsertAt(l, m + 1, s)
  OBVIOUS
<1>24. /\ v \in TableRec(n) /\ SameIndex(w, v) /\ ListLinks(v, r)
       /\ ToSet(r) = Used(t) \cup {s}
  <2>1. s \in Slots /\ s \notin ToSet(l)
    BY <1>19
  <2> QED
    BY <1>16, <1>19, <1>20, <1>22, <1>23, <2>1, LinkList
<1>25. Len(r) = Len(l) + 1
  <2>1. \A j \in 1..(Len(l) + 1) : Len(InsertAt(l, j, s)) = Len(l) + 1
    BY <1>2, InsertAtProperties
  <2>2. m + 1 \in 1..(Len(l) + 1)
    BY <1>3
  <2> QED
    BY <1>23, <2>1, <2>2
<1>26. /\ v.key = [t.key EXCEPT ![s] = k] /\ v.hash = [t.hash EXCEPT ![s] = g]
       /\ v.gen = t.gen /\ v.cursor = t.cursor
       /\ v.up = p.up /\ v.down = p.down /\ v.bucket = p.bucket
  BY <1>17, <1>24 DEF SameIndex
<1>27. v.count = Len(r)
  BY <1>15, <1>18, <1>24, <1>25 DEF SameIndex
<1>28. DOMAIN t.key = Slots /\ DOMAIN t.hash = Slots
  BY <1>1 DEF TableRec
<1>29. \A e \in Slots : /\ v.key[e] = IF e = s THEN k ELSE t.key[e]
                        /\ v.hash[e] = IF e = s THEN g ELSE t.hash[e]
  <2>1. v.key = [t.key EXCEPT ![s] = k] /\ v.hash = [t.hash EXCEPT ![s] = g]
    BY <1>26
  <2> QED
    BY <1>28, <2>1
<1>30. Used(v) = Used(t) \cup {s}
  BY <1>4, <1>29 DEF Used
<1>31. \A x : Hash(v, x) = Hash(t, x)
  BY <1>26 DEF Hash
<1>32. KeysOK(v)
  <2>1. \A e \in Used(t) : e \in Slots /\ e # s /\ t.key[e] # k
    BY DEF Used, KeysOf
  <2>2. \A e \in Used(t) : v.key[e] = t.key[e] /\ v.hash[e] = t.hash[e]
    BY <1>29, <2>1
  <2>3. v.key[s] = k /\ (k \in Strs => v.hash[s] = Hash(v, k))
    BY <1>12, <1>29, <1>31 DEF KeySpot, BucketIs
  <2> QED
    BY <1>1, <1>30, <1>31, <2>1, <2>2, <2>3 DEF KeysOK
<1>33. ListIs(v, r)
  BY <1>1, <1>24, <1>26, <1>27, <1>30 DEF ListIs, ListLinks
<1>34. at2 = Spots(v, n)
  <2>1. \A e \in Used(t) : e \in Slots /\ e # s /\ v.key[e] = t.key[e]
    BY <1>29 DEF Used
  <2>2. \A e \in Used(t) \cup {s} :
          (IF e = s THEN i ELSE at[e]) = IndexOf[n][Hash(v, v.key[e])]
    BY <1>9, <1>29, <1>31, <2>1 DEF KeySpot, BucketIs
  <2> QED
    BY <1>10, <1>30, <2>2 DEF Spots
<1>35. InBuckets(v, n, at2, D)
  BY <1>11, <1>26 DEF InBuckets
<1>36. Insert(t, s, k, h, i, ins) = v
  BY <1>6, <1>12, <1>14, <1>21, <1>22 DEF Insert
<1>37. Parts(v, n, r, D)
  BY <1>1, <1>24, <1>32, <1>33, <1>34, <1>35 DEF Parts
<1> QED
  BY <1>23, <1>26, <1>36, <1>37 DEF AddedTo

----------------------------------------------------------------------------
(* The list in another order *)

\* A table whose list was relinked over the same entries is a table.
LEMMA RelinkParts ==
    ASSUME NEW n, NEW t, NEW l, NEW C, Parts(t, n, l, C),
           NEW u \in TableRec(n), SameIndex(t, u), NEW r, ListLinks(u, r),
           ToSet(r) = ToSet(l), Len(r) = Len(l)
    PROVE  Parts(u, n, r, C)
<1>1. /\ n \in 1..MaxSize /\ t \in TableRec(n) /\ KeysOK(t) /\ ListIs(t, l)
      /\ InBuckets(t, n, Spots(t, n), C)
  BY DEF Parts
<1>2. Used(u) = Used(t) /\ \A k : Hash(u, k) = Hash(t, k)
  BY DEF SameIndex, Used, Hash
<1>3. KeysOK(u)
  BY <1>1, <1>2 DEF KeysOK, SameIndex
<1>4. ListIs(u, r)
  BY <1>1, <1>2 DEF ListIs, ListLinks, SameIndex
<1>5. Spots(u, n) = Spots(t, n)
  BY <1>2 DEF Spots, SameIndex
<1>6. InBuckets(u, n, Spots(t, n), C)
  BY <1>1 DEF InBuckets, SameIndex
<1> QED
  BY <1>1, <1>3, <1>4, <1>5, <1>6 DEF Parts

\* u is t with the m-th entry of l right behind the one that is at a, which is
\* at j once the m-th is out.
MovedBehind(t, n, l, C, m, a, j, u) ==
    /\ j \in 1..(Len(l) - 1) /\ RemoveAt(l, m)[j] = l[a]
    /\ Parts(u, n, InsertAt(RemoveAt(l, m), j + 1, l[m]), C)
    /\ SameIndex(t, u)

\* czl_swap_tabkv.
LEMMA MoveParts ==
    ASSUME NEW n, NEW t, NEW l, NEW C, Parts(t, n, l, C),
           NEW m \in 1..Len(l), NEW a \in 1..Len(l), a # m
    PROVE  \E j : MovedBehind(t, n, l, C, m, a, j,
                              LinkBehind(Unlink(t, l[m]), l[m], l[a]))
<1>1. /\ n \in 1..MaxSize /\ t \in TableRec(n) /\ ListIs(t, l)
  BY DEF Parts
<1>2. l \in Seq(Slots) /\ \A j \in 1..Len(l) : l[j] \in Slots
  BY <1>1, ListedIs
<1>3. Len(l) \in Nat
  BY <1>1, ListedIs
<1>4. ListLinks(t, l)
  BY <1>1 DEF ListIs, ListLinks
<1>5. PICK p \in Slots : p = l[m]
  BY <1>2
<1>6. PICK w : w = Unlink(t, p)
  OBVIOUS
<1>7. PICK r : r = RemoveAt(l, m)
  OBVIOUS
<1>8. w \in TableRec(n) /\ SameIndex(t, w)
  BY <1>1, <1>6, UnlinkFields DEF Bridged
<1>9. ListLinks(w, r) /\ ToSet(r) = ToSet(l) \ {p}
  <2>1. ListLinks(Unlink(t, l[m]), RemoveAt(l, m)) /\ ToSet(RemoveAt(l, m)) = ToSet(l) \ {l[m]}
    BY <1>1, <1>4, UnlinkList
  <2> QED
    BY <1>5, <1>6, <1>7, <2>1
<1>10. /\ r \in Seq(Slots) /\ Len(r) = Len(l) - 1
       /\ \A j \in 1..(Len(l) - 1) : r[j] = IF j < m THEN l[j] ELSE l[j + 1]
  BY <1>2, <1>7, RemoveAtProperties
<1>11. PICK j \in 1..(Len(l) - 1) : r[j] = l[a]
  <2>1. CASE a < m
    <3>1. a \in 1..(Len(l) - 1)
      BY <1>3, <2>1
    <3> QED
      BY <1>10, <2>1, <3>1
  <2>2. CASE ~(a < m)
    <3>1. a - 1 \in 1..(Len(l) - 1) /\ ~(a - 1 < m) /\ (a - 1) + 1 = a
      BY <1>3, <2>2
    <3> QED
      BY <1>10, <3>1
  <2> QED
    BY <2>1, <2>2
<1>12. j \in 0..Len(r) /\ Entry(r, j) = l[a]
  <2>1. j \in 0..Len(r) /\ j # 0
    BY <1>3, <1>10
  <2> QED
    BY <1>11, <2>1 DEF Entry
<1>13. PICK u : u = LinkBehind(w, p, l[a])
  OBVIOUS
<1>14. PICK q : q = InsertAt(r, j + 1, p)
  OBVIOUS
<1>15. u \in TableRec(n) /\ SameIndex(w, u) /\ ListLinks(u, q) /\ ToSet(q) = ToSet(r) \cup {p}
  <2>1. p \notin ToSet(r)
    BY <1>9
  <2>2. /\ LinkBehind(w, p, Entry(r, j)) \in TableRec(n)
        /\ SameIndex(w, LinkBehind(w, p, Entry(r, j)))
        /\ ListLinks(LinkBehind(w, p, Entry(r, j)), InsertAt(r, j + 1, p))
        /\ ToSet(InsertAt(r, j + 1, p)) = ToSet(r) \cup {p}
    BY <1>8, <1>9, <1>12, <2>1, LinkList
  <2> QED
    BY <1>12, <1>13, <1>14, <2>2
<1>16. ToSet(q) = ToSet(l)
  <2>1. p \in ToSet(l)
    BY <1>2, <1>5, LenProperties DEF ToSet
  <2> QED
    BY <1>9, <1>15, <2>1
<1>17. Len(q) = Len(l)
  <2>0. r \in Seq(Slots)
    BY <1>10
  <2>1. \A i \in 1..(Len(r) + 1) : Len(InsertAt(r, i, p)) = Len(r) + 1
    BY <2>0, InsertAtProperties
  <2>2. j + 1 \in 1..(Len(r) + 1)
    BY <1>3, <1>10
  <2>3. Len(q) = Len(r) + 1
    BY <1>14, <2>1, <2>2
  <2> QED
    BY <1>3, <1>10, <2>3
<1>18. SameIndex(t, u)
  BY <1>8, <1>15 DEF SameIndex
<1>19. Parts(u, n, q, C)
  BY <1>15, <1>16, <1>17, <1>18, RelinkParts
<1> QED
  BY <1>5, <1>6, <1>7, <1>11, <1>13, <1>14, <1>18, <1>19 DEF MovedBehind

\* sort: the entries in any order.
LEMMA SortedParts ==
    ASSUME NEW n, NEW t, NEW l, NEW C, Parts(t, n, l, C), NEW p \in SetToSeqs(Used(t))
    PROVE  /\ Parts(Sorted(t, p), n, p, C)
           /\ SameIndex(t, Sorted(t, p))
           /\ Len(p) = Len(l)
<1>1. /\ n \in 1..MaxSize /\ t \in TableRec(n) /\ ListIs(t, l)
  BY DEF Parts
<1>2. Len(l) = Cardinality(Used(t)) /\ Len(l) \in Nat
  BY PartsBase, CountBound
<1>3. PICK N \in Nat : N = Cardinality(Used(t))
  BY <1>2
<1>4. /\ p \in [1..N -> Used(t)] /\ Used(t) \subseteq Slots
      /\ \A i, j \in 1..N : i # j => p[i] # p[j]
  BY <1>3 DEF SetToSeqs, Used
<1>5. p \in Seq(Slots) /\ Len(p) = N /\ DOMAIN p = 1..N
  BY <1>3, <1>4
<1>6. IsInjective(p) /\ ToSet(p) \subseteq Used(t)
  BY <1>4, <1>5 DEF IsInjective, ToSet
<1>7. ToSet(p) = Used(t)
  <2>1. Cardinality(ToSet(p)) = Cardinality(Used(t))
    BY <1>3, <1>5, <1>6, LinkedLength
  <2>2. IsFiniteSet(Used(t))
    BY <1>4, SlotsAssumption, FS_Subset
  <2> QED
    BY <1>6, <2>1, <2>2, FS_Subset
<1>8. \A i \in 1..N : p[i] \in Slots /\ p[i] \in ToSet(p)
  BY <1>4, <1>7
<1>9. \A i \in 1..N : (CHOOSE j \in 1..N : p[j] = p[i]) = i
  BY <1>4
<1> DEFINE At(s) == CHOOSE i \in 1..N : p[i] = s
<1>10. PICK nx : nx = [s \in Slots |-> IF s \in ToSet(p) /\ At(s) < N THEN p[At(s) + 1] ELSE Nil]
  OBVIOUS
<1>11. PICK ls : ls = [s \in Slots |-> IF s \in ToSet(p) /\ At(s) > 1 THEN p[At(s) - 1] ELSE Nil]
  OBVIOUS
<1>12. ASSUME NEW i \in 1..N
       PROVE  /\ nx[p[i]] = IF i = N THEN Nil ELSE p[i + 1]
              /\ ls[p[i]] = IF i = 1 THEN Nil ELSE p[i - 1]
  <2>1. At(p[i]) = i
    BY <1>9
  <2> HIDE DEF At
  <2>2. nx[p[i]] = IF i < N THEN p[i + 1] ELSE Nil
    BY <1>8, <1>10, <2>1
  <2>3. ls[p[i]] = IF i > 1 THEN p[i - 1] ELSE Nil
    BY <1>8, <1>11, <2>1
  <2>4. (i < N <=> i # N) /\ (i > 1 <=> i # 1)
    BY <1>3
  <2> QED
    BY <2>2, <2>3, <2>4
<1>13. \A s \in ToSet(p) : At(s) \in 1..N
  <2>1. ASSUME NEW s \in ToSet(p)
        PROVE  At(s) \in 1..N
    <3>1. \E i \in 1..N : p[i] = s
      BY <1>5 DEF ToSet
    <3> QED
      BY <3>1
  <2> QED
    BY <2>1
<1> HIDE DEF At
<1>14. nx \in [Slots -> Refs] /\ ls \in [Slots -> Refs]
  <2>1. \A i \in 1..N : i < N => i + 1 \in 1..N
    BY <1>3
  <2>2. \A i \in 1..N : i > 1 => i - 1 \in 1..N
    BY <1>3
  <2>3. \A s \in ToSet(p) : At(s) < N => p[At(s) + 1] \in Slots
    BY <1>8, <1>13, <2>1
  <2>4. \A s \in ToSet(p) : At(s) > 1 => p[At(s) - 1] \in Slots
    BY <1>8, <1>13, <2>2
  <2> QED
    BY <1>10, <1>11, <2>3, <2>4 DEF Refs
<1>15. PICK hd : hd = IF N = 0 THEN Nil ELSE p[1]
  OBVIOUS
<1>16. PICK tl : tl = IF N = 0 THEN Nil ELSE p[N]
  OBVIOUS
<1>17. hd \in Refs /\ tl \in Refs
  <2>1. N # 0 => 1 \in 1..N /\ N \in 1..N
    BY <1>3
  <2> QED
    BY <1>8, <1>15, <1>16, <2>1 DEF Refs
<1>18. PICK u : u = [t EXCEPT !.next = nx, !.last = ls, !.head = hd, !.tail = tl]
  OBVIOUS
<1>19. /\ u \in TableRec(n) /\ SameIndex(t, u)
       /\ u.next = nx /\ u.last = ls /\ u.head = hd /\ u.tail = tl
  BY <1>1, <1>14, <1>17, <1>18 DEF TableRec, SameIndex
<1>20. Sorted(t, p) = u
  BY <1>5, <1>10, <1>11, <1>15, <1>16, <1>18 DEF Sorted, At
<1>21. ListLinks(u, p)
  <2>1. hd = IF p = <<>> THEN Nil ELSE p[1]
    <3>1. p = <<>> <=> N = 0
      BY <1>5, EmptySeq
    <3> QED
      BY <1>15, <3>1
  <2>2. Linked(nx, ls, hd, p, Nil)
    BY <1>5, <1>6, <1>12, <2>1 DEF Linked
  <2> QED
    BY <1>5, <1>16, <1>19, <2>2 DEF ListLinks
<1>22. ToSet(p) = ToSet(l) /\ Len(p) = Len(l)
  BY <1>1, <1>2, <1>3, <1>5, <1>7 DEF ListIs
<1>23. Parts(u, n, p, C)
  BY <1>19, <1>21, <1>22, RelinkParts
<1> QED
  BY <1>19, <1>20, <1>22, <1>23

----------------------------------------------------------------------------
(* An entry moves in memory *)

\* v is t with d instead of s, which was below b in the chain of bucket i.
Renamed(t, v, s, d, i, b) ==
    /\ v.key = Copied(t.key, s, d, Nil) /\ v.hash = Copied(t.hash, s, d, 0)
    /\ v.gen = t.gen /\ v.count = t.count
    /\ v.cursor = IF t.cursor = s THEN d ELSE t.cursor
    /\ \A r \in Slots \ {s} :
        /\ v.next[r] = IF r = d THEN t.next[s] ELSE IF r = t.last[s] THEN d ELSE t.next[r]
        /\ v.last[r] = IF r = d THEN t.last[s] ELSE IF r = t.next[s] THEN d ELSE t.last[r]
        /\ v.down[r] = IF r = d THEN t.down[s] ELSE IF r = b THEN d ELSE t.down[r]
        /\ v.up[r] = IF r = d THEN t.up[s] ELSE IF r = t.down[s] THEN d ELSE t.up[r]
    /\ v.head = IF t.last[s] = Nil THEN d ELSE t.head
    /\ v.tail = IF t.next[s] = Nil THEN d ELSE t.tail
    /\ v.bucket = IF b = Nil THEN [t.bucket EXCEPT ![i] = d] ELSE t.bucket

\* What the move does to each field.
LEMMA MovedFields ==
    ASSUME NEW n \in 1..MaxSize, NEW t \in TableRec(n), NEW s \in Slots, NEW d \in Slots \ {s},
           t.next[s] \notin {s, d}, t.last[s] \notin {s, d}, t.down[s] \notin {s, d},
           NEW i \in 0..(n - 1), NEW b \in Refs \ {s, d}, Above(t.up[s], i, b)
    PROVE  Moved(t, s, d) \in TableRec(n) /\ Renamed(t, Moved(t, s, d), s, d, i, b)
<1>1. PICK e \in Refs \ {s, d} : e = t.next[s]
  BY DEF TableRec
<1>2. PICK a \in Refs \ {s, d} : a = t.last[s]
  BY DEF TableRec
<1>3. PICK f \in Refs \ {s, d} : f = t.down[s]
  BY DEF TableRec
<1>4. PICK x : x = t.up[s]
  OBVIOUS
<1>5. x \in Nat
  BY <1>4, HungFields
<1>6. /\ Nil \notin Slots /\ d \in Nat /\ d \in Refs /\ s # d
      /\ t.key \in [Slots -> Keys \cup {Nil}] /\ t.hash \in [Slots -> Nat]
      /\ t.next \in [Slots -> Refs] /\ t.last \in [Slots -> Refs]
      /\ t.up \in [Slots -> Nat \cup {Nil}] /\ t.down \in [Slots -> Refs]
      /\ t.cursor \in Refs
  BY KeysAssumption, SlotsAssumption DEF TableRec, Refs
<1>7. PICK k0 : k0 = Copied(t.key, s, d, Nil)
  OBVIOUS
<1>8. PICK h0 : h0 = Copied(t.hash, s, d, 0)
  OBVIOUS
<1>9. PICK n0 : n0 = Copied(t.next, s, d, Nil)
  OBVIOUS
<1>10. PICK l0 : l0 = Copied(t.last, s, d, Nil)
  OBVIOUS
<1>11. PICK u0 : u0 = Copied(t.up, s, d, Nil)
  OBVIOUS
<1>12. PICK d0 : d0 = Copied(t.down, s, d, Nil)
  OBVIOUS
<1>13. k0 \in [Slots -> Keys \cup {Nil}] /\ h0 \in [Slots -> Nat]
  BY <1>6, <1>7, <1>8 DEF Copied
<1>14. /\ n0 \in [Slots -> Refs]
       /\ \A r \in Slots \ {s} : n0[r] = IF r = d THEN e ELSE t.next[r]
  BY <1>1, <1>6, <1>9 DEF Copied, Refs
<1>15. /\ l0 \in [Slots -> Refs]
       /\ \A r \in Slots \ {s} : l0[r] = IF r = d THEN a ELSE t.last[r]
  BY <1>2, <1>6, <1>10 DEF Copied, Refs
<1>16. /\ d0 \in [Slots -> Refs]
       /\ \A r \in Slots \ {s} : d0[r] = IF r = d THEN f ELSE t.down[r]
  BY <1>3, <1>6, <1>12 DEF Copied, Refs
<1>17. /\ u0 \in [Slots -> Nat \cup {Nil}]
       /\ \A r \in Slots \ {s} : u0[r] = IF r = d THEN x ELSE t.up[r]
  BY <1>4, <1>6, <1>11 DEF Copied
<1>18. PICK c : c = IF t.cursor = s THEN d ELSE t.cursor
  OBVIOUS
<1>19. PICK m : m = [t EXCEPT !.key = k0, !.hash = h0, !.next = n0, !.last = l0,
                              !.up = u0, !.down = d0, !.cursor = c]
  OBVIOUS
<1>20. /\ m \in TableRec(n)
       /\ m.key = k0 /\ m.hash = h0 /\ m.next = n0 /\ m.last = l0 /\ m.up = u0 /\ m.down = d0
       /\ m.cursor = c /\ m.head = t.head /\ m.tail = t.tail /\ m.bucket = t.bucket
       /\ m.gen = t.gen /\ m.count = t.count
  BY <1>6, <1>13, <1>14, <1>15, <1>16, <1>17, <1>18, <1>19 DEF TableRec
<1>21. m.last[d] = a /\ m.next[d] = e /\ m.up[d] = x /\ m.down[d] = f
  BY <1>14, <1>15, <1>16, <1>17, <1>20
<1>22. PICK w : w = SetNext(m, a, d)
  OBVIOUS
<1>23. w \in TableRec(n) /\ NextSet(m, w, a, d)
  BY <1>2, <1>6, <1>20, <1>22, SetFields
<1>24. PICK u : u = SetLast(w, e, d)
  OBVIOUS
<1>25. u \in TableRec(n) /\ LastSet(w, u, e, d)
  BY <1>1, <1>6, <1>23, <1>24, SetFields
<1>26. u.up[d] = x
  BY <1>21, <1>23, <1>25 DEF NextSet, LastSet, SameIndex
<1>27. PICK v : v = Hung(u, x, i, d)
  OBVIOUS
<1>28. /\ v \in TableRec(n) /\ Freed(u, v, i, b, d) /\ v.up = u.up
       /\ x \in DOMAIN u.bucket => x = i
  <2>1. Above(x, i, b)
    BY <1>4
  <2>2. x \in DOMAIN u.bucket => b = Nil
    BY <1>6, <1>25, <2>1, HungFields
  <2> QED
    <3>1. v \in TableRec(n) /\ Freed(u, v, i, b, d) /\ v.up = u.up
      BY <1>6, <1>25, <1>27, <2>1, HungFields
    <3>2. x \in DOMAIN u.bucket => x = i
      BY <2>1, <2>2 DEF Above
    <3> QED
      BY <3>1, <3>2
<1>29. v.down[d] = f
  <2>1. v.down[d] = u.down[d]
    BY <1>6, <1>25, <1>28 DEF Freed, TableRec
  <2> QED
    BY <1>21, <1>23, <1>25, <2>1 DEF NextSet, LastSet, SameIndex
<1>30. PICK z : z = IF f = Nil THEN v ELSE [v EXCEPT !.up[f] = d]
  OBVIOUS
<1>31. z \in TableRec(n) /\ UpSet(v, z, f, d)
  BY <1>3, <1>6, <1>28, <1>30, UpFields
<1>32. Moved(t, s, d) = z
  <2>1. m = CopiedTo(t, s, d)
    BY <1>7, <1>8, <1>9, <1>10, <1>11, <1>12, <1>18, <1>19 DEF CopiedTo
  <2>2. u = Relisted(m, d)
    BY <1>21, <1>22, <1>24 DEF Relisted
  <2>3. v = IF u.up[d] \in DOMAIN u.bucket THEN [u EXCEPT !.bucket[u.up[d]] = d]
            ELSE [u EXCEPT !.down[u.up[d]] = d]
    BY <1>26, <1>27, <1>28 DEF Hung
  <2>4. z = IF v.down[d] = Nil THEN v ELSE [v EXCEPT !.up[v.down[d]] = d]
    BY <1>29, <1>30
  <2>5. z = Rechained(u, d)
    BY <2>3, <2>4 DEF Rechained
  <2> QED
    BY <2>1, <2>2, <2>5 DEF Moved
<1>33. /\ z.next = u.next /\ z.last = u.last /\ z.head = u.head /\ z.tail = u.tail
       /\ z.key = k0 /\ z.hash = h0 /\ z.gen = t.gen /\ z.count = t.count /\ z.cursor = c
       /\ z.bucket = v.bucket /\ z.down = v.down
  BY <1>20, <1>23, <1>25, <1>28, <1>31 DEF UpSet, Freed, SameEntries, SameIndex, NextSet, LastSet
<1>34. \A r \in Slots \ {s} : z.next[r] = IF r = d THEN e ELSE IF r = a THEN d ELSE t.next[r]
  <2>1. z.next = IF a = Nil THEN n0 ELSE [n0 EXCEPT ![a] = d]
    BY <1>20, <1>23, <1>25, <1>33 DEF NextSet, LastSet
  <2> QED
    BY <1>2, <1>6, <1>14, <2>1
<1>35. \A r \in Slots \ {s} : z.last[r] = IF r = d THEN a ELSE IF r = e THEN d ELSE t.last[r]
  <2>1. z.last = IF e = Nil THEN l0 ELSE [l0 EXCEPT ![e] = d]
    BY <1>20, <1>23, <1>25, <1>33 DEF NextSet, LastSet
  <2> QED
    BY <1>1, <1>6, <1>15, <2>1
<1>36. \A r \in Slots \ {s} : z.down[r] = IF r = d THEN f ELSE IF r = b THEN d ELSE t.down[r]
  <2>1. z.down = IF b = Nil THEN d0 ELSE [d0 EXCEPT ![b] = d]
    BY <1>20, <1>23, <1>25, <1>28, <1>33 DEF Freed, SameIndex, NextSet, LastSet
  <2> QED
    BY <1>6, <1>16, <2>1
<1>37. \A r \in Slots \ {s} : z.up[r] = IF r = d THEN x ELSE IF r = f THEN d ELSE t.up[r]
  <2>1. z.up = IF f = Nil THEN u0 ELSE [u0 EXCEPT ![f] = d]
    BY <1>20, <1>23, <1>25, <1>28, <1>31 DEF UpSet, SameIndex, NextSet, LastSet
  <2> QED
    BY <1>3, <1>6, <1>17, <2>1
<1>38. /\ z.head = IF a = Nil THEN d ELSE t.head
       /\ z.tail = IF e = Nil THEN d ELSE t.tail
       /\ z.bucket = IF b = Nil THEN [t.bucket EXCEPT ![i] = d] ELSE t.bucket
  BY <1>20, <1>23, <1>25, <1>28, <1>33 DEF Freed, SameIndex, NextSet, LastSet
<1>39. Renamed(t, z, s, d, i, b)
  BY <1>1, <1>2, <1>3, <1>4, <1>7, <1>8, <1>18, <1>33, <1>34, <1>35, <1>36, <1>37, <1>38
  DEF Renamed
<1> QED
  BY <1>31, <1>32, <1>39

\* The entry before the m-th of q.
Preceding(q, m) == IF m = 1 THEN Nil ELSE q[m - 1]

\* What is next to the m-th of q, in both directions, is neither it nor d.
Neighbours(fwd, q, m, d) ==
    /\ Preceding(q, m) \in Refs \ {q[m], d} /\ fwd[q[m]] \in Refs \ {q[m], d}
    /\ Preceding(q, m) = Nil <=> m = 1
    /\ fwd[q[m]] = Nil <=> m = Len(q)

\* Neither neighbour of an entry is itself or its new address; none only at the ends.
LEMMA NeighboursOK ==
    ASSUME NEW fwd, NEW back, NEW first, NEW q, NEW y, Linked(fwd, back, first, q, y),
           NEW m \in 1..Len(q), NEW d \in Slots, d \notin ToSet(q)
    PROVE  Neighbours(fwd, q, m, d)
<1>1. /\ q \in Seq(Slots) /\ DOMAIN q = 1..Len(q) /\ IsInjective(q)
      /\ \A j \in 1..Len(q) : fwd[q[j]] = IF j = Len(q) THEN Nil ELSE q[j + 1]
  BY LenProperties DEF Linked
<1>2. Len(q) \in Nat
  BY <1>1, LenProperties
<1>3. \A i, j \in 1..Len(q) : q[i] = q[j] => i = j
  BY <1>1 DEF IsInjective
<1>4. \A j \in 1..Len(q) : q[j] \in Slots /\ q[j] # d
  BY <1>1, ElementOfSeq DEF ToSet
<1>5. Nil \notin Slots
  BY KeysAssumption
<1>6. m # 1 => m - 1 \in 1..Len(q) /\ m - 1 # m
  BY <1>2
<1>7. m # Len(q) => m + 1 \in 1..Len(q) /\ m + 1 # m
  BY <1>2
<1>8. Preceding(q, m) \in Refs \ {q[m], d} /\ (Preceding(q, m) = Nil <=> m = 1)
  BY <1>3, <1>4, <1>5, <1>6 DEF Preceding, Refs
<1>9. fwd[q[m]] \in Refs \ {q[m], d} /\ (fwd[q[m]] = Nil <=> m = Len(q))
  <2>1. fwd[q[m]] = IF m = Len(q) THEN Nil ELSE q[m + 1]
    BY <1>1
  <2> QED
    BY <1>3, <1>4, <1>5, <1>7, <2>1 DEF Refs
<1> QED
  BY <1>8, <1>9 DEF Neighbours

\* d has the links of s, and what linked to s links to d.
Relabelled(fwd, back, s, d, b, fwd2, back2) ==
    \A r \in Slots \ {s} :
        /\ fwd2[r] = IF r = d THEN fwd[s] ELSE IF r = b THEN d ELSE fwd[r]
        /\ back2[r] = IF r = d THEN back[s] ELSE IF r = fwd[s] THEN d ELSE back[r]

\* A linked sequence stays one when an entry gets another address.
LEMMA RelabelledOK ==
    ASSUME NEW fwd, NEW back, NEW first, NEW q, NEW y, Linked(fwd, back, first, q, y),
           NEW m \in 1..Len(q), NEW d \in Slots, d \notin ToSet(q), NEW fwd2, NEW back2,
           Relabelled(fwd, back, q[m], d, Preceding(q, m), fwd2, back2)
    PROVE  Replaced(fwd, back, q, m, d, fwd2, back2)
<1>1. /\ q \in Seq(Slots) /\ DOMAIN q = 1..Len(q) /\ IsInjective(q)
      /\ \A j \in 1..Len(q) : fwd[q[j]] = IF j = Len(q) THEN Nil ELSE q[j + 1]
  BY LenProperties DEF Linked
<1>2. Len(q) \in Nat
  BY <1>1, LenProperties
<1>3. \A i, j \in 1..Len(q) : q[i] = q[j] => i = j
  BY <1>1 DEF IsInjective
<1>4. \A j \in 1..Len(q) : q[j] \in Slots /\ q[j] # d
  BY <1>1, ElementOfSeq DEF ToSet
<1>5. Nil \notin Slots
  BY KeysAssumption
<1>6. PICK s \in Slots : s = q[m]
  BY <1>4
<1>7. PICK b : b = Preceding(q, m)
  OBVIOUS
<1>8. PICK e : e = fwd[s]
  OBVIOUS
<1>9. \A r \in Slots \ {s} : /\ fwd2[r] = IF r = d THEN e ELSE IF r = b THEN d ELSE fwd[r]
                             /\ back2[r] = IF r = d THEN back[s] ELSE IF r = e THEN d ELSE back[r]
  BY <1>6, <1>7, <1>8 DEF Relabelled
<1>10. fwd2[d] = e /\ back2[d] = back[s]
  BY <1>4, <1>6, <1>9
<1>11. ASSUME NEW j \in 1..Len(q), j # m
       PROVE  q[j] = b <=> j + 1 = m
  <2>1. CASE m = 1
    <3>1. j + 1 # m
      BY <1>2, <2>1
    <3> QED
      BY <1>4, <1>5, <1>7, <2>1, <3>1 DEF Preceding
  <2>2. CASE m # 1
    <3>1. m - 1 \in 1..Len(q) /\ (j = m - 1 <=> j + 1 = m)
      BY <1>2, <2>2
    <3> QED
      BY <1>3, <1>7, <2>2, <3>1 DEF Preceding
  <2> QED
    BY <2>1, <2>2
<1>12. ASSUME NEW j \in 1..Len(q), j # m
       PROVE  q[j] = e <=> j = m + 1
  <2>1. e = IF m = Len(q) THEN Nil ELSE q[m + 1]
    BY <1>1, <1>6, <1>8
  <2>2. CASE m = Len(q)
    <3>1. j # m + 1
      BY <1>2, <2>2
    <3> QED
      BY <1>4, <1>5, <2>1, <2>2, <3>1
  <2>3. CASE m # Len(q)
    <3>1. m + 1 \in 1..Len(q)
      BY <1>2, <2>3
    <3> QED
      BY <1>3, <2>1, <2>3, <3>1
  <2> QED
    BY <2>2, <2>3
<1>13. ASSUME NEW j \in 1..Len(q), j # m
       PROVE  /\ fwd2[q[j]] = IF j + 1 = m THEN d ELSE fwd[q[j]]
              /\ back2[q[j]] = IF j = m + 1 THEN d ELSE back[q[j]]
  <2>1. q[j] \in Slots \ {s} /\ q[j] # d
    BY <1>3, <1>4, <1>6, <1>13
  <2> QED
    BY <1>9, <1>11, <1>12, <1>13, <2>1
<1> QED
  BY <1>6, <1>8, <1>10, <1>13 DEF Replaced

\* v is t with d instead of s, as the script does not see it.
MovedTo(t, v, s, d) ==
    /\ v.key = Copied(t.key, s, d, Nil) /\ v.gen = t.gen
    /\ v.cursor = IF t.cursor = s THEN d ELSE t.cursor

\* czl_mm_update_tabkv.
LEMMA MovedParts ==
    ASSUME NEW n, NEW t, NEW l, NEW C, Parts(t, n, l, C), NEW m \in 1..Len(l),
           NEW d \in Slots \ Used(t)
    PROVE  /\ \E D : Parts(Moved(t, l[m], d), n, [l EXCEPT ![m] = d], D)
           /\ MovedTo(t, Moved(t, l[m], d), l[m], d)
<1>1. /\ n \in 1..MaxSize /\ t \in TableRec(n) /\ KeysOK(t) /\ ListIs(t, l)
      /\ InBuckets(t, n, Spots(t, n), C)
  BY DEF Parts
<1>2. /\ Linked(t.next, t.last, t.head, l, Nil) /\ ToSet(l) = Used(t)
      /\ t.tail = IF Len(l) = 0 THEN Nil ELSE l[Len(l)]
  BY <1>1 DEF ListIs
<1>3. /\ l \in Seq(Slots)
      /\ \A j \in 1..Len(l) : l[j] \in Slots /\ l[j] \in Used(t)
  BY <1>1, ListedIs
<1>4. Len(l) \in Nat
  BY <1>1, ListedIs
<1>5. PICK s \in Slots : s = l[m]
  BY <1>3
<1>6. /\ s \in Used(t) /\ d \in Slots \ {s} /\ d \notin ToSet(l)
      /\ Nil \notin Slots /\ Nil \notin Keys /\ t.key[s] \in Keys
  BY <1>1, <1>2, <1>3, <1>5, KeysAssumption, UsedIs
<1>7. PICK at : at = Spots(t, n)
  OBVIOUS
<1>8. DOMAIN at = Used(t) /\ \A e \in Used(t) : at[e] = IndexOf[n][Hash(t, t.key[e])]
  BY <1>7 DEF Spots
<1>9. PICK i \in 0..(n - 1) : i = at[s]
  BY <1>1, <1>6, <1>8, HashIs
<1>10. PICK q : q = C[i]
  OBVIOUS
<1>11. ChainIs(t, at, i, q)
  BY <1>1, <1>7, <1>10, ChainHolds
<1>12. PICK x \in 1..Len(q) : q[x] = s
  BY <1>6, <1>8, <1>9, <1>11 DEF ChainIs
<1>13. /\ Linked(t.down, t.up, t.bucket[i], q, i) /\ d \notin ToSet(q)
       /\ ToSet(q) = {e \in DOMAIN at : at[e] = i}
  BY <1>1, <1>7, <1>8, <1>10, <1>11 DEF ChainIs, InBuckets
<1>14. PICK b : b = Preceding(q, x)
  OBVIOUS
<1>15. /\ t.next[s] \in Refs \ {s, d} /\ Preceding(l, m) \in Refs \ {s, d}
       /\ t.next[s] = Nil <=> m = Len(l)
       /\ Preceding(l, m) = Nil <=> m = 1
  <2>1. Neighbours(t.next, l, m, d)
    BY <1>2, <1>6, NeighboursOK
  <2> QED
    BY <1>5, <2>1 DEF Neighbours
<1>16. /\ t.down[s] \in Refs \ {s, d} /\ b \in Refs \ {s, d}
       /\ b = Nil <=> x = 1
  <2>1. Neighbours(t.down, q, x, d)
    BY <1>6, <1>13, NeighboursOK
  <2> QED
    BY <1>12, <1>14, <2>1 DEF Neighbours
<1>17. t.last[s] = Preceding(l, m)
  BY <1>2, <1>5 DEF Linked, Preceding
<1>18. Above(t.up[s], i, b)
  <2>1. t.up[s] = IF x = 1 THEN i ELSE q[x - 1]
    BY <1>12, <1>13 DEF Linked
  <2> QED
    BY <1>14, <1>16, <2>1 DEF Above, Preceding
<1>19. PICK v : v = Moved(t, s, d)
  OBVIOUS
<1>20. v \in TableRec(n) /\ Renamed(t, v, s, d, i, b)
  BY <1>1, <1>6, <1>15, <1>16, <1>17, <1>18, <1>19, MovedFields
<1>21. PICK r : r = [l EXCEPT ![m] = d]
  OBVIOUS
<1>22. Linked(v.next, v.last, v.head, r, Nil) /\ ToSet(r) = (Used(t) \ {s}) \cup {d}
  <2>1. Relabelled(t.next, t.last, l[m], d, Preceding(l, m), v.next, v.last)
    BY <1>5, <1>17, <1>20 DEF Renamed, Relabelled
  <2>2. Replaced(t.next, t.last, l, m, d, v.next, v.last)
    BY <1>2, <1>6, <2>1, RelabelledOK
  <2>3. FirstIs(t.head, m, d, v.head)
    BY <1>15, <1>17, <1>20 DEF Renamed, FirstIs
  <2>4. Exchanged(l, m, d, r)
    BY <1>21 DEF Exchanged
  <2> QED
    BY <1>2, <1>5, <1>6, <2>2, <2>3, <2>4, LinkedRename
<1>23. Len(r) = Len(l) /\ \A j \in 1..Len(l) : r[j] = IF j = m THEN d ELSE l[j]
  BY <1>3, <1>6, <1>21, ExceptSeq
<1>24. v.tail = IF Len(r) = 0 THEN Nil ELSE r[Len(r)]
  <2>1. Len(l) # 0 /\ Len(l) \in 1..Len(l)
    BY <1>4
  <2>2. v.tail = IF m = Len(l) THEN d ELSE l[Len(l)]
    BY <1>2, <1>15, <1>20, <2>1 DEF Renamed
  <2> QED
    BY <1>23, <2>1, <2>2
<1>25. \A e \in Slots : /\ v.key[e] = IF e = s THEN Nil ELSE IF e = d THEN t.key[s] ELSE t.key[e]
                        /\ v.hash[e] = IF e = s THEN 0 ELSE IF e = d THEN t.hash[s] ELSE t.hash[e]
  <2>1. DOMAIN t.key = Slots /\ DOMAIN t.hash = Slots
    BY <1>1 DEF TableRec
  <2>2. v.key = Copied(t.key, s, d, Nil) /\ v.hash = Copied(t.hash, s, d, 0)
    BY <1>20 DEF Renamed
  <2> QED
    BY <1>6, <2>1, <2>2 DEF Copied
<1>26. Used(v) = (Used(t) \ {s}) \cup {d}
  BY <1>6, <1>25 DEF Used
<1>27. \A k : Hash(v, k) = Hash(t, k)
  BY <1>20 DEF Hash, Renamed
<1>28. \A e \in Used(t) \ {s} : e \in Slots /\ e # d /\ v.key[e] = t.key[e] /\ v.hash[e] = t.hash[e]
  BY <1>25 DEF Used
<1>29. v.key[d] = t.key[s] /\ v.hash[d] = t.hash[s]
  BY <1>6, <1>25
<1>30. KeysOK(v)
  BY <1>1, <1>6, <1>26, <1>27, <1>28, <1>29 DEF KeysOK
<1>31. ListIs(v, r)
  <2>1. v.count = Len(r)
    BY <1>1, <1>20, <1>23 DEF Renamed, ListIs
  <2>2. v.cursor \in Used(v) \cup {Nil}
    BY <1>1, <1>6, <1>20, <1>26 DEF Renamed, ListIs
  <2> QED
    BY <1>22, <1>24, <1>26, <2>1, <2>2 DEF ListIs
<1>32. PICK at2 : at2 = Spots(v, n)
  OBVIOUS
<1>33. /\ DOMAIN at2 = (Used(t) \ {s}) \cup {d} /\ at2[d] = i
       /\ \A e \in Used(t) \ {s} : at2[e] = at[e]
  <2>1. DOMAIN at2 = Used(v) /\ \A e \in Used(v) : at2[e] = IndexOf[n][Hash(v, v.key[e])]
    BY <1>32 DEF Spots
  <2>2. at2[d] = IndexOf[n][Hash(t, t.key[s])]
    BY <1>26, <1>27, <1>29, <2>1
  <2>3. \A e \in Used(t) \ {s} : at2[e] = IndexOf[n][Hash(t, t.key[e])]
    BY <1>26, <1>27, <1>28, <2>1
  <2> QED
    BY <1>6, <1>8, <1>9, <1>26, <2>1, <2>2, <2>3
<1>34. PICK p : p = [q EXCEPT ![x] = d]
  OBVIOUS
<1>35. Linked(v.down, v.up, v.bucket[i], p, i) /\ ToSet(p) = (ToSet(q) \ {s}) \cup {d}
  <2>1. Relabelled(t.down, t.up, q[x], d, Preceding(q, x), v.down, v.up)
    BY <1>12, <1>14, <1>20 DEF Renamed, Relabelled
  <2>2. Replaced(t.down, t.up, q, x, d, v.down, v.up)
    BY <1>6, <1>13, <2>1, RelabelledOK
  <2>3. FirstIs(t.bucket[i], x, d, v.bucket[i])
    <3>1. DOMAIN t.bucket = 0..(n - 1)
      BY <1>1 DEF TableRec
    <3> QED
      BY <1>16, <1>20, <3>1 DEF Renamed, FirstIs
  <2>4. Exchanged(q, x, d, p)
    BY <1>34 DEF Exchanged
  <2> QED
    BY <1>6, <1>12, <1>13, <2>2, <2>3, <2>4, LinkedRename
<1>36. ToSet(p) = {e \in DOMAIN at2 : at2[e] = i}
  BY <1>8, <1>13, <1>28, <1>33, <1>35
<1>37. ASSUME NEW j \in 0..(n - 1), j # i
       PROVE  /\ Linked(v.down, v.up, v.bucket[j], C[j], j)
              /\ ToSet(C[j]) = {e \in DOMAIN at2 : at2[e] = j}
  <2>1. PICK o : o = C[j]
    OBVIOUS
  <2>2. ChainIs(t, at, j, o)
    BY <1>1, <1>7, <2>1, ChainHolds
  <2>3. \A k \in 1..Len(o) : /\ o[k] \in Slots \ {s, d}
                             /\ o[k] # b /\ o[k] # t.down[s]
    <3>1. ASSUME NEW k \in 1..Len(o)
          PROVE  o[k] \in Slots /\ o[k] \in Used(t) /\ at[o[k]] # i
      BY <1>8, <1>37, <2>2 DEF ChainIs
    <3>2. b # Nil => at[b] = i
      <4>1. x # 1 => x - 1 \in 1..Len(q)
        <5>1. Len(q) \in Nat
          BY <1>11 DEF ChainIs
        <5> QED
          BY <5>1
      <4> QED
        BY <1>11, <1>14, <1>16, <4>1 DEF ChainIs, Preceding
    <3>3. t.down[s] # Nil => at[t.down[s]] = i
      <4>1. x # Len(q) => x + 1 \in 1..Len(q)
        <5>1. Len(q) \in Nat
          BY <1>11 DEF ChainIs
        <5> QED
          BY <5>1
      <4>2. t.down[s] = IF x = Len(q) THEN Nil ELSE q[x + 1]
        BY <1>12, <1>13 DEF Linked
      <4> QED
        BY <1>11, <4>1, <4>2 DEF ChainIs
    <3> QED
      BY <1>6, <1>9, <3>1, <3>2, <3>3
  <2>4. \A k \in 1..Len(o) : v.down[o[k]] = t.down[o[k]] /\ v.up[o[k]] = t.up[o[k]]
    BY <1>20, <2>3 DEF Renamed
  <2>5. v.bucket[j] = t.bucket[j]
    <3>1. DOMAIN t.bucket = 0..(n - 1)
      BY <1>1 DEF TableRec
    <3> QED
      BY <1>20, <1>37, <3>1 DEF Renamed
  <2>6. Linked(t.down, t.up, v.bucket[j], o, j)
    BY <2>2, <2>5 DEF ChainIs
  <2>7. Linked(v.down, v.up, v.bucket[j], o, j)
    BY <2>4, <2>6, LinkedFrame
  <2>8. ToSet(o) = {e \in DOMAIN at : at[e] = j}
    BY <1>1, <1>7, <2>1 DEF InBuckets
  <2>9. {e \in DOMAIN at : at[e] = j} = {e \in DOMAIN at2 : at2[e] = j}
    BY <1>8, <1>9, <1>33, <1>37
  <2> QED
    BY <2>1, <2>7, <2>8, <2>9
<1>38. PICK D : D = [C EXCEPT ![i] = p]
  OBVIOUS
<1>39. C \in [0..(n - 1) -> Seq(Slots)] /\ p \in Seq(Slots)
  BY <1>1, <1>35 DEF InBuckets, Linked
<1>40. D \in [0..(n - 1) -> Seq(Slots)] /\ D[i] = p /\ \A j \in 0..(n - 1) : j # i => D[j] = C[j]
  BY <1>38, <1>39
<1>41. InBuckets(v, n, at2, D)
  <2>1. ASSUME NEW j \in 0..(n - 1)
        PROVE  /\ Linked(v.down, v.up, v.bucket[j], D[j], j)
               /\ ToSet(D[j]) = {e \in DOMAIN at2 : at2[e] = j}
    BY <1>35, <1>36, <1>37, <1>40
  <2> QED
    BY <1>40, <2>1 DEF InBuckets
<1>42. Parts(v, n, r, D)
  BY <1>1, <1>20, <1>30, <1>31, <1>32, <1>41 DEF Parts
<1>43. MovedTo(t, v, s, d)
  BY <1>20 DEF Renamed, MovedTo
<1> QED
  BY <1>5, <1>19, <1>21, <1>42, <1>43

----------------------------------------------------------------------------
(* What a loop still meets *)

LEMMA InFrom ==
    ASSUME NEW l, Len(l) \in Nat, NEW c, NEW e
    PROVE  e \in From(l, c) <=> \E a, b \in 1..Len(l) : a <= b /\ l[a] = c /\ l[b] = e
<1>1. ASSUME e \in From(l, c)
      PROVE  \E a, b \in 1..Len(l) : a <= b /\ l[a] = c /\ l[b] = e
  <2>1. PICK b \in 1..Len(l) : e = l[b] /\ \E n \in 1..b : l[n] = c
    BY <1>1 DEF From
  <2>2. PICK a \in 1..b : l[a] = c
    BY <2>1
  <2>3. Len(l) \in Nat
    OBVIOUS
  <2>4. b \in 1..Len(l) /\ a \in 1..b
    BY <2>1, <2>2
  <2>5. a \in 1..Len(l) /\ a <= b
    BY <2>3, <2>4
  <2> QED
    BY <2>1, <2>2, <2>5
<1>2. ASSUME NEW a \in 1..Len(l), NEW b \in 1..Len(l), a <= b, l[a] = c, l[b] = e
      PROVE  e \in From(l, c)
  <2>1. a \in 1..b
    BY <1>2
  <2> QED
    BY <1>2, <2>1 DEF From
<1> QED
  BY <1>1, <1>2

\* A new entry takes none away.
LEMMA FromInsert ==
    ASSUME NEW l \in Seq(Slots), NEW s \in Slots, NEW m \in 0..Len(l), NEW c
    PROVE  From(l, c) \subseteq From(InsertAt(l, m + 1, s), c)
<1>1. Len(l) \in Nat
  BY LenProperties
<1>2. PICK r : r = InsertAt(l, m + 1, s)
  OBVIOUS
<1>3. /\ Len(r) = Len(l) + 1
      /\ \A j \in 1..(Len(l) + 1) :
            r[j] = IF j < m + 1 THEN l[j] ELSE IF j = m + 1 THEN s ELSE l[j - 1]
  <2>1. \A i \in 1..(Len(l) + 1) :
          /\ Len(InsertAt(l, i, s)) = Len(l) + 1
          /\ \A j \in 1..(Len(l) + 1) :
                InsertAt(l, i, s)[j] = IF j < i THEN l[j] ELSE IF j = i THEN s ELSE l[j - 1]
    BY InsertAtProperties
  <2>2. m + 1 \in 1..(Len(l) + 1)
    BY <1>1
  <2> QED
    BY <1>2, <2>1, <2>2
<1> DEFINE To(j) == IF j <= m THEN j ELSE j + 1
<1>4. \A j \in 1..Len(l) : To(j) \in 1..Len(r) /\ r[To(j)] = l[j]
  <2>1. ASSUME NEW j \in 1..Len(l), j <= m
        PROVE  To(j) \in 1..Len(r) /\ r[To(j)] = l[j]
    <3>1. To(j) = j /\ j \in 1..(Len(l) + 1) /\ j < m + 1
      BY <1>1, <2>1
    <3> QED
      BY <1>3, <3>1
  <2>2. ASSUME NEW j \in 1..Len(l), ~(j <= m)
        PROVE  To(j) \in 1..Len(r) /\ r[To(j)] = l[j]
    <3>1. /\ To(j) = j + 1 /\ j + 1 \in 1..(Len(l) + 1)
          /\ ~(j + 1 < m + 1) /\ j + 1 # m + 1 /\ (j + 1) - 1 = j
      BY <1>1, <2>2
    <3>2. r[j + 1] = l[(j + 1) - 1]
      BY <1>3, <3>1
    <3> QED
      BY <1>3, <3>1, <3>2
  <2> QED
    BY <2>1, <2>2
<1>5. \A i, j \in 1..Len(l) : i <= j => To(i) <= To(j)
  BY <1>1
<1> HIDE DEF To
<1>6. ASSUME NEW e \in From(l, c)
      PROVE  e \in From(r, c)
  <2>1. PICK a, b \in 1..Len(l) : a <= b /\ l[a] = c /\ l[b] = e
    BY <1>1, InFrom
  <2>2. /\ To(a) \in 1..Len(r) /\ To(b) \in 1..Len(r) /\ To(a) <= To(b)
        /\ r[To(a)] = c /\ r[To(b)] = e
    BY <1>4, <1>5, <2>1
  <2>3. Len(r) \in Nat
    BY <1>1, <1>3
  <2> QED
    BY <2>2, <2>3, InFrom
<1> QED
  BY <1>2, <1>6

\* An entry that is taken out only takes itself away.
LEMMA FromRemove ==
    ASSUME NEW l \in Seq(Slots), NEW m \in 1..Len(l), NEW c, c # l[m]
    PROVE  From(l, c) \ {l[m]} \subseteq From(RemoveAt(l, m), c)
<1>1. Len(l) \in Nat
  BY LenProperties
<1>2. PICK r : r = RemoveAt(l, m)
  OBVIOUS
<1>3. /\ Len(r) = Len(l) - 1
      /\ \A j \in 1..(Len(l) - 1) : r[j] = IF j < m THEN l[j] ELSE l[j + 1]
  BY <1>2, RemoveAtProperties
<1> DEFINE To(j) == IF j < m THEN j ELSE j - 1
<1>4. \A j \in 1..Len(l) : j # m => To(j) \in 1..Len(r) /\ r[To(j)] = l[j]
  <2>1. ASSUME NEW j \in 1..Len(l), j < m
        PROVE  To(j) \in 1..Len(r) /\ r[To(j)] = l[j]
    <3>1. To(j) = j /\ j \in 1..(Len(l) - 1)
      BY <1>1, <2>1
    <3> QED
      BY <1>3, <2>1, <3>1
  <2>2. ASSUME NEW j \in 1..Len(l), ~(j < m), j # m
        PROVE  To(j) \in 1..Len(r) /\ r[To(j)] = l[j]
    <3>1. To(j) = j - 1 /\ j - 1 \in 1..(Len(l) - 1) /\ ~(j - 1 < m) /\ (j - 1) + 1 = j
      BY <1>1, <2>2
    <3>2. r[j - 1] = l[(j - 1) + 1]
      BY <1>3, <3>1
    <3> QED
      BY <1>3, <3>1, <3>2
  <2> QED
    BY <2>1, <2>2
<1>5. \A i, j \in 1..Len(l) : i <= j => To(i) <= To(j)
  BY <1>1
<1> HIDE DEF To
<1>6. ASSUME NEW e \in From(l, c), e # l[m]
      PROVE  e \in From(r, c)
  <2>1. PICK a, b \in 1..Len(l) : a <= b /\ l[a] = c /\ l[b] = e
    BY <1>1, InFrom
  <2>2. a # m /\ b # m
    BY <1>6, <2>1
  <2>3. /\ To(a) \in 1..Len(r) /\ To(b) \in 1..Len(r) /\ To(a) <= To(b)
        /\ r[To(a)] = c /\ r[To(b)] = e
    BY <1>4, <1>5, <2>1, <2>2
  <2>4. Len(r) \in Nat
    BY <1>1, <1>3
  <2> QED
    BY <2>3, <2>4, InFrom
<1> QED
  BY <1>2, <1>6

\* A loop that goes on to the next entry misses only the one it leaves.
LEMMA FromNext ==
    ASSUME NEW l \in Seq(Slots), IsInjective(l), NEW m \in 1..Len(l), NEW c,
           c = IF m = Len(l) THEN Nil ELSE l[m + 1]
    PROVE  From(l, l[m]) \ {l[m]} \subseteq From(l, c)
<1>0. c = IF m = Len(l) THEN Nil ELSE l[m + 1]
  OBVIOUS
<1>1. Len(l) \in Nat
  BY LenProperties
<1>2. \A i, j \in 1..Len(l) : l[i] = l[j] => i = j
  BY LenProperties DEF IsInjective
<1>3. ASSUME NEW e \in From(l, l[m]), e # l[m]
      PROVE  e \in From(l, c)
  <2>1. PICK a, b \in 1..Len(l) : a <= b /\ l[a] = l[m] /\ l[b] = e
    BY <1>1, InFrom
  <2>2. a = m /\ b # m
    BY <1>2, <1>3, <2>1
  <2>3. m # Len(l) /\ m + 1 \in 1..Len(l) /\ m + 1 <= b
    BY <1>1, <2>1, <2>2
  <2>4. l[m + 1] = c
    BY <1>0, <2>3
  <2> QED
    BY <1>1, <2>1, <2>3, <2>4, InFrom
<1> QED
  BY <1>3

\* An entry with another address is met where the old one was.
LEMMA FromRename ==
    ASSUME NEW l \in Seq(Slots), IsInjective(l), NEW m \in 1..Len(l), NEW d \in Slots,
           NEW r, Exchanged(l, m, d, r), NEW c \in ToSet(l) \cup {Nil}, NEW b,
           b = IF c = l[m] THEN d ELSE c
    PROVE  /\ \A e \in From(l, c) : e # l[m] => e \in From(r, b)
           /\ l[m] \in From(l, c) => d \in From(r, b)
<1>0. b = IF c = l[m] THEN d ELSE c
  OBVIOUS
<1>1. Len(l) \in Nat
  BY LenProperties
<1>2. DOMAIN l = 1..Len(l) /\ l \in [1..Len(l) -> Slots]
  BY LenProperties, ElementOfSeq
<1>3. \A i, j \in 1..Len(l) : l[i] = l[j] => i = j
  BY <1>2 DEF IsInjective
<1>4. \A j \in 1..Len(l) : r[j] = IF j = m THEN d ELSE l[j]
  BY ExceptSeq DEF Exchanged
<1>5. Len(r) = Len(l)
  BY ExceptSeq DEF Exchanged
<1>6. ASSUME NEW e \in From(l, c)
      PROVE  (IF e = l[m] THEN d ELSE e) \in From(r, b)
  <2>1. PICK a, j \in 1..Len(l) : a <= j /\ l[a] = c /\ l[j] = e
    BY <1>1, InFrom
  <2>2. r[a] = b
    BY <1>0, <1>3, <1>4, <2>1
  <2>3. r[j] = IF e = l[m] THEN d ELSE e
    BY <1>3, <1>4, <2>1
  <2>4. a \in 1..Len(r) /\ j \in 1..Len(r) /\ Len(r) \in Nat
    BY <1>1, <1>5
  <2> QED
    BY <2>1, <2>2, <2>3, <2>4, InFrom
<1> QED
  BY <1>6

----------------------------------------------------------------------------
(* A table without entries *)

LEMMA EmptyParts ==
    ASSUME NEW n \in FirstSizes
    PROVE  /\ Parts(Empty(n), n, <<>>, [i \in 0..(n - 1) |-> <<>>])
           /\ OrderOf(Empty(n)) = <<>>
<1>1. n \in 1..MaxSize
  BY SizesAssumption
<1>2. PICK t : t = Empty(n)
  OBVIOUS
<1>3. /\ t.key = [s \in Slots |-> Nil] /\ t.head = Nil /\ t.tail = Nil /\ t.cursor = Nil
      /\ t.count = 0 /\ t.bucket = [i \in 0..(n - 1) |-> Nil]
  BY <1>2 DEF Empty
<1>4. t \in TableRec(n)
  <2>1. [s \in Slots |-> Nil] \in [Slots -> Keys \cup {Nil}]
    OBVIOUS
  <2>2. [s \in Slots |-> 0] \in [Slots -> Nat]
    OBVIOUS
  <2>3. [s \in Slots |-> Nil] \in [Slots -> Slots \cup {Nil}]
    OBVIOUS
  <2>4. [s \in Slots |-> Nil] \in [Slots -> Nat \cup {Nil}]
    OBVIOUS
  <2>5. [i \in 0..(n - 1) |-> Nil] \in [0..(n - 1) -> Slots \cup {Nil}]
    OBVIOUS
  <2>6. 0 \in 0..LastGen
    BY HashAssumption
  <2> QED
    BY <1>2, <2>1, <2>2, <2>3, <2>4, <2>5, <2>6 DEF Empty, TableRec, Refs
<1>5. Used(t) = {}
  BY <1>3 DEF Used
<1>6. Linked(t.next, t.last, t.head, <<>>, Nil)
  BY <1>3, EmptySeq DEF Linked, IsInjective
<1>7. ListIs(t, <<>>)
  BY <1>3, <1>5, <1>6, EmptySeq DEF ListIs, ToSet
<1>8. KeysOK(t)
  BY <1>5 DEF KeysOK
<1>9. InBuckets(t, n, Spots(t, n), [i \in 0..(n - 1) |-> <<>>])
  <2>1. DOMAIN Spots(t, n) = {}
    BY <1>5 DEF Spots
  <2>2. ASSUME NEW i \in 0..(n - 1)
        PROVE  Linked(t.down, t.up, t.bucket[i], <<>>, i)
    BY <1>3, EmptySeq DEF Linked, IsInjective
  <2>3. ToSet(<<>>) = {} /\ <<>> \in Seq(Slots)
    BY DEF ToSet
  <2> QED
    BY <2>1, <2>2, <2>3 DEF InBuckets
<1>10. Parts(t, n, <<>>, [i \in 0..(n - 1) |-> <<>>])
  BY <1>1, <1>4, <1>7, <1>8, <1>9 DEF Parts
<1>11. OrderOf(t) = <<>>
  <2>1. Listed(t) = <<>>
    BY <1>7, ListedIs
  <2> QED
    BY <2>1 DEF OrderOf
<1> QED
  BY <1>2, <1>10, <1>11

----------------------------------------------------------------------------
(* The keys of the list *)

\* What g says of each of l, in their order; the keys as the script sees them.
Marks == Keys \cup {Nil}
Image(g, l) == [j \in 1..Len(l) |-> g[l[j]]]

\* The keys of a list, one by one.
LEMMA ImageIs ==
    ASSUME NEW g \in [Slots -> Marks], NEW l \in Seq(Slots)
    PROVE  /\ Image(g, l) \in Seq(Marks) /\ Len(Image(g, l)) = Len(l) /\ Len(l) \in Nat
           /\ \A j \in 1..Len(l) : Image(g, l)[j] = g[l[j]]
<1>1. Len(l) \in Nat
  BY LenProperties
<1>2. \A j \in 1..Len(l) : g[l[j]] \in Marks
  BY ElementOfSeq
<1>3. /\ Image(g, l) \in Seq(Marks) /\ DOMAIN Image(g, l) = 1..Len(l)
      /\ \A j \in 1..Len(l) : Image(g, l)[j] = g[l[j]]
  BY <1>1, <1>2, IsASeq DEF Image
<1>4. DOMAIN Image(g, l) = 1..Len(Image(g, l)) /\ Len(Image(g, l)) \in Nat
  BY <1>3, LenProperties
<1>5. Len(Image(g, l)) = Len(l)
  BY <1>1, <1>3, <1>4
<1> QED
  BY <1>1, <1>3, <1>5

\* The keys of a list depend on its entries' keys only.
LEMMA ImageSame ==
    ASSUME NEW g, NEW f, NEW l, \A j \in 1..Len(l) : f[l[j]] = g[l[j]]
    PROVE  Image(f, l) = Image(g, l)
BY DEF Image

\* r is q with e at i.
Inserted(q, i, e, r) ==
    /\ Len(r) = Len(q) + 1
    /\ \A j \in 1..(Len(q) + 1) :
          r[j] = IF j < i THEN q[j] ELSE IF j = i THEN e ELSE q[j - 1]

\* InsertAt puts one element at its place and shifts those behind.
LEMMA InsertIs ==
    ASSUME NEW S, NEW q \in Seq(S), NEW e \in S
    PROVE  \A i \in 1..(Len(q) + 1) :
              InsertAt(q, i, e) \in Seq(S) /\ Inserted(q, i, e, InsertAt(q, i, e))
<1>1. \A i \in 1..(Len(q) + 1) :
        /\ InsertAt(q, i, e) \in Seq(S)
        /\ Len(InsertAt(q, i, e)) = Len(q) + 1
        /\ \A j \in 1..(Len(q) + 1) :
              InsertAt(q, i, e)[j] = IF j < i THEN q[j] ELSE IF j = i THEN e ELSE q[j - 1]
  BY InsertAtProperties
<1> QED
  BY <1>1 DEF Inserted

\* A new entry puts its key at its place among the keys.
LEMMA ImageInsert ==
    ASSUME NEW g \in [Slots -> Marks], NEW l \in Seq(Slots), NEW m \in 0..Len(l),
           NEW s \in Slots
    PROVE  Image(g, InsertAt(l, m + 1, s)) = InsertAt(Image(g, l), m + 1, g[s])
<1>0. Len(l) \in Nat
  BY LenProperties
<1>1. PICK i \in 1..(Len(l) + 1) : i = m + 1
  BY <1>0
<1>2. PICK r : r = InsertAt(l, i, s)
  OBVIOUS
<1>3. /\ r \in Seq(Slots) /\ Len(r) = Len(l) + 1
      /\ \A j \in 1..(Len(l) + 1) :
            r[j] = IF j < i THEN l[j] ELSE IF j = i THEN s ELSE l[j - 1]
  <2>1. r \in Seq(Slots) /\ Inserted(l, i, s, r)
    BY <1>2, InsertIs
  <2> QED
    BY <2>1 DEF Inserted
<1>4. PICK o : o = Image(g, l)
  OBVIOUS
<1>5. /\ o \in Seq(Marks) /\ Len(o) = Len(l) /\ g[s] \in Marks
      /\ \A j \in 1..Len(l) : o[j] = g[l[j]]
  BY <1>4, ImageIs
<1>6. PICK p : p = InsertAt(o, i, g[s])
  OBVIOUS
<1>7. /\ p \in Seq(Marks) /\ Len(p) = Len(l) + 1
      /\ \A j \in 1..(Len(l) + 1) :
            p[j] = IF j < i THEN o[j] ELSE IF j = i THEN g[s] ELSE o[j - 1]
  <2>1. i \in 1..(Len(o) + 1) /\ o \in Seq(Marks) /\ g[s] \in Marks
    BY <1>5
  <2>2. p \in Seq(Marks) /\ Inserted(o, i, g[s], p)
    BY <1>6, <2>1, InsertIs
  <2> QED
    BY <1>5, <2>2 DEF Inserted
<1>8. /\ Image(g, r) \in Seq(Marks) /\ Len(Image(g, r)) = Len(r)
      /\ \A j \in 1..Len(r) : Image(g, r)[j] = g[r[j]]
  BY <1>3, ImageIs
<1>9. ASSUME NEW j \in 1..(Len(l) + 1)
      PROVE  g[r[j]] = p[j]
  <2>1. CASE j < i
    <3>1. j \in 1..Len(l)
      BY <1>0, <1>1, <2>1
    <3>2. r[j] = l[j] /\ p[j] = o[j]
      BY <1>3, <1>7, <2>1
    <3> QED
      BY <1>5, <3>1, <3>2
  <2>2. CASE j = i
    BY <1>3, <1>7, <2>2
  <2>3. CASE ~(j < i) /\ j # i
    <3>1. j - 1 \in 1..Len(l)
      BY <1>0, <1>1, <2>3
    <3>2. r[j] = l[j - 1] /\ p[j] = o[j - 1]
      BY <1>3, <1>7, <2>3
    <3> QED
      BY <1>5, <3>1, <3>2
  <2> QED
    BY <2>1, <2>2, <2>3
<1>10. \A j \in 1..Len(r) : Image(g, r)[j] = p[j]
  BY <1>3, <1>8, <1>9
<1>11. Image(g, r) = p
  BY <1>3, <1>7, <1>8, <1>10, SeqEqual
<1> QED
  BY <1>1, <1>2, <1>4, <1>6, <1>11

\* A removed entry takes its key from among the keys.
LEMMA ImageRemove ==
    ASSUME NEW g \in [Slots -> Marks], NEW l \in Seq(Slots), NEW m \in 1..Len(l)
    PROVE  Image(g, RemoveAt(l, m)) = RemoveAt(Image(g, l), m)
<1>0. Len(l) \in Nat
  BY LenProperties
<1>2. PICK r : r = RemoveAt(l, m)
  OBVIOUS
<1>3. /\ r \in Seq(Slots) /\ Len(r) = Len(l) - 1
      /\ \A j \in 1..(Len(l) - 1) : r[j] = IF j < m THEN l[j] ELSE l[j + 1]
  BY <1>2, RemoveAtProperties
<1>4. PICK o : o = Image(g, l)
  OBVIOUS
<1>5. /\ o \in Seq(Marks) /\ Len(o) = Len(l)
      /\ \A j \in 1..Len(l) : o[j] = g[l[j]]
  BY <1>4, ImageIs
<1>6. PICK p : p = RemoveAt(o, m)
  OBVIOUS
<1>7. /\ p \in Seq(Marks) /\ Len(p) = Len(l) - 1
      /\ \A j \in 1..(Len(l) - 1) : p[j] = IF j < m THEN o[j] ELSE o[j + 1]
  <2>1. m \in 1..Len(o)
    BY <1>5
  <2> QED
    BY <1>5, <1>6, <2>1, RemoveAtProperties
<1>8. /\ Image(g, r) \in Seq(Marks) /\ Len(Image(g, r)) = Len(r)
      /\ \A j \in 1..Len(r) : Image(g, r)[j] = g[r[j]]
  BY <1>3, ImageIs
<1>9. ASSUME NEW j \in 1..(Len(l) - 1)
      PROVE  g[r[j]] = p[j]
  <2>1. j \in 1..Len(l) /\ j + 1 \in 1..Len(l)
    BY <1>0
  <2>2. r[j] = (IF j < m THEN l[j] ELSE l[j + 1]) /\ p[j] = IF j < m THEN o[j] ELSE o[j + 1]
    BY <1>3, <1>7
  <2>3. o[j] = g[l[j]] /\ o[j + 1] = g[l[j + 1]]
    BY <1>5, <2>1
  <2> QED
    BY <2>2, <2>3
<1>10. \A j \in 1..Len(r) : Image(g, r)[j] = p[j]
  BY <1>3, <1>8, <1>9
<1>11. Image(g, r) = p
  BY <1>3, <1>7, <1>8, <1>10, SeqEqual
<1> QED
  BY <1>2, <1>4, <1>6, <1>11

\* The place m of a in o, which has it at most once; 0 if it is not there.
FoundAt(o, a, m) ==
    /\ m \in 0..Len(o)
    /\ m = 0 => \A j \in 1..Len(o) : o[j] # a
    /\ m # 0 => o[m] = a /\ \A j \in 1..Len(o) : o[j] = a => j = m

\* What the ordered map calls behind a.
LEMMA BehindIs ==
    ASSUME NEW S, NEW o \in Seq(S), NEW k, NEW a, NEW m, FoundAt(o, a, m)
    PROVE  Map!Behind(o, k, a) = InsertAt(o, m + 1, k)
<1>1. Len(o) \in Nat
  BY LenProperties
<1>2. PICK I : I = {i \in 1..Len(o) : o[i] = a}
  OBVIOUS
<1>3. Map!SelectInSeq(o, LAMBDA x : x = a) = IF I # {} THEN Min(I) ELSE 0
  BY <1>2 DEF Map!SelectInSeq, Map!Min, Min
<1>4. Map!SelectInSeq(o, LAMBDA x : x = a) = m
  <2>1. CASE m = 0
    BY <1>2, <1>3, <2>1 DEF FoundAt
  <2>2. CASE m # 0
    <3>1. m \in 1..Len(o) /\ o[m] = a /\ \A j \in 1..Len(o) : o[j] = a => j = m
      BY <1>1, <2>2 DEF FoundAt
    <3>2. I = {m}
      BY <1>2, <3>1
    <3>3. I \subseteq Nat /\ I # {}
      BY <1>1, <3>1, <3>2
    <3>4. Min(I) \in I
      BY <3>3, MinInSet
    <3> QED
      BY <1>3, <3>2, <3>4
  <2> QED
    BY <2>1, <2>2
<1>5. Map!InsertAt(o, m + 1, k) = InsertAt(o, m + 1, k)
  BY DEF Map!InsertAt, InsertAt
<1> QED
  BY <1>4, <1>5 DEF Map!Behind

\* What the ordered map calls without k.
LEMMA WithoutIs ==
    ASSUME NEW o \in Seq(Marks), NEW m \in 1..Len(o), FoundAt(o, o[m], m)
    PROVE  Map!RemoveFirst(o, o[m]) = RemoveAt(o, m)
<1>1. Len(o) \in Nat
  BY LenProperties
<1>2. m \in 1..Len(o) /\ m # 0 /\ \A j \in 1..Len(o) : o[j] = o[m] => j = m
  BY <1>1 DEF FoundAt
<1>3. Map!RemoveFirst(o, o[m]) = RemoveFirst(o, o[m])
  BY DEF Map!RemoveFirst, Map!RemoveAt, Map!SelectInSeq, Map!Min,
         RemoveFirst, RemoveAt, SelectInSeq, Min
<1>4. \/ RemoveFirst(o, o[m]) = o /\ \A i \in 1..Len(o) : o[i] # o[m]
      \/ \E i \in 1..Len(o) : o[i] = o[m] /\ RemoveFirst(o, o[m]) = RemoveAt(o, i)
  BY RemoveFirstIs
<1>5. RemoveFirst(o, o[m]) = RemoveAt(o, m)
  BY <1>2, <1>4
<1> QED
  BY <1>3, <1>5

\* A key put behind the last is appended.
LEMMA InsertLast ==
    ASSUME NEW S, NEW o \in Seq(S), NEW k \in S
    PROVE  InsertAt(o, Len(o) + 1, k) = Append(o, k)
<1>1. Len(o) \in Nat
  BY LenProperties
<1>2. PICK i \in 1..(Len(o) + 1) : i = Len(o) + 1
  BY <1>1
<1>3. PICK p : p = InsertAt(o, i, k)
  OBVIOUS
<1>4. p \in Seq(S) /\ Inserted(o, i, k, p)
  BY <1>3, InsertIs
<1>5. PICK q : q = Append(o, k)
  OBVIOUS
<1>6. /\ q \in Seq(S) /\ Len(q) = Len(o) + 1
      /\ \A j \in 1..Len(o) : q[j] = o[j]
      /\ q[Len(o) + 1] = k
  BY <1>5, AppendProperties
<1>7. ASSUME NEW j \in 1..(Len(o) + 1)
      PROVE  p[j] = q[j]
  <2>1. p[j] = IF j < i THEN o[j] ELSE IF j = i THEN k ELSE o[j - 1]
    BY <1>4 DEF Inserted
  <2>2. CASE j = i
    BY <1>2, <1>6, <2>1, <2>2
  <2>3. CASE j # i
    <3>1. j < i /\ j \in 1..Len(o)
      BY <1>1, <1>2, <2>3
    <3> QED
      BY <1>6, <2>1, <3>1
  <2> QED
    BY <2>2, <2>3
<1>8. Len(p) = Len(q) /\ \A j \in 1..Len(p) : p[j] = q[j]
  BY <1>4, <1>6, <1>7 DEF Inserted
<1>9. p = q
  BY <1>4, <1>6, <1>8, SeqEqual
<1> QED
  BY <1>2, <1>3, <1>5, <1>9

----------------------------------------------------------------------------
(* What the script sees of each operation *)

\* The order is the keys of the list, each once.
LEMMA OrderIs ==
    ASSUME NEW n, NEW t, NEW l, NEW C, Parts(t, n, l, C)
    PROVE  /\ OrderOf(t) = Image(t.key, l) /\ t.key \in [Slots -> Marks]
           /\ OrderOf(t) \in Seq(Marks) /\ Len(OrderOf(t)) = Len(l) /\ Len(l) \in Nat
           /\ \A m \in 1..Len(l) : /\ OrderOf(t)[m] = t.key[l[m]]
                                   /\ FoundAt(OrderOf(t), t.key[l[m]], m)
           /\ ToSet(OrderOf(t)) = KeysOf(t)
<1>1. n \in 1..MaxSize /\ t \in TableRec(n) /\ KeysOK(t) /\ ListIs(t, l)
  BY DEF Parts
<1>2. t.key \in [Slots -> Marks]
  BY <1>1 DEF TableRec, Marks
<1>3. /\ l \in Seq(Slots) /\ Len(l) \in Nat
      /\ \A m \in 1..Len(l) : l[m] \in Used(t)
      /\ \A s \in Used(t) : \E m \in 1..Len(l) : l[m] = s
      /\ \A a, b \in 1..Len(l) : l[a] = l[b] => a = b
      /\ OrderOf(t) = Image(t.key, l)
  BY <1>1, ListedIs DEF Image
<1>4. PICK o : o = OrderOf(t)
  OBVIOUS
<1>5. /\ o \in Seq(Marks) /\ Len(o) = Len(l)
      /\ \A j \in 1..Len(l) : o[j] = t.key[l[j]]
  BY <1>2, <1>3, <1>4, ImageIs
<1>6. \A a, b \in 1..Len(l) : o[a] = o[b] => a = b
  BY <1>1, <1>3, <1>5 DEF KeysOK
<1>7. ASSUME NEW m \in 1..Len(l)
      PROVE  FoundAt(o, t.key[l[m]], m)
  <2>1. m \in 0..Len(o) /\ m # 0 /\ o[m] = t.key[l[m]]
    BY <1>3, <1>5
  <2>2. \A j \in 1..Len(o) : o[j] = t.key[l[m]] => j = m
    BY <1>5, <1>6
  <2> QED
    BY <2>1, <2>2 DEF FoundAt
<1>8. ToSet(o) = KeysOf(t)
  <2>1. DOMAIN o = 1..Len(l)
    BY <1>5, LenProperties
  <2> QED
    BY <1>3, <1>5, <2>1 DEF ToSet, KeysOf
<1> QED
  BY <1>2, <1>3, <1>4, <1>5, <1>7, <1>8

\* A key that is not there is found nowhere.
LEMMA NotFound ==
    ASSUME NEW o, Len(o) \in Nat, DOMAIN o = 1..Len(o), NEW k, k \notin ToSet(o)
    PROVE  FoundAt(o, k, 0)
<1>1. \A j \in 1..Len(o) : o[j] # k
  BY DEF ToSet
<1> QED
  BY <1>1 DEF FoundAt

\* The rest of a list is part of it.
LEMMA FromIn ==
    ASSUME NEW l, NEW c
    PROVE  \A e \in From(l, c) : \E j \in 1..Len(l) : l[j] = e
BY DEF From

\* What a loop that stands on the cursor of t still meets.
Ahead(t) == KeysFrom(t, t.cursor)

\* What is ahead of the cursor, read off the list.
LEMMA AheadIs ==
    ASSUME NEW n, NEW t, NEW l, NEW C, Parts(t, n, l, C)
    PROVE  /\ Ahead(t) = {t.key[e] : e \in From(l, t.cursor)}
           /\ t.cursor \in Used(t) \cup {Nil}
           /\ From(l, t.cursor) \subseteq Used(t)
           /\ Ahead(t) \subseteq KeysOf(t)
<1>1. ListIs(t, l) /\ t.cursor \in Used(t) \cup {Nil}
  BY DEF Parts, ListIs
<1>2. Ahead(t) = {t.key[e] : e \in From(l, t.cursor)}
  BY <1>1, KeysFromIs DEF Ahead
<1>3. \A j \in 1..Len(l) : l[j] \in Used(t)
  BY <1>1, ListedIs
<1>4. From(l, t.cursor) \subseteq Used(t)
  BY <1>3, FromIn
<1> QED
  BY <1>1, <1>2, <1>4 DEF KeysOf

\* u is sound and looks like a table with the order o, and the loop on it meets
\* everything in f: with k behind the first m (Added), without k (Lost), with k
\* moved behind a (Shifted), or the same (Kept).
Kept(o, f, u) == TableOK(u) /\ OrderOf(u) = o /\ f \subseteq Ahead(u)
Added(o, f, u, m, k) ==
    /\ TableOK(u) /\ m \in 0..Len(o) /\ k \notin ToSet(o)
    /\ OrderOf(u) = InsertAt(o, m + 1, k)
    /\ f \subseteq Ahead(u)
Lost(o, f, u, k) ==
    /\ TableOK(u) /\ k \in ToSet(o) /\ OrderOf(u) = Map!RemoveFirst(o, k)
    /\ f \ {k} \subseteq Ahead(u)
Shifted(o, f, u, k, a, met) ==
    /\ TableOK(u) /\ a # k /\ {a, k} \subseteq ToSet(o)
    /\ OrderOf(u) = Map!Behind(Map!RemoveFirst(o, k), k, a)
    /\ met => f \ {k} \subseteq Ahead(u)
    /\ OrderOf(u) = o => f \subseteq Ahead(u)

\* A new entry adds its key where it was put; a loop loses nothing.
LEMMA InsertEffect ==
    ASSUME NEW n, NEW t, NEW l, NEW C, Parts(t, n, l, C), NEW s \in Slots \ Used(t),
           NEW k \in Keys \ KeysOf(t), NEW h, NEW i, KeySpot(t, n, k, h, i),
           NEW m \in 0..Len(l), NEW ins, Asked(l, m, ins)
    PROVE  Added(OrderOf(t), Ahead(t), Insert(t, s, k, h, i, ins), m, k)
<1>1. PICK u : u = Insert(t, s, k, h, i, ins)
  OBVIOUS
<1>2. PICK r : r = InsertAt(l, m + 1, s)
  OBVIOUS
<1>3. (\E D : Parts(u, n, r, D)) /\ AddedTo(t, u, s, k)
  BY <1>1, <1>2, InsertParts
<1>4. PICK D : Parts(u, n, r, D)
  BY <1>3
<1>5. ListIs(t, l) /\ t.key \in [Slots -> Marks] /\ OrderOf(t) = Image(t.key, l)
  BY OrderIs DEF Parts
<1>6. /\ u.key \in [Slots -> Marks] /\ OrderOf(u) = Image(u.key, r)
      /\ u.key = [t.key EXCEPT ![s] = k] /\ u.cursor = t.cursor
  BY <1>3, <1>4, OrderIs DEF AddedTo
<1>7. u.key[s] = k /\ \A e \in Used(t) : u.key[e] = t.key[e]
  BY <1>5, <1>6 DEF Used
<1>8. l \in Seq(Slots) /\ \A j \in 1..Len(l) : l[j] \in Used(t)
  BY <1>5, ListedIs
<1>9. OrderOf(u) = InsertAt(OrderOf(t), m + 1, k)
  <2>1. Image(u.key, r) = InsertAt(Image(u.key, l), m + 1, u.key[s])
    BY <1>2, <1>6, <1>8, ImageInsert
  <2>2. Image(u.key, l) = Image(t.key, l)
    BY <1>7, <1>8, ImageSame
  <2> QED
    BY <1>5, <1>6, <1>7, <2>1, <2>2
<1>10. Ahead(t) \subseteq Ahead(u)
  <2>1. From(l, t.cursor) \subseteq From(r, t.cursor)
    BY <1>2, <1>8, FromInsert
  <2>2. /\ Ahead(t) = {t.key[e] : e \in From(l, t.cursor)}
        /\ From(l, t.cursor) \subseteq Used(t)
    BY AheadIs
  <2>3. Ahead(u) = {u.key[e] : e \in From(r, u.cursor)}
    BY <1>4, AheadIs
  <2>4. From(l, t.cursor) \subseteq From(r, u.cursor)
    BY <1>6, <2>1
  <2> QED
    BY <1>7, <2>2, <2>3, <2>4
<1>11. m \in 0..Len(OrderOf(t)) /\ k \notin ToSet(OrderOf(t))
  BY OrderIs
<1> QED
  BY <1>1, <1>4, <1>9, <1>10, <1>11 DEF Added, TableOK

\* A deletion takes the key away; a loop standing on it goes on behind it.
LEMMA CutEffect ==
    ASSUME NEW n, NEW t, NEW l, NEW C, Parts(t, n, l, C), NEW m \in 1..Len(l),
           NEW i, SpotIs(t, n, l[m], i)
    PROVE  Lost(OrderOf(t), Ahead(t), Cut(t, l[m], i), t.key[l[m]])
<1>1. PICK u : u = Cut(t, l[m], i)
  OBVIOUS
<1>2. PICK r : r = RemoveAt(l, m)
  OBVIOUS
<1>3. PICK s : s = l[m]
  OBVIOUS
<1>4. (\E D : Parts(u, n, r, D)) /\ CutFrom(t, u, s)
  BY <1>1, <1>2, <1>3, CutParts
<1>5. PICK D : Parts(u, n, r, D)
  BY <1>4
<1>6. ListIs(t, l) /\ t.key \in [Slots -> Marks] /\ OrderOf(t) = Image(t.key, l)
  BY OrderIs DEF Parts
<1>7. /\ u.key \in [Slots -> Marks] /\ OrderOf(u) = Image(u.key, r)
      /\ u.key = [t.key EXCEPT ![s] = Nil]
      /\ u.cursor = IF t.cursor = s THEN t.next[s] ELSE t.cursor
  <2>1. u.key \in [Slots -> Marks] /\ OrderOf(u) = Image(u.key, r)
    BY <1>5, OrderIs
  <2> QED
    BY <1>4, <2>1 DEF CutFrom
<1>8. \A e \in Used(t) : e # s => u.key[e] = t.key[e]
  BY <1>6, <1>7 DEF Used
<1>9. /\ l \in Seq(Slots) /\ Len(l) \in Nat /\ \A j \in 1..Len(l) : l[j] \in Used(t)
      /\ \A a, b \in 1..Len(l) : l[a] = l[b] => a = b
      /\ IsInjective(l)
  <2>1. IsInjective(l)
    BY <1>6 DEF ListIs, Linked
  <2> QED
    BY <1>6, <2>1, ListedIs
<1>10. /\ Len(r) = Len(l) - 1
       /\ \A j \in 1..(Len(l) - 1) : r[j] = IF j < m THEN l[j] ELSE l[j + 1]
  BY <1>2, <1>9, RemoveAtProperties
<1>11. \A j \in 1..Len(r) : r[j] \in Used(t) /\ r[j] # s
  <2>1. ASSUME NEW j \in 1..(Len(l) - 1)
        PROVE  r[j] \in Used(t) /\ r[j] # s
    <3>1. /\ j \in 1..Len(l) /\ j + 1 \in 1..Len(l)
          /\ j < m => j # m
          /\ ~(j < m) => j + 1 # m
      BY <1>9
    <3>2. r[j] = IF j < m THEN l[j] ELSE l[j + 1]
      BY <1>10
    <3> QED
      BY <1>3, <1>9, <3>1, <3>2
  <2> QED
    BY <1>10, <2>1
<1>12. OrderOf(u) = RemoveAt(OrderOf(t), m)
  <2>1. Image(u.key, r) = Image(t.key, r)
    BY <1>8, <1>11, ImageSame
  <2>2. Image(t.key, r) = RemoveAt(Image(t.key, l), m)
    BY <1>2, <1>6, <1>9, ImageRemove
  <2> QED
    BY <1>6, <1>7, <2>1, <2>2
<1>13. PICK o : o = OrderOf(t)
  OBVIOUS
<1>14. /\ o \in Seq(Marks) /\ m \in 1..Len(o) /\ o[m] = t.key[s] /\ FoundAt(o, o[m], m)
       /\ ToSet(o) = KeysOf(t)
  BY <1>3, <1>13, OrderIs
<1>15. OrderOf(u) = Map!RemoveFirst(o, t.key[s])
  <2>1. Map!RemoveFirst(o, o[m]) = RemoveAt(o, m)
    BY <1>14, WithoutIs
  <2> QED
    BY <1>12, <1>13, <1>14, <2>1
<1>16. t.key[s] \in ToSet(o)
  BY <1>3, <1>9, <1>14 DEF KeysOf
<1>17. From(l, t.cursor) \ {s} \subseteq From(l, u.cursor) /\ u.cursor # s
  <2>1. CASE t.cursor = s
    <3>1. t.next[s] = IF m = Len(l) THEN Nil ELSE l[m + 1]
      BY <1>3, <1>6 DEF ListIs, Linked
    <3>2. From(l, s) \ {s} \subseteq From(l, t.next[s])
      BY <1>3, <1>9, <3>1, FromNext
    <3>3. m # Len(l) => m + 1 \in 1..Len(l) /\ m + 1 # m
      BY <1>9
    <3>4. Nil # s
      BY <1>3, <1>9, KeysAssumption DEF Used
    <3>5. t.next[s] # s
      BY <1>3, <1>9, <3>1, <3>3, <3>4
    <3> QED
      BY <1>7, <2>1, <3>2, <3>5
  <2>2. CASE t.cursor # s
    BY <1>7, <2>2
  <2> QED
    BY <2>1, <2>2
<1>18. From(l, t.cursor) \ {s} \subseteq From(r, u.cursor)
  <2>1. From(l, u.cursor) \ {s} \subseteq From(r, u.cursor)
    BY <1>2, <1>3, <1>9, <1>17, FromRemove
  <2> QED
    BY <1>17, <2>1
<1>19. Ahead(t) \ {t.key[s]} \subseteq Ahead(u)
  <2>1. /\ Ahead(t) = {t.key[e] : e \in From(l, t.cursor)}
        /\ From(l, t.cursor) \subseteq Used(t)
    BY AheadIs
  <2>2. Ahead(u) = {u.key[e] : e \in From(r, u.cursor)}
    BY <1>5, AheadIs
  <2> QED
    BY <1>8, <1>18, <2>1, <2>2
<1> QED
  BY <1>1, <1>3, <1>5, <1>13, <1>15, <1>16, <1>19 DEF Lost, TableOK

\* An entry put behind another one moves its key and no other.
LEMMA MoveEffect ==
    ASSUME NEW n, NEW t, NEW l, NEW C, Parts(t, n, l, C),
           NEW m \in 1..Len(l), NEW b \in 1..Len(l), b # m
    PROVE  Shifted(OrderOf(t), Ahead(t), LinkBehind(Unlink(t, l[m]), l[m], l[b]),
                   t.key[l[m]], t.key[l[b]], t.cursor # l[m])
<1>1. PICK u : u = LinkBehind(Unlink(t, l[m]), l[m], l[b])
  OBVIOUS
<1>2. PICK j : MovedBehind(t, n, l, C, m, b, j, u)
  BY <1>1, MoveParts
<1>3. PICK q : q = RemoveAt(l, m)
  OBVIOUS
<1>4. PICK s : s = l[m]
  OBVIOUS
<1>5. PICK r : r = InsertAt(q, j + 1, s)
  OBVIOUS
<1>6. j \in 1..(Len(l) - 1) /\ q[j] = l[b] /\ Parts(u, n, r, C) /\ SameIndex(t, u)
  BY <1>2, <1>3, <1>4, <1>5 DEF MovedBehind
<1>7. ListIs(t, l) /\ t.key \in [Slots -> Marks] /\ OrderOf(t) = Image(t.key, l)
  BY OrderIs DEF Parts
<1>8. /\ l \in Seq(Slots) /\ Len(l) \in Nat /\ \A x \in 1..Len(l) : l[x] \in Used(t)
      /\ \A x, y \in 1..Len(l) : l[x] = l[y] => x = y
  BY <1>7, ListedIs
<1>9. q \in Seq(Slots) /\ Len(q) = Len(l) - 1 /\ s \in Slots
  BY <1>3, <1>4, <1>8, RemoveAtProperties, ElementOfSeq
<1>10. j \in 0..Len(q)
  BY <1>6, <1>8, <1>9
<1>11. OrderOf(u) = Image(t.key, r)
  <2>1. OrderOf(u) = Image(u.key, r)
    BY <1>6, OrderIs
  <2> QED
    BY <1>6, <2>1 DEF SameIndex
<1>12. PICK o : o = OrderOf(t)
  OBVIOUS
<1>13. PICK p : p = RemoveAt(o, m)
  OBVIOUS
<1>14. p = Image(t.key, q)
  BY <1>3, <1>7, <1>8, <1>12, <1>13, ImageRemove
<1>15. OrderOf(u) = InsertAt(p, j + 1, t.key[s])
  BY <1>5, <1>7, <1>9, <1>10, <1>11, <1>14, ImageInsert
<1>16. /\ o \in Seq(Marks) /\ m \in 1..Len(o) /\ o[m] = t.key[s] /\ FoundAt(o, o[m], m)
       /\ ToSet(o) = KeysOf(t) /\ Len(o) = Len(l)
  BY <1>4, <1>12, OrderIs
<1>17. p = Map!RemoveFirst(o, t.key[s])
  BY <1>13, <1>16, WithoutIs
<1>18. p \in Seq(Marks) /\ Len(p) = Len(q) /\ \A x \in 1..Len(q) : p[x] = t.key[q[x]]
  BY <1>7, <1>9, <1>14, ImageIs
<1>19. FoundAt(p, t.key[l[b]], j)
  <2>1. j # 0 /\ j \in 1..Len(q) /\ Len(q) \in Nat
    BY <1>6, <1>8, <1>9
  <2>2. p[j] = t.key[l[b]]
    BY <1>6, <1>18, <2>1
  <2>3. \A x \in 1..Len(q) : q[x] \in Used(t)
    <3>1. \A x \in 1..(Len(l) - 1) : q[x] = IF x < m THEN l[x] ELSE l[x + 1]
      BY <1>3, <1>8, RemoveAtProperties
    <3>2. \A x \in 1..(Len(l) - 1) : x \in 1..Len(l) /\ x + 1 \in 1..Len(l)
      BY <1>8
    <3> QED
      BY <1>8, <1>9, <3>1, <3>2
  <2>4. KeysOK(t)
    BY DEF Parts
  <2>5. \A x \in 1..Len(q) : p[x] = t.key[l[b]] => q[x] = q[j]
    BY <1>6, <1>18, <2>1, <2>3, <2>4 DEF KeysOK
  <2>6. \A x, y \in 1..Len(q) : q[x] = q[y] => x = y
    <3>1. \A x \in 1..(Len(l) - 1) : q[x] = IF x < m THEN l[x] ELSE l[x + 1]
      BY <1>3, <1>8, RemoveAtProperties
    <3>2. ASSUME NEW x \in 1..(Len(l) - 1)
          PROVE  \E z \in 1..Len(l) : q[x] = l[z] /\ z = IF x < m THEN x ELSE x + 1
      <4>1. x \in 1..Len(l) /\ x + 1 \in 1..Len(l)
        BY <1>8
      <4> QED
        BY <3>1, <4>1
    <3>3. ASSUME NEW x \in 1..(Len(l) - 1), NEW y \in 1..(Len(l) - 1), q[x] = q[y]
          PROVE  x = y
      <4>1. PICK z \in 1..Len(l) : q[x] = l[z] /\ z = IF x < m THEN x ELSE x + 1
        BY <3>2
      <4>2. PICK w \in 1..Len(l) : q[y] = l[w] /\ w = IF y < m THEN y ELSE y + 1
        BY <3>2
      <4>3. z = w
        BY <1>8, <3>3, <4>1, <4>2
      <4>4. z = IF x < m THEN x ELSE x + 1
        BY <4>1
      <4>5. z = IF y < m THEN y ELSE y + 1
        BY <4>2, <4>3
      <4> QED
        BY <1>8, <4>4, <4>5
    <3> QED
      BY <1>9, <3>3
  <2>7. j \in 0..Len(p) /\ \A x \in 1..Len(p) : p[x] = t.key[l[b]] => x = j
    BY <1>10, <1>18, <2>1, <2>5, <2>6
  <2> QED
    BY <2>1, <2>2, <2>7 DEF FoundAt
<1>20. OrderOf(u) = Map!Behind(Map!RemoveFirst(o, t.key[s]), t.key[s], t.key[l[b]])
  <2>1. Map!Behind(p, t.key[s], t.key[l[b]]) = InsertAt(p, j + 1, t.key[s])
    BY <1>18, <1>19, BehindIs
  <2> QED
    BY <1>15, <1>17, <2>1
<1>21. t.key[l[b]] # t.key[s] /\ {t.key[l[b]], t.key[s]} \subseteq ToSet(o)
  <2>1. s \in Used(t) /\ l[b] \in Used(t) /\ s # l[b]
    BY <1>4, <1>8
  <2> QED
    BY <1>16, <2>1 DEF Parts, KeysOK, KeysOf
<1>22. /\ Ahead(t) = {t.key[e] : e \in From(l, t.cursor)}
       /\ From(l, t.cursor) \subseteq Used(t)
  BY AheadIs
<1>23. Ahead(u) = {t.key[e] : e \in From(r, t.cursor)}
  <2>1. Ahead(u) = {u.key[e] : e \in From(r, u.cursor)}
    BY <1>6, AheadIs
  <2>2. u.key = t.key /\ u.cursor = t.cursor
    BY <1>6 DEF SameIndex
  <2> QED
    BY <2>1, <2>2
<1>24. ASSUME t.cursor # s
       PROVE  Ahead(t) \ {t.key[s]} \subseteq Ahead(u)
  <2>1. From(l, t.cursor) \ {s} \subseteq From(q, t.cursor)
    BY <1>3, <1>4, <1>8, <1>24, FromRemove
  <2>2. From(q, t.cursor) \subseteq From(r, t.cursor)
    BY <1>5, <1>9, <1>10, FromInsert
  <2> QED
    BY <1>22, <1>23, <2>1, <2>2
<1>25. ASSUME OrderOf(u) = o
       PROVE  Ahead(t) \subseteq Ahead(u)
  <2>1. KeysOK(t)
    BY DEF Parts
  <2>2. /\ r \in Seq(Slots) /\ \A x \in 1..Len(r) : r[x] \in Used(u)
    BY <1>6, ListedIs DEF Parts
  <2>3. Used(u) = Used(t)
    BY <1>6 DEF SameIndex, Used
  <2>4. Len(r) = Len(l) /\ \A x \in 1..Len(l) : t.key[r[x]] = t.key[l[x]]
    <3>1. /\ Len(o) = Len(l) /\ \A x \in 1..Len(l) : o[x] = t.key[l[x]]
      BY <1>12, OrderIs
    <3>2. /\ Len(OrderOf(u)) = Len(r) /\ \A x \in 1..Len(r) : OrderOf(u)[x] = t.key[r[x]]
      BY <1>7, <1>11, <2>2, ImageIs
    <3> QED
      BY <1>25, <3>1, <3>2
  <2>5. \A x \in 1..Len(l) : r[x] = l[x]
    BY <1>8, <2>1, <2>2, <2>3, <2>4 DEF KeysOK
  <2>6. r = l
    BY <1>8, <2>2, <2>4, <2>5, SeqEqual
  <2> QED
    BY <1>22, <1>23, <2>6
<1> QED
  BY <1>1, <1>4, <1>6, <1>12, <1>20, <1>21, <1>24, <1>25 DEF Shifted, TableOK

\* The same keys in any order (sort).
Shuffled(o, u) ==
    TableOK(u) /\ Len(OrderOf(u)) = Len(o) /\ ToSet(OrderOf(u)) = ToSet(o)

\* A sorted list has the same keys.
LEMMA SortEffect ==
    ASSUME NEW n, NEW t, NEW l, NEW C, Parts(t, n, l, C), NEW p \in SetToSeqs(Used(t))
    PROVE  Shuffled(OrderOf(t), Sorted(t, p))
<1>1. PICK u : u = Sorted(t, p)
  OBVIOUS
<1>2. Parts(u, n, p, C) /\ SameIndex(t, u) /\ Len(p) = Len(l)
  BY <1>1, SortedParts
<1>3. Len(OrderOf(t)) = Len(l) /\ ToSet(OrderOf(t)) = KeysOf(t)
  BY OrderIs
<1>4. Len(OrderOf(u)) = Len(p) /\ ToSet(OrderOf(u)) = KeysOf(u)
  BY <1>2, OrderIs
<1>5. KeysOf(u) = KeysOf(t)
  BY <1>2 DEF SameIndex, KeysOf, Used
<1> QED
  BY <1>1, <1>2, <1>3, <1>4, <1>5 DEF Shuffled, TableOK

\* An entry with another address is the same to the script.
LEMMA RenameEffect ==
    ASSUME NEW n, NEW t, NEW l, NEW C, Parts(t, n, l, C), NEW m \in 1..Len(l),
           NEW d \in Slots \ Used(t)
    PROVE  Kept(OrderOf(t), Ahead(t), Moved(t, l[m], d))
<1>1. PICK u : u = Moved(t, l[m], d)
  OBVIOUS
<1>2. PICK r : r = [l EXCEPT ![m] = d]
  OBVIOUS
<1>3. PICK s : s = l[m]
  OBVIOUS
<1>4. (\E D : Parts(u, n, r, D)) /\ MovedTo(t, u, s, d)
  BY <1>1, <1>2, <1>3, MovedParts
<1>5. PICK D : Parts(u, n, r, D)
  BY <1>4
<1>6. ListIs(t, l) /\ t.key \in [Slots -> Marks] /\ OrderOf(t) = Image(t.key, l)
  BY OrderIs DEF Parts
<1>7. /\ l \in Seq(Slots) /\ Len(l) \in Nat /\ DOMAIN l = 1..Len(l)
      /\ \A j \in 1..Len(l) : l[j] \in Used(t)
      /\ \A s2 \in Used(t) : \E j \in 1..Len(l) : l[j] = s2
      /\ \A a, b \in 1..Len(l) : l[a] = l[b] => a = b
  BY <1>6, ListedIs
<1>8. /\ u.key = Copied(t.key, s, d, Nil)
      /\ u.cursor = IF t.cursor = s THEN d ELSE t.cursor
  BY <1>4 DEF MovedTo
<1>9. s \in Used(t) /\ s \in Slots /\ s # d
  BY <1>3, <1>7 DEF Used
<1>10. u.key[d] = t.key[s] /\ \A e \in Used(t) : e # s => u.key[e] = t.key[e]
  BY <1>6, <1>8, <1>9 DEF Copied, Used
<1>11. /\ Len(r) = Len(l)
       /\ \A j \in 1..Len(l) : r[j] = IF j = m THEN d ELSE l[j]
  BY <1>2, <1>7, ExceptSeq
<1>12. ASSUME NEW j \in 1..Len(l)
       PROVE  u.key[r[j]] = t.key[l[j]]
  <2>1. j # m => l[j] # s
    BY <1>3, <1>7
  <2> QED
    BY <1>3, <1>7, <1>10, <1>11, <2>1
<1>13. OrderOf(u) = OrderOf(t)
  <2>1. OrderOf(u) = Image(u.key, r)
    BY <1>5, OrderIs
  <2>2. Image(u.key, r) = Image(t.key, l)
    BY <1>11, <1>12 DEF Image
  <2> QED
    BY <1>6, <2>1, <2>2
<1>14. /\ Ahead(t) = {t.key[e] : e \in From(l, t.cursor)}
       /\ From(l, t.cursor) \subseteq Used(t)
       /\ t.cursor \in Used(t) \cup {Nil}
  BY AheadIs
<1>15. Ahead(u) = {u.key[e] : e \in From(r, u.cursor)}
  BY <1>5, AheadIs
<1>16. /\ \A e \in From(l, t.cursor) : e # s => e \in From(r, u.cursor)
       /\ s \in From(l, t.cursor) => d \in From(r, u.cursor)
  <2>1. ToSet(l) = Used(t) /\ IsInjective(l)
    BY <1>6 DEF ListIs, Linked
  <2>2. t.cursor \in ToSet(l) \cup {Nil} /\ Exchanged(l, m, d, r)
    BY <1>2, <1>14, <2>1 DEF Exchanged
  <2> QED
    BY <1>3, <1>7, <1>8, <2>1, <2>2, FromRename
<1>17. Ahead(t) \subseteq Ahead(u)
  BY <1>10, <1>14, <1>15, <1>16
<1> QED
  BY <1>1, <1>3, <1>5, <1>13, <1>17 DEF Kept, TableOK

\* A rebuilt index is not seen at all.
Alike(t, u) ==
    /\ OrderOf(u) = OrderOf(t) /\ Ahead(u) = Ahead(t) /\ KeysOf(u) = KeysOf(t)
    /\ Used(u) = Used(t)

\* A table with the same list looks the same to the script.
LEMMA SameIsAlike ==
    ASSUME NEW t, NEW u, SameList(t, u)
    PROVE  Alike(t, u)
<1>1. u.cursor = t.cursor
  BY DEF SameList
<1> QED
  BY <1>1, SameLook DEF Alike, Ahead

----------------------------------------------------------------------------
(* Searching for a place and making one *)

\* The table that a search for a new key leaves: enlarged when it is full.
Enlarged(t) == IF t.count + 1 > SizeOf(t) THEN Resize(t, 2 * SizeOf(t)) ELSE t

\* A full table that grows has the same list.
LEMMA EnlargedIs ==
    ASSUME NEW n, NEW t, NEW l, NEW C, Parts(t, n, l, C)
    PROVE  (\E N, D : Parts(Enlarged(t), N, l, D)) /\ SameList(t, Enlarged(t))
<1>1. Base(t, n, l) /\ n \in 1..MaxSize /\ t \in TableRec(n)
  BY PartsBase DEF Parts
<1>2. SizeOf(t) = n
  BY <1>1, SizeIs
<1>3. CASE t.count + 1 > n
  <2>1. t.count \in Nat /\ t.count <= Cardinality(Keys) /\ Cardinality(Keys) \in Nat
    BY <1>1, CountBound
  <2>2. 2 * n \in 1..MaxSize
    BY <1>1, <1>3, <2>1, SizesAssumption
  <2>3. Enlarged(t) = Resize(t, 2 * n)
    BY <1>2, <1>3 DEF Enlarged
  <2> QED
    BY <1>1, <2>2, <2>3, ResizeParts
<1>4. CASE ~(t.count + 1 > n)
  <2>1. Enlarged(t) = t
    BY <1>2, <1>4 DEF Enlarged
  <2>2. SameList(t, t)
    BY <1>1, SameEntriesList DEF SameEntries
  <2> QED
    BY <2>1, <2>2
<1> QED
  BY <1>3, <1>4

\* The table that an insertion goes into, maybe under a new hash key.
Spaced(u, i) == IF Len(Chain(u, i)) >= MaxChain THEN KeyUpdate(u) ELSE u

\* A table with a new hash key, or the same one, has the same list.
LEMMA SpacedIs ==
    ASSUME NEW n, NEW u, NEW l, NEW C, Parts(u, n, l, C), NEW i
    PROVE  (\E D : Parts(Spaced(u, i), n, l, D)) /\ SameList(u, Spaced(u, i))
<1>1. Base(u, n, l) /\ n \in 1..MaxSize /\ u \in TableRec(n)
  BY PartsBase DEF Parts
<1>2. SameList(u, u)
  BY <1>1, SameEntriesList DEF SameEntries
<1> QED
  BY <1>1, <1>2, KeyUpdateParts DEF Spaced

\* An address for a new entry is free.
LEMMA PlaceIs ==
    ASSUME NEW s \in Place
    PROVE  s = Nil \/ s \in Slots \ Used(tab)
<1>1. CASE Free = {}
  BY <1>1 DEF Place
<1>2. CASE Free # {}
  <2>1. Free \subseteq Nat
    BY SlotsAssumption DEF Free
  <2>2. Min(Free) \in Free
    BY <1>2, <2>1, MinInSet
  <2> QED
    BY <1>2, <2>2 DEF Place, Free
<1> QED
  BY <1>1, <1>2

\* First, End and Never are no addresses.
LEMMA NoAddress ==
    First \notin Slots /\ End \notin Slots /\ Never \notin Slots /\ First # End
BY SlotsAssumption, SizesAssumption DEF First, End, Never

\* The place m where the key of a new entry goes in the order o.
Wanted(o, t, m, ins) ==
    /\ ins = End => m = Len(o)
    /\ ins = First => m = 0
    /\ ins \in Slots => m # 0 /\ FoundAt(o, t.key[ins], m)

\* The place that ins asks for is one of the list.
LEMMA AskedIs ==
    ASSUME NEW n, NEW t, NEW l, NEW C, Parts(t, n, l, C),
           NEW ins \in Used(t) \cup {First, End}
    PROVE  \E m \in 0..Len(l) : Asked(l, m, ins) /\ Wanted(OrderOf(t), t, m, ins)
<1>1. /\ Len(OrderOf(t)) = Len(l) /\ Len(l) \in Nat
      /\ \A m \in 1..Len(l) : FoundAt(OrderOf(t), t.key[l[m]], m)
  BY OrderIs
<1>2. \A s \in Used(t) : \E m \in 1..Len(l) : l[m] = s
  BY ListedIs DEF Parts
<1>3. CASE ins = End
  <2>1. Asked(l, Len(l), ins) /\ Wanted(OrderOf(t), t, Len(l), ins)
    BY <1>1, <1>3, NoAddress DEF Asked, Wanted
  <2> QED
    BY <1>1, <2>1
<1>4. CASE ins = First
  <2>1. Asked(l, 0, ins) /\ Wanted(OrderOf(t), t, 0, ins)
    BY <1>1, <1>4, NoAddress DEF Asked, Wanted
  <2> QED
    BY <1>1, <2>1
<1>5. CASE ins \in Used(t)
  <2>1. PICK m \in 1..Len(l) : l[m] = ins
    BY <1>2, <1>5
  <2>2. ins \in Slots /\ ins # First /\ ins # End /\ m # 0 /\ m \in 0..Len(l)
    BY <1>1, <1>5, <2>1, NoAddress DEF Used
  <2>3. Asked(l, m, ins) /\ Wanted(OrderOf(t), t, m, ins)
    BY <1>1, <2>1, <2>2 DEF Asked, Wanted
  <2> QED
    BY <2>2, <2>3
<1> QED
  BY <1>3, <1>4, <1>5

\* The hash of a new key, of the table t before it grows or of the grown one, u.
HashFor(t, u, k, h) == h = IF k \in Strs THEN Hash(t, k) ELSE Hash(u, k)

\* The hash of a key leads to a bucket in a table of any size.
LEMMA HashLeads ==
    ASSUME NEW n \in 1..MaxSize, NEW t \in TableRec(n), NEW k \in Keys,
           NEW z \in 1..MaxSize
    PROVE  Leads(z, Hash(t, k))
<1>1. PICK h : h = Hash(t, k)
  OBVIOUS
<1>2. Leads(z, h)
  BY <1>1, HashIs DEF Leads
<1> QED
  BY <1>1, <1>2

\* The hash that czl_create_tabkv computes leads to a bucket of the table it searches.
LEMMA HashForIs ==
    ASSUME NEW n, NEW t, NEW z, NEW u, NEW l, NEW C, NEW D, Parts(t, n, l, C),
           Parts(u, z, l, D), SameList(t, u), NEW k \in Keys, NEW h, HashFor(t, u, k, h)
    PROVE  Leads(z, h) /\ SizeOf(u) = z
<1>1. n \in 1..MaxSize /\ t \in TableRec(n) /\ z \in 1..MaxSize /\ u \in TableRec(z)
  BY DEF Parts
<1>2. Leads(z, Hash(t, k)) /\ Leads(z, Hash(u, k))
  BY <1>1, HashLeads
<1>3. SizeOf(u) = z
  BY <1>1, SizeIs
<1> QED
  BY <1>2, <1>3 DEF HashFor

\* The new entry of czl_create_tabkv adds its key at the place asked for.
LEMMA NewEffect ==
    ASSUME NEW n, NEW t, NEW z, NEW u, NEW l, NEW C, NEW D, Parts(t, n, l, C),
           Parts(u, z, l, D), SameList(t, u), NEW k \in Keys \ KeysOf(t),
           NEW h, HashFor(t, u, k, h), NEW i, BucketIs(z, h, i),
           NEW w, w = Spaced(u, i), w.gen # t.gen => h = Hash(w, k),
           NEW s \in Slots \ Used(t), NEW ins \in Used(t) \cup {First, End}
    PROVE  \E m : /\ Added(OrderOf(t), Ahead(t), Insert(w, s, k, h, i, ins), m, k)
                  /\ Wanted(OrderOf(t), t, m, ins)
<1>1. BucketIs(z, h, i) /\ w = Spaced(u, i) /\ (w.gen # t.gen => h = Hash(w, k))
  OBVIOUS
<1>2. (\E E : Parts(w, z, l, E)) /\ SameList(u, w)
  BY <1>1, SpacedIs
<1>3. PICK E : Parts(w, z, l, E)
  BY <1>2
<1>4. t.gen \in Nat /\ u.gen \in Nat /\ w.gen \in Nat
  BY <1>3, HashAssumption DEF Parts, TableRec
<1>5. SameList(t, w)
  BY <1>2, <1>4, SameListTransitive
<1>6. Alike(t, w) /\ w.key = t.key
  BY <1>5, SameIsAlike DEF SameList
<1>7. h = Hash(w, k)
  <2>1. CASE w.gen = t.gen
    <3>1. u.gen = t.gen
      BY <1>2, <1>4, <2>1 DEF SameList
    <3> QED
      BY <2>1, <3>1 DEF HashFor, Hash
  <2> QED
    BY <1>1, <2>1
<1>8. KeySpot(w, z, k, h, i)
  BY <1>1, <1>7 DEF KeySpot
<1>9. s \in Slots \ Used(w) /\ k \in Keys \ KeysOf(w) /\ ins \in Used(w) \cup {First, End}
  BY <1>6 DEF Alike
<1>10. PICK m \in 0..Len(l) : Asked(l, m, ins) /\ Wanted(OrderOf(w), w, m, ins)
  BY <1>3, <1>9, AskedIs
<1>11. Added(OrderOf(w), Ahead(w), Insert(w, s, k, h, i, ins), m, k)
  BY <1>3, <1>8, <1>9, <1>10, InsertEffect
<1>12. OrderOf(w) = OrderOf(t) /\ Ahead(w) = Ahead(t)
  BY <1>6 DEF Alike
<1>13. Wanted(OrderOf(t), t, m, ins)
  BY <1>6, <1>10, <1>12 DEF Wanted
<1> QED
  BY <1>11, <1>12, <1>13

\* What a search for k that may insert it makes of a table t with the order o.
Outcome(o, f, t, k, ins, met, u) ==
    \/ Kept(o, f, u)
    \/ ins # Never /\ \E m : Added(o, f, u, m, k) /\ Wanted(o, t, m, ins)
    \/ ins \in Used(t) /\ Shifted(o, f, u, k, t.key[ins], met)

\* A key that is there stays, or moves behind the entry asked for.
LEMMA FoundEffect ==
    ASSUME NEW n, NEW t, NEW N, NEW u, NEW l, NEW C, NEW D, Parts(t, n, l, C),
           Parts(u, N, l, D), SameList(t, u), NEW p \in Used(t),
           NEW ins \in Used(t) \cup {First, End, Never},
           Found(u, p, ins), flaw' = {}
    PROVE  Outcome(OrderOf(t), Ahead(t), t, t.key[p], ins, loop, tab')
<1>1. PICK o : o = OrderOf(t)
  OBVIOUS
<1>2. PICK f : f = Ahead(t)
  OBVIOUS
<1>3. OrderOf(u) = o /\ Ahead(u) = f /\ u.key = t.key
  BY <1>1, <1>2, SameIsAlike DEF Alike, SameList
<1>4. CASE ins \in Slots /\ u.next[ins] # p
  <2>1. ins \in Used(t) /\ ins # p /\ ~(loop /\ p = u.cursor)
        /\ tab' = LinkBehind(Unlink(u, p), p, ins)
    BY <1>4, NoAddress DEF Found, Becomes
  <2>2. ListIs(t, l)
    BY DEF Parts
  <2>3. \A e \in Used(t) : \E m \in 1..Len(l) : l[m] = e
    BY <2>2, ListedIs
  <2>4. PICK m \in 1..Len(l) : l[m] = p
    BY <2>3
  <2>5. PICK b \in 1..Len(l) : l[b] = ins
    BY <2>1, <2>3
  <2>6. b # m
    BY <2>1, <2>4, <2>5
  <2>7. Shifted(o, f, tab', u.key[p], u.key[ins], u.cursor # p)
    <3>1. Shifted(OrderOf(u), Ahead(u), LinkBehind(Unlink(u, l[m]), l[m], l[b]),
                  u.key[l[m]], u.key[l[b]], u.cursor # l[m])
      BY <2>6, MoveEffect
    <3> QED
      BY <1>3, <2>1, <2>4, <2>5, <3>1
  <2>8. Shifted(o, f, tab', t.key[p], t.key[ins], loop)
    BY <1>3, <2>1, <2>7 DEF Shifted
  <2> QED
    BY <1>1, <1>2, <2>1, <2>8 DEF Outcome
<1>5. CASE ~(ins \in Slots /\ u.next[ins] # p)
  <2>1. tab' = u
    BY <1>5 DEF Found, Becomes
  <2>2. Kept(o, f, tab')
    BY <1>3, <2>1 DEF Kept, TableOK
  <2> QED
    BY <1>1, <1>2, <2>2 DEF Outcome
<1> QED
  BY <1>4, <1>5

\* A search that may insert leaves a sound table that looks as it should.
LEMMA CreateEffect ==
    ASSUME NEW n, NEW t, NEW l, NEW C, Parts(t, n, l, C), Used(t) = Used(tab),
           NEW k \in Keys, NEW ins \in Used(t) \cup {First, End, Never},
           Create(t, k, ins), flaw' = {}
    PROVE  Outcome(OrderOf(t), Ahead(t), t, k, ins, loop, tab')
<1>1. PICK u : u = Enlarged(t)
  OBVIOUS
<1>2. (\E z, D : Parts(u, z, l, D)) /\ SameList(t, u)
  BY <1>1, EnlargedIs
<1>3. PICK z, D : Parts(u, z, l, D)
  BY <1>2
<1>4. Alike(t, u) /\ u.key = t.key
  BY <1>2, SameIsAlike DEF SameList
<1>5. CASE Becomes(t)
  <2>1. Kept(OrderOf(t), Ahead(t), t)
    BY DEF Kept, TableOK
  <2> QED
    BY <1>5, <2>1 DEF Becomes, Outcome
<1>6. CASE Becomes(u)
  <2>1. Kept(OrderOf(t), Ahead(t), u)
    BY <1>3, <1>4 DEF Kept, TableOK, Alike
  <2> QED
    BY <1>6, <2>1 DEF Becomes, Outcome
<1>7. ASSUME NEW h, HashFor(t, u, k, h), NEW i, BucketIs(SizeOf(u), h, i),
             NEW p, p = Lookup(u, k, h),
             Found(u, p, ins) \/ IF ins = Never THEN Missed(u, k, p)
                                 ELSE New(t, u, k, h, i, p, ins)
      PROVE  Outcome(OrderOf(t), Ahead(t), t, k, ins, loop, tab')
  <2>1. Leads(z, h) /\ SizeOf(u) = z
    BY <1>2, <1>3, <1>7, HashForIs
  <2>2. /\ p \in Used(u) \cup {Nil}
        /\ p # Nil => u.key[p] = k
    BY <1>3, <1>7, <2>1, LookupIs
  <2>3. CASE Found(u, p, ins)
    <3>1. p \in Used(t) /\ t.key[p] = k
      BY <1>4, <2>2, <2>3 DEF Found, Alike
    <3> QED
      BY <1>2, <1>3, <2>3, <3>1, FoundEffect
  <2>4. CASE ins = Never /\ Missed(u, k, p)
    BY <1>6, <2>4 DEF Missed
  <2>5. CASE ins # Never /\ New(t, u, k, h, i, p, ins)
    <3>1. PICK w : w = Spaced(u, i)
      OBVIOUS
    <3>2. PICK s \in Place :
             \/ s = Nil /\ Becomes(w)
             \/ /\ s # Nil /\ Becomes(Insert(w, s, k, h, i, ins))
                /\ ~(Find(u, k) # Nil \/ (w.gen # t.gen /\ h # Hash(w, k)))
      BY <2>5, <3>1 DEF New, Spaced
    <3>3. CASE s = Nil /\ Becomes(w)
      <4>1. (\E E : Parts(w, z, l, E)) /\ SameList(u, w)
        BY <1>3, <3>1, SpacedIs
      <4>2. Alike(u, w)
        BY <4>1, SameIsAlike
      <4>3. Kept(OrderOf(t), Ahead(t), w)
        BY <1>4, <4>1, <4>2 DEF Kept, TableOK, Alike
      <4> QED
        BY <3>3, <4>3 DEF Becomes, Outcome
    <3>4. CASE s # Nil /\ Becomes(Insert(w, s, k, h, i, ins))
      <4>1. s \in Slots \ Used(t)
        BY <3>4, PlaceIs
      <4>2. k \notin KeysOf(t)
        <5>1. Find(u, k) = Nil
          BY <3>2, <3>4
        <5>2. k \notin KeysOf(u)
          BY <1>3, <5>1, FindIs
        <5> QED
          BY <1>4, <5>2 DEF Alike
      <4>3. w.gen # t.gen => h = Hash(w, k)
        BY <3>2, <3>4
      <4>4. BucketIs(z, h, i) /\ ins \in Used(t) \cup {First, End}
        BY <1>7, <2>1, <2>5
      <4>5. \E m : /\ Added(OrderOf(t), Ahead(t), Insert(w, s, k, h, i, ins), m, k)
                   /\ Wanted(OrderOf(t), t, m, ins)
        BY <1>2, <1>3, <1>7, <3>1, <4>1, <4>2, <4>3, <4>4, NewEffect
      <4> QED
        BY <2>5, <3>4, <4>5 DEF Becomes, Outcome
    <3> QED
      BY <3>2, <3>3, <3>4
  <2> QED
    BY <1>7, <2>3, <2>4, <2>5
<1>8. \/ Becomes(t)
      \/ \E h \in {IF k \in Strs THEN Hash(t, k) ELSE Hash(u, k)} :
         \E i \in {IndexOf[SizeOf(u)][h]}, p \in {Lookup(u, k, h)} :
            Found(u, p, ins) \/ IF ins = Never THEN Missed(u, k, p)
                                ELSE New(t, u, k, h, i, p, ins)
  BY <1>1 DEF Create, Enlarged
<1> QED
  BY <1>5, <1>7, <1>8 DEF HashFor, BucketIs

----------------------------------------------------------------------------
(* The steps *)

\* What a step from a state with the invariant must do.
StepOK ==
    /\ order' = OrderOf(tab')
    /\ shared' \in BOOLEAN /\ loop' \in BOOLEAN
    /\ flaw' = {} => /\ TableOK(tab')
                     /\ loop' => todo' \subseteq Ahead(tab')
                     /\ Map!Next \/ UNCHANGED vars

\* The table that a write goes to is the same table, or a copy that looks so.
LEMMA OwnIs ==
    ASSUME NEW n, NEW l, NEW C, Parts(tab, n, l, C)
    PROVE  /\ \E D : Parts(Own, n, l, D)
           /\ SameEntries(tab, Own) /\ SameList(tab, Own) /\ Alike(tab, Own)
<1>1. Base(tab, n, l) /\ n \in 1..MaxSize /\ tab \in TableRec(n)
  BY PartsBase DEF Parts
<1>2. (\E D : Parts(Own, n, l, D)) /\ SameEntries(tab, Own)
  <2>1. SizeOf(tab) = n
    BY <1>1, SizeIs
  <2>2. CASE shared
    <3>1. Own = Rehash(tab, n)
      BY <2>1, <2>2 DEF Own, Fork
    <3> QED
      BY <1>1, <3>1, RehashParts
  <2>3. CASE ~shared
    BY <2>3 DEF Own, SameEntries
  <2> QED
    BY <2>2, <2>3
<1>3. SameList(tab, Own)
  BY <1>1, <1>2, SameEntriesList
<1>4. Alike(tab, Own)
  BY <1>3, SameIsAlike
<1> QED
  BY <1>2, <1>3, <1>4

\* Steps of the ordered map.
LEMMA MapAdd ==
    ASSUME order \in Seq(Marks), NEW f, NEW u, order' = OrderOf(u), NEW k \in Keys,
           NEW m, m = Len(order), Added(order, f, u, m, k)
    PROVE  Map!Add(k)
<1>1. k \notin ToSet(order) /\ order' = InsertAt(order, Len(order) + 1, k) /\ k \in Marks
  BY DEF Added, Marks
<1>2. order' = Append(order, k)
  BY <1>1, InsertLast
<1> QED
  BY <1>1, <1>2 DEF Map!Add, Map!Present, Map!ToSet, ToSet

\* A key added behind another one, or first, is a step PutBehind.
LEMMA MapPut ==
    ASSUME order \in Seq(Marks), NEW f, NEW u, order' = OrderOf(u), NEW k \in Keys,
           NEW a \in Keys, NEW m, FoundAt(order, a, m), Added(order, f, u, m, k)
    PROVE  Map!PutBehind(k, a)
<1>1. k \notin ToSet(order) /\ order' = InsertAt(order, m + 1, k)
  BY DEF Added
<1>2. order' = Map!Behind(order, k, a)
  BY <1>1, BehindIs
<1> QED
  BY <1>1, <1>2 DEF Map!PutBehind, Map!Present, Map!ToSet, ToSet

\* A key moved behind another one is a step MoveBehind.
LEMMA MapMove ==
    ASSUME NEW f, NEW u, order' = OrderOf(u), NEW k \in Keys, NEW a \in Keys, NEW met,
           Shifted(order, f, u, k, a, met)
    PROVE  Map!MoveBehind(k, a)
<1>1. /\ a # k /\ {a, k} \subseteq ToSet(order)
      /\ order' = Map!Behind(Map!RemoveFirst(order, k), k, a)
  BY DEF Shifted
<1> QED
  BY <1>1 DEF Map!MoveBehind, Map!Present, Map!ToSet, ToSet, Map!Without

\* A key taken away is a step Delete.
LEMMA MapDelete ==
    ASSUME NEW f, NEW u, order' = OrderOf(u), NEW k \in Keys, Lost(order, f, u, k),
           call' = <<"delete", k>>
    PROVE  Map!Next
<1>1. k \in ToSet(order) /\ order' = Map!RemoveFirst(order, k)
  BY DEF Lost
<1>2. Map!Delete(k)
  BY <1>1 DEF Map!Delete, Map!Present, Map!ToSet, ToSet, Map!Without
<1> QED
  BY <1>2 DEF Map!Next

\* The same keys in some order are a step Sort.
LEMMA MapSort ==
    ASSUME NEW u, order' = OrderOf(u), Shuffled(order, u), call' = <<"sort">>
    PROVE  Map!Next
<1>1. Len(order') = Len(order) /\ ToSet(order') = ToSet(order)
  BY DEF Shuffled
<1>2. Map!Sort
  BY <1>1 DEF Map!Sort, Map!Present, Map!ToSet, ToSet
<1> QED
  BY <1>2 DEF Map!Next

\* No keys any more is a step Clear.
LEMMA MapClear ==
    ASSUME order' = <<>>, call' = <<"clear">>
    PROVE  Map!Next
BY DEF Map!Next, Map!Clear

\* A search changes nothing, an assignment or a union adds the key it names.
LEMMA MapCall ==
    ASSUME NEW k \in Keys
    PROVE  /\ call' = <<"read", k>> /\ order' = order => Map!Next
           /\ call' = <<"assign", k>> /\ (Map!Add(k) \/ order' = order) => Map!Next
           /\ call' = <<"unite", k>> /\ Map!Add(k) => Map!Next
BY DEF Map!Next, Map!Read, Map!Assign, Map!Unite

\* An insertion puts the key where it was asked for, or changes nothing.
LEMMA MapIns ==
    ASSUME NEW a \in Keys, NEW k \in Keys, call' = <<"ins", a, k>>,
           Map!PutBehind(k, a) \/ Map!MoveBehind(k, a) \/ order' = order
    PROVE  Map!Next
BY DEF Map!Next, Map!Ins

\* A step that is seen by no call.
LEMMA MapUnseen ==
    ASSUME call' = Unseen, order' = order
    PROVE  Map!Next
BY DEF Map!Next, Map!Unseen, Unseen

\* What the invariant says of the table before a step of a sound one.
SoundTable(n, l, C) ==
    /\ Parts(tab, n, l, C) /\ order = OrderOf(tab)
    /\ loop => todo \subseteq Ahead(tab)

\* A sound table has parts, and the loop's keys ahead of its cursor.
LEMMA SoundIs ==
    ASSUME TableInv, Sound
    PROVE  /\ \E n, l, C : SoundTable(n, l, C)
           /\ shared \in BOOLEAN /\ loop \in BOOLEAN
BY DEF TableInv, TableOK, SoundTable, Ahead

\* A key is that of an entry, or of none.
LEMMA FindEntry ==
    ASSUME NEW n, NEW t, NEW l, NEW C, Parts(t, n, l, C), NEW k \in Keys
    PROVE  \/ /\ Find(t, k) = Nil /\ k \notin ToSet(OrderOf(t))
              /\ FoundAt(OrderOf(t), k, 0)
           \/ /\ Find(t, k) \in Used(t) /\ t.key[Find(t, k)] = k
              /\ \E m \in 1..Len(l) : l[m] = Find(t, k)
<1>1. /\ Find(t, k) \in Used(t) \cup {Nil}
      /\ Find(t, k) # Nil => t.key[Find(t, k)] = k
      /\ Find(t, k) = Nil <=> k \notin KeysOf(t)
  BY FindIs
<1>2. \A s \in Used(t) : \E m \in 1..Len(l) : l[m] = s
  BY ListedIs DEF Parts
<1>3. OrderOf(t) \in Seq(Marks) /\ ToSet(OrderOf(t)) = KeysOf(t)
  BY OrderIs
<1>4. PICK o : o = OrderOf(t)
  OBVIOUS
<1>5. Len(o) \in Nat /\ DOMAIN o = 1..Len(o)
  BY <1>3, <1>4, LenProperties
<1>6. k \notin ToSet(o) => FoundAt(o, k, 0)
  BY <1>5, NotFound
<1> QED
  BY <1>1, <1>2, <1>3, <1>4, <1>6

\* czl_create_tabkv leaves a table and the order read off it.
LEMMA CreateBecomes ==
    ASSUME NEW t, NEW k, NEW ins, Create(t, k, ins)
    PROVE  order' = OrderOf(tab')
<1>1. \A u : Becomes(u) => order' = OrderOf(tab')
  BY DEF Becomes
<1>2. \A u, p : Found(u, p, ins) => order' = OrderOf(tab')
  BY <1>1 DEF Found
<1>3. \A u, p : Missed(u, k, p) => order' = OrderOf(tab')
  BY <1>1 DEF Missed
<1>4. \A u, h, i, p : New(t, u, k, h, i, p, ins) => order' = OrderOf(tab')
  BY <1>1 DEF New
<1> QED
  BY <1>1, <1>2, <1>3, <1>4 DEF Create

\* x = t[k].
LEMMA ReadStep ==
    ASSUME TableInv, NEW k \in Keys, Read(k)
    PROVE  StepOK
<1>1. /\ Sound /\ Create(tab, k, Never) /\ UNCHANGED <<shared, loop, todo>>
      /\ call' = <<"read", k>>
  BY DEF Read
<1>2. /\ \E n, l, C : SoundTable(n, l, C)
      /\ shared \in BOOLEAN /\ loop \in BOOLEAN
  BY <1>1, SoundIs
<1>3. PICK n, l, C : SoundTable(n, l, C)
  BY <1>2
<1>4. order' = OrderOf(tab')
  BY <1>1, CreateBecomes
<1>5. ASSUME flaw' = {}
      PROVE  Kept(order, Ahead(tab), tab')
  <2>1. Parts(tab, n, l, C) /\ order = OrderOf(tab)
    BY <1>3 DEF SoundTable
  <2>2. Outcome(OrderOf(tab), Ahead(tab), tab, k, Never, loop, tab')
    BY <1>1, <1>5, <2>1, CreateEffect
  <2>3. Never \notin Used(tab)
    BY NoAddress DEF Used
  <2> QED
    BY <2>1, <2>2, <2>3 DEF Outcome
<1>6. flaw' = {} => Map!Next
  BY <1>1, <1>3, <1>4, <1>5, MapCall DEF SoundTable, Kept
<1> QED
  BY <1>1, <1>2, <1>3, <1>4, <1>5, <1>6 DEF StepOK, SoundTable, Kept

\* What a write starts from: a table that looks like the one of the script.
Written(n, l, t, D) ==
    /\ Parts(t, n, l, D) /\ SameEntries(tab, t) /\ SizeOf(tab) = n
    /\ OrderOf(t) = order /\ Ahead(t) = Ahead(tab)
    /\ Used(t) = Used(tab) /\ KeysOf(t) = KeysOf(tab) /\ order \in Seq(Marks)

\* The table a write goes to has the parts and the looks of the one there was.
LEMMA WrittenIs ==
    ASSUME TableInv, Sound, NEW t, t = Own
    PROVE  /\ \E n, l, D : Written(n, l, t, D)
           /\ loop => todo \subseteq Ahead(tab)
           /\ shared \in BOOLEAN /\ loop \in BOOLEAN
<1>1. /\ \E n, l, C : SoundTable(n, l, C)
      /\ shared \in BOOLEAN /\ loop \in BOOLEAN
  BY SoundIs
<1>2. PICK n, l, C : SoundTable(n, l, C)
  BY <1>1
<1>3. Parts(tab, n, l, C) /\ order = OrderOf(tab) /\ (loop => todo \subseteq Ahead(tab))
  BY <1>2 DEF SoundTable
<1>4. (\E D : Parts(t, n, l, D)) /\ SameEntries(tab, t) /\ Alike(tab, t)
  BY <1>3, OwnIs
<1>5. PICK D : Parts(t, n, l, D)
  BY <1>4
<1>6. order \in Seq(Marks)
  BY <1>3, OrderIs
<1>7. SizeOf(tab) = n
  BY <1>3, SizeIs DEF Parts
<1>8. Written(n, l, t, D)
  BY <1>3, <1>4, <1>5, <1>6, <1>7 DEF Written, Alike
<1> QED
  BY <1>1, <1>3, <1>8

\* t[k] = v.
LEMMA AssignStep ==
    ASSUME TableInv, NEW k \in Keys, Assign(k)
    PROVE  StepOK
<1>1. PICK t : t = Own
  OBVIOUS
<1>2. /\ Sound /\ Create(t, k, End) /\ shared' = FALSE /\ UNCHANGED <<loop, todo>>
      /\ call' = <<"assign", k>>
  BY <1>1 DEF Assign
<1>3. /\ \E n, l, D : Written(n, l, t, D)
      /\ loop => todo \subseteq Ahead(tab)
      /\ loop \in BOOLEAN
  BY <1>1, <1>2, WrittenIs
<1>4. PICK n, l, D : Written(n, l, t, D)
  BY <1>3
<1>5. order' = OrderOf(tab')
  BY <1>2, CreateBecomes
<1>6. ASSUME flaw' = {}
      PROVE  /\ TableOK(tab') /\ Ahead(tab) \subseteq Ahead(tab')
             /\ Map!Next
  <2>1. /\ Parts(t, n, l, D) /\ OrderOf(t) = order /\ Ahead(t) = Ahead(tab)
        /\ Used(t) = Used(tab) /\ order \in Seq(Marks)
    BY <1>4 DEF Written
  <2>2. Outcome(order, Ahead(tab), t, k, End, loop, tab')
    BY <1>2, <1>6, <2>1, CreateEffect
  <2>3. End \notin Used(t)
    BY NoAddress DEF Used
  <2>4. CASE Kept(order, Ahead(tab), tab')
    BY <1>2, <1>5, <2>4, MapCall DEF Kept
  <2>5. CASE \E m : Added(order, Ahead(tab), tab', m, k) /\ Wanted(order, t, m, End)
    <3>1. PICK m : Added(order, Ahead(tab), tab', m, k) /\ Wanted(order, t, m, End)
      BY <2>5
    <3>2. m = Len(order)
      BY <3>1 DEF Wanted
    <3>3. Map!Add(k)
      BY <1>5, <2>1, <3>1, <3>2, MapAdd
    <3> QED
      BY <1>2, <3>1, <3>3, MapCall DEF Added
  <2> QED
    BY <2>2, <2>3, <2>4, <2>5 DEF Outcome
<1> QED
  BY <1>2, <1>3, <1>5, <1>6 DEF StepOK

\* ins(t, a, k, v).
LEMMA InsStep ==
    ASSUME TableInv, NEW a \in Keys, NEW k \in Keys, Ins(a, k)
    PROVE  StepOK
<1>1. PICK t : t = Own
  OBVIOUS
<1>2. PICK p : p = Find(t, a)
  OBVIOUS
<1>3. PICK ins : ins = IF p = Nil THEN First ELSE p
  OBVIOUS
<1>4. /\ Sound /\ Create(t, k, ins) /\ shared' = FALSE /\ UNCHANGED loop
      /\ todo' = IF order' = order THEN todo ELSE todo \ {k}
      /\ call' = <<"ins", a, k>>
  BY <1>1, <1>2, <1>3 DEF Ins
<1>5. /\ \E n, l, D : Written(n, l, t, D)
      /\ loop => todo \subseteq Ahead(tab)
      /\ loop \in BOOLEAN
  BY <1>1, <1>4, WrittenIs
<1>6. PICK n, l, D : Written(n, l, t, D)
  BY <1>5
<1>7. order' = OrderOf(tab')
  BY <1>4, CreateBecomes
<1>8. ASSUME flaw' = {}
      PROVE  /\ TableOK(tab') /\ (loop => todo' \subseteq Ahead(tab'))
             /\ Map!Next
  <2>1. /\ Parts(t, n, l, D) /\ OrderOf(t) = order /\ Ahead(t) = Ahead(tab)
        /\ Used(t) = Used(tab) /\ order \in Seq(Marks)
    BY <1>6 DEF Written
  <2>2. \/ p = Nil /\ FoundAt(order, a, 0)
        \/ p \in Used(t) /\ t.key[p] = a
    BY <1>2, <2>1, FindEntry
  <2>3. Nil \notin Used(t)
    BY KeysAssumption DEF Used
  <2>4. /\ ins \in Used(t) \cup {First, End, Never} /\ ins \notin {End, Never}
        /\ p = Nil => ins = First /\ ins \notin Used(t)
        /\ p # Nil => ins = p /\ ins \in Slots
    BY <1>3, <2>2, <2>3, NoAddress DEF Used, First, End, Never
  <2>5. Outcome(order, Ahead(tab), t, k, ins, loop, tab')
    BY <1>4, <1>8, <2>1, <2>4, CreateEffect
  <2>6. CASE Kept(order, Ahead(tab), tab')
    BY <1>4, <1>5, <1>7, <2>6, MapIns DEF Kept
  <2>7. CASE \E m : Added(order, Ahead(tab), tab', m, k) /\ Wanted(order, t, m, ins)
    <3>1. PICK m : Added(order, Ahead(tab), tab', m, k) /\ Wanted(order, t, m, ins)
      BY <2>7
    <3>2. FoundAt(order, a, m)
      BY <2>2, <2>3, <2>4, <3>1 DEF Wanted
    <3>3. Map!PutBehind(k, a)
      BY <1>7, <2>1, <3>1, <3>2, MapPut
    <3>4. TableOK(tab') /\ Ahead(tab) \subseteq Ahead(tab')
      BY <3>1 DEF Added
    <3> QED
      BY <1>4, <1>5, <3>3, <3>4, MapIns
  <2>8. CASE ins \in Used(t) /\ Shifted(order, Ahead(tab), tab', k, t.key[ins], loop)
    <3>1. t.key[ins] = a
      BY <2>2, <2>4, <2>8
    <3>2. Shifted(order, Ahead(tab), tab', k, a, loop)
      BY <2>8, <3>1
    <3>3. Map!MoveBehind(k, a)
      BY <1>7, <3>2, MapMove
    <3>4. /\ TableOK(tab') /\ (loop => Ahead(tab) \ {k} \subseteq Ahead(tab'))
          /\ order' = order => Ahead(tab) \subseteq Ahead(tab')
      BY <1>7, <3>2 DEF Shifted
    <3> QED
      BY <1>4, <1>5, <3>3, <3>4, MapIns
  <2> QED
    BY <2>5, <2>6, <2>7, <2>8 DEF Outcome
<1> QED
  BY <1>4, <1>5, <1>7, <1>8 DEF StepOK

\* k => t.
LEMMA DeleteStep ==
    ASSUME TableInv, NEW k \in Keys, Delete(k)
    PROVE  StepOK
<1>1. PICK t : t = Own
  OBVIOUS
<1>2. PICK p : p = Find(t, k)
  OBVIOUS
<1>3. PICK i : i = IndexOf[SizeOf(tab)][Hash(tab, k)]
  OBVIOUS
<1>4. PICK u : u = Cut(t, p, i)
  OBVIOUS
<1>5. /\ Sound /\ Find(tab, k) # Nil
      /\ \/ Becomes(u)
         \/ SizeOf(u) >= 16 /\ Becomes(Resize(u, SizeOf(u) \div 2))
      /\ shared' = FALSE /\ todo' = todo \ {k} /\ UNCHANGED <<loop, flaw>>
      /\ call' = <<"delete", k>>
  BY <1>1, <1>2, <1>3, <1>4 DEF Delete
<1>6. /\ \E n, l, D : Written(n, l, t, D)
      /\ loop => todo \subseteq Ahead(tab)
      /\ loop \in BOOLEAN
  BY <1>1, <1>5, WrittenIs
<1>7. PICK n, l, D : Written(n, l, t, D)
  BY <1>6
<1>8. /\ Parts(t, n, l, D) /\ OrderOf(t) = order /\ Ahead(t) = Ahead(tab)
      /\ KeysOf(t) = KeysOf(tab) /\ SizeOf(tab) = n /\ t.gen = tab.gen
  BY <1>7 DEF Written, SameEntries
<1>9. k \in ToSet(order)
  <2>1. \E x, y, z : Parts(tab, x, y, z)
    BY <1>5 DEF TableInv, TableOK
  <2>2. k \in KeysOf(tab)
    BY <1>5, <2>1, FindIs
  <2> QED
    BY <1>8, <2>2, OrderIs
<1>10. PICK m \in 1..Len(l) : l[m] = p /\ t.key[p] = k
  BY <1>2, <1>8, <1>9, FindEntry
<1>11. SpotIs(t, n, l[m], i)
  BY <1>3, <1>8, <1>10 DEF SpotIs, Hash
<1>12. Lost(order, Ahead(tab), u, k)
  <2>1. Lost(OrderOf(t), Ahead(t), Cut(t, l[m], i), t.key[l[m]])
    BY <1>8, <1>11, CutEffect
  <2> QED
    BY <1>4, <1>8, <1>10, <2>1
<1>13. PICK v : v = Resize(u, SizeOf(u) \div 2)
  OBVIOUS
<1>14. SizeOf(u) >= 16 => Lost(order, Ahead(tab), v, k)
  <2>1. PICK x, y, z : Parts(u, x, y, z)
    BY <1>12 DEF Lost, TableOK
  <2>2. Base(u, x, y) /\ SizeOf(u) = x /\ x \in 1..MaxSize
    BY <2>1, PartsBase, SizeIs DEF Parts
  <2>3. CASE SizeOf(u) >= 16
    <3>1. x \div 2 \in 1..MaxSize
      BY <2>2, <2>3, SizesAssumption
    <3>2. (\E E : Parts(v, x \div 2, y, E)) /\ SameList(u, v)
      BY <1>13, <2>2, <3>1, ResizeParts
    <3>3. Alike(u, v)
      BY <3>2, SameIsAlike
    <3> QED
      BY <1>12, <3>2, <3>3 DEF Lost, TableOK, Alike
  <2> QED
    BY <2>3
<1>15. order' = OrderOf(tab') /\ Lost(order, Ahead(tab), tab', k)
  BY <1>5, <1>12, <1>13, <1>14 DEF Becomes
<1>16. Map!Next
  BY <1>5, <1>15, MapDelete
<1>17. TableOK(tab') /\ (loop' => todo' \subseteq Ahead(tab'))
  BY <1>5, <1>6, <1>15 DEF Lost
<1> QED
  BY <1>5, <1>6, <1>15, <1>16, <1>17 DEF StepOK

\* t += u, one entry of u.
LEMMA UniteStep ==
    ASSUME TableInv, NEW k \in Keys, NEW g \in 0..LastGen, Unite(k, g)
    PROVE  StepOK
<1>1. PICK t : t = Own
  OBVIOUS
<1>2. PICK h : h = IF k \in Strs THEN HashOf[k][g + 1] ELSE Hash(tab, k)
  OBVIOUS
<1>3. PICK i : i = IndexOf[SizeOf(t)][h]
  OBVIOUS
<1>4. PICK s \in Place \ {Nil} : Becomes(Insert(t, s, k, h, i, End))
  BY <1>1, <1>2, <1>3 DEF Unite
<1>5. /\ Sound
      /\ flaw' = IF k \in KeysOf(tab) \/ h # Hash(tab, k) THEN {"union"} ELSE {}
      /\ shared' = FALSE /\ UNCHANGED <<loop, todo>>
      /\ call' = <<"unite", k>>
  BY <1>1, <1>2 DEF Unite
<1>6. /\ \E n, l, D : Written(n, l, t, D)
      /\ loop => todo \subseteq Ahead(tab)
      /\ loop \in BOOLEAN
  BY <1>1, <1>5, WrittenIs
<1>7. PICK n, l, D : Written(n, l, t, D)
  BY <1>6
<1>8. /\ Parts(t, n, l, D) /\ OrderOf(t) = order /\ Ahead(t) = Ahead(tab)
      /\ KeysOf(t) = KeysOf(tab) /\ Used(t) = Used(tab) /\ t.gen = tab.gen
      /\ order \in Seq(Marks)
  BY <1>7 DEF Written, SameEntries
<1>9. ASSUME flaw' = {}
      PROVE  /\ TableOK(tab') /\ Ahead(tab) \subseteq Ahead(tab')
             /\ Map!Next
  <2>1. k \notin KeysOf(tab) /\ h = Hash(tab, k)
    BY <1>5, <1>9
  <2>2. SizeOf(t) = n
    BY <1>8, SizeIs DEF Parts
  <2>3. KeySpot(t, n, k, h, i)
    BY <1>3, <1>8, <2>1, <2>2 DEF KeySpot, BucketIs, Hash
  <2>4. s \in Slots \ Used(t) /\ k \in Keys \ KeysOf(t)
    BY <1>8, <2>1, PlaceIs
  <2>5. PICK m \in 0..Len(l) : Asked(l, m, End) /\ Wanted(OrderOf(t), t, m, End)
    BY <1>8, AskedIs
  <2>6. Added(OrderOf(t), Ahead(t), Insert(t, s, k, h, i, End), m, k)
    BY <1>8, <2>3, <2>4, <2>5, InsertEffect
  <2>7. Added(order, Ahead(tab), tab', m, k) /\ m = Len(order)
    BY <1>4, <1>8, <2>5, <2>6 DEF Becomes, Wanted
  <2>8. order' = OrderOf(tab')
    BY <1>4 DEF Becomes
  <2>9. Map!Add(k)
    BY <1>8, <2>7, <2>8, MapAdd
  <2> QED
    BY <1>5, <2>7, <2>9, MapCall DEF Added
<1>10. order' = OrderOf(tab')
  BY <1>4 DEF Becomes
<1> QED
  BY <1>5, <1>6, <1>9, <1>10 DEF StepOK

\* sort(t).
LEMMA SortStep ==
    ASSUME TableInv, Sort
    PROVE  StepOK
<1>1. PICK t : t = Own
  OBVIOUS
<1>2. PICK p \in SetToSeqs(Used(t)) : Becomes(Sorted(t, p))
  BY <1>1 DEF Sort
<1>3. /\ Sound /\ shared' = FALSE /\ todo' = {} /\ UNCHANGED <<loop, flaw>>
      /\ call' = <<"sort">>
  BY DEF Sort
<1>4. (\E n, l, D : Written(n, l, t, D)) /\ loop \in BOOLEAN
  BY <1>1, <1>3, WrittenIs
<1>5. PICK n, l, D : Written(n, l, t, D)
  BY <1>4
<1>6. Parts(t, n, l, D) /\ OrderOf(t) = order
  BY <1>5 DEF Written
<1>7. Shuffled(order, Sorted(t, p))
  BY <1>6, SortEffect
<1>8. order' = OrderOf(tab') /\ Shuffled(order, tab')
  BY <1>2, <1>7 DEF Becomes
<1>9. Map!Next
  BY <1>3, <1>8, MapSort
<1> QED
  BY <1>3, <1>4, <1>8, <1>9 DEF StepOK, Shuffled

\* A loop goes on to the entry after s.
GoneOn(t, u, s) == u = [t EXCEPT !.cursor = t.next[s]]

\* The table stays the same; only the key that is left is no longer ahead.
LEMMA CursorEffect ==
    ASSUME NEW n, NEW t, NEW l, NEW C, Parts(t, n, l, C), NEW m \in 1..Len(l),
           NEW u, GoneOn(t, u, l[m])
    PROVE  /\ TableOK(u) /\ OrderOf(u) = OrderOf(t)
           /\ {t.key[e] : e \in From(l, l[m])} \ {t.key[l[m]]} \subseteq Ahead(u)
<1>1. n \in 1..MaxSize /\ t \in TableRec(n) /\ KeysOK(t) /\ ListIs(t, l)
  BY DEF Parts
<1>2. /\ l \in Seq(Slots) /\ Len(l) \in Nat /\ \A j \in 1..Len(l) : l[j] \in Used(t)
  BY <1>1, ListedIs
<1>3. IsInjective(l) /\ \A j \in 1..Len(l) : t.next[l[j]] = IF j = Len(l) THEN Nil ELSE l[j + 1]
  BY <1>1 DEF ListIs, Linked
<1>4. PICK c : c = t.next[l[m]]
  OBVIOUS
<1>5. c = (IF m = Len(l) THEN Nil ELSE l[m + 1]) /\ c \in Used(t) \cup {Nil}
  <2>1. m # Len(l) => m + 1 \in 1..Len(l)
    BY <1>2
  <2> QED
    BY <1>2, <1>3, <1>4, <2>1
<1>6. c \in Refs
  BY <1>5 DEF Used, Refs
<1>7. /\ u \in TableRec(n) /\ u.cursor = c
      /\ u.key = t.key /\ u.hash = t.hash /\ u.gen = t.gen /\ u.count = t.count
      /\ u.next = t.next /\ u.last = t.last /\ u.head = t.head /\ u.tail = t.tail
      /\ u.down = t.down /\ u.up = t.up /\ u.bucket = t.bucket
  BY <1>1, <1>4, <1>6 DEF TableRec, GoneOn
<1>8. Used(u) = Used(t) /\ \A k : Hash(u, k) = Hash(t, k)
  BY <1>7 DEF Used, Hash
<1>9. KeysOK(u)
  BY <1>1, <1>7, <1>8 DEF KeysOK
<1>10. ListIs(u, l)
  BY <1>1, <1>5, <1>7, <1>8 DEF ListIs
<1>11. Spots(u, n) = Spots(t, n)
  BY <1>7, <1>8 DEF Spots
<1>12. InBuckets(u, n, Spots(u, n), C)
  BY <1>7, <1>11 DEF Parts, InBuckets
<1>13. Parts(u, n, l, C)
  BY <1>1, <1>7, <1>9, <1>10, <1>12 DEF Parts
<1>14. OrderOf(u) = OrderOf(t)
  <2>1. OrderOf(u) = Image(u.key, l)
    BY <1>13, OrderIs
  <2>2. OrderOf(t) = Image(t.key, l)
    BY OrderIs
  <2>3. u.key = t.key
    BY <1>7
  <2> QED
    BY <2>1, <2>2, <2>3
<1>15. From(l, l[m]) \ {l[m]} \subseteq From(l, c)
  BY <1>2, <1>3, <1>5, FromNext
<1>16. Ahead(u) = {t.key[e] : e \in From(l, c)}
  <2>1. Ahead(u) = {u.key[e] : e \in From(l, u.cursor)}
    BY <1>13, AheadIs
  <2>2. u.key = t.key /\ u.cursor = c
    BY <1>7
  <2> QED
    BY <2>1, <2>2
<1> QED
  BY <1>13, <1>14, <1>15, <1>16 DEF TableOK

\* A foreach begins.
LEMMA LoopBeginStep ==
    ASSUME TableInv, LoopBegin
    PROVE  StepOK
<1>1. /\ Sound /\ tab.head # Nil
      /\ Becomes([tab EXCEPT !.cursor = tab.next[tab.head]])
      /\ loop' = TRUE /\ todo' = KeysOf(tab) \ {tab.key[tab.head]} /\ shared' = shared
      /\ call' = Unseen
  BY DEF LoopBegin
<1>2. (\E n, l, C : SoundTable(n, l, C)) /\ shared \in BOOLEAN
  BY <1>1, SoundIs
<1>3. PICK n, l, C : SoundTable(n, l, C)
  BY <1>2
<1>4. Parts(tab, n, l, C) /\ order = OrderOf(tab)
  BY <1>3 DEF SoundTable
<1>5. ListIs(tab, l)
  BY <1>4 DEF Parts
<1>6. /\ Len(l) \in Nat /\ l \in Seq(Slots)
      /\ \A s \in Used(tab) : \E j \in 1..Len(l) : l[j] = s
  BY <1>5, ListedIs
<1>7. 1 \in 1..Len(l) /\ tab.head = l[1]
  <2>1. tab.head = IF l = <<>> THEN Nil ELSE l[1]
    BY <1>5 DEF ListIs, Linked
  <2>2. l # <<>>
    BY <1>1, <2>1
  <2>3. Len(l) # 0
    BY <1>6, <2>2, EmptySeq
  <2> QED
    BY <1>6, <2>1, <2>2, <2>3
<1>8. Used(tab) \subseteq From(l, l[1])
  <2>1. ASSUME NEW s \in Used(tab)
        PROVE  s \in From(l, l[1])
    <3>1. PICK j \in 1..Len(l) : l[j] = s
      BY <1>6
    <3>2. 1 <= j
      BY <1>6
    <3> QED
      BY <1>6, <1>7, <3>1, <3>2, InFrom
  <2> QED
    BY <2>1
<1>9. PICK u : u = [tab EXCEPT !.cursor = tab.next[l[1]]]
  OBVIOUS
<1>10. /\ TableOK(u) /\ OrderOf(u) = OrderOf(tab)
       /\ {tab.key[e] : e \in From(l, l[1])} \ {tab.key[l[1]]} \subseteq Ahead(u)
  BY <1>4, <1>7, <1>9, CursorEffect DEF GoneOn
<1>11. KeysOf(tab) \ {tab.key[l[1]]} \subseteq Ahead(u)
  BY <1>8, <1>10 DEF KeysOf
<1>12. tab' = u /\ order' = OrderOf(tab')
  BY <1>1, <1>7, <1>9 DEF Becomes
<1>13. Map!Next
  BY <1>1, <1>4, <1>10, <1>12, MapUnseen
<1> QED
  BY <1>1, <1>2, <1>4, <1>7, <1>10, <1>11, <1>12, <1>13 DEF StepOK

\* A foreach goes on, or ends.
LEMMA LoopNextStep ==
    ASSUME TableInv, LoopNext
    PROVE  StepOK
<1>1. Sound /\ loop /\ call' = Unseen /\ UNCHANGED <<shared, flaw>>
  BY DEF LoopNext
<1>2. (\E n, l, C : SoundTable(n, l, C)) /\ shared \in BOOLEAN /\ loop \in BOOLEAN
  BY <1>1, SoundIs
<1>3. PICK n, l, C : SoundTable(n, l, C)
  BY <1>2
<1>4. Parts(tab, n, l, C) /\ order = OrderOf(tab) /\ todo \subseteq Ahead(tab)
  BY <1>1, <1>3 DEF SoundTable
<1>5. PICK s : s = tab.cursor
  OBVIOUS
<1>6. CASE s = Nil
  <2>1. loop' = FALSE /\ UNCHANGED <<tab, order>>
    BY <1>5, <1>6 DEF LoopNext
  <2>2. TableOK(tab')
    BY <1>4, <2>1 DEF TableOK
  <2> QED
    BY <1>1, <1>2, <1>4, <2>1, <2>2, MapUnseen DEF StepOK
<1>7. CASE s # Nil
  <2>1. /\ Becomes([tab EXCEPT !.cursor = tab.next[s]])
        /\ todo' = todo \ {tab.key[s]} /\ loop' = loop
    BY <1>5, <1>7 DEF LoopNext
  <2>2. s \in Used(tab)
    BY <1>4, <1>5, <1>7, AheadIs
  <2>3. ListIs(tab, l)
    BY <1>4 DEF Parts
  <2>4. PICK m \in 1..Len(l) : l[m] = s
    BY <2>2, <2>3, ListedIs
  <2>5. PICK u : u = [tab EXCEPT !.cursor = tab.next[l[m]]]
    OBVIOUS
  <2>6. /\ TableOK(u) /\ OrderOf(u) = OrderOf(tab)
        /\ {tab.key[e] : e \in From(l, l[m])} \ {tab.key[l[m]]} \subseteq Ahead(u)
    BY <1>4, <2>5, CursorEffect DEF GoneOn
  <2>7. Ahead(tab) = {tab.key[e] : e \in From(l, s)}
    BY <1>4, <1>5, AheadIs
  <2>8. todo' \subseteq Ahead(u)
    BY <1>4, <2>1, <2>4, <2>6, <2>7
  <2>9. tab' = u /\ order' = OrderOf(tab')
    BY <2>1, <2>4, <2>5 DEF Becomes
  <2>10. Map!Next
    BY <1>1, <1>4, <2>6, <2>9, MapUnseen
  <2> QED
    BY <1>1, <1>2, <1>4, <2>1, <2>6, <2>8, <2>9, <2>10 DEF StepOK
<1> QED
  BY <1>6, <1>7

\* The table stays as it is: the end of a loop, another holder, no step at all.
LEMMA SameStep ==
    ASSUME TableInv, UNCHANGED <<tab, order, flaw>>, shared' \in BOOLEAN,
           loop' = FALSE \/ UNCHANGED <<loop, todo>>,
           call' = Unseen \/ UNCHANGED vars
    PROVE  StepOK
<1>1. order' = OrderOf(tab') /\ loop \in BOOLEAN
  BY DEF TableInv
<1>2. loop' \in BOOLEAN
  BY <1>1
<1>3. ASSUME flaw' = {}
      PROVE  TableOK(tab') /\ (loop' => todo' \subseteq Ahead(tab'))
  BY <1>3 DEF TableInv, Sound, Ahead
<1>4. Map!Next \/ UNCHANGED vars
  BY MapUnseen
<1> QED
  BY <1>1, <1>2, <1>3, <1>4 DEF StepOK

\* t = {}.
LEMMA DropStep ==
    ASSUME Drop
    PROVE  StepOK
<1>1. PICK n \in FirstSizes : Becomes(Empty(n))
  BY DEF Drop
<1>2. shared' = FALSE /\ loop' = FALSE /\ call' = <<"clear">>
  BY DEF Drop
<1>3. tab' = Empty(n) /\ order' = OrderOf(tab')
  BY <1>1 DEF Becomes
<1>4. TableOK(tab') /\ order' = <<>>
  BY <1>3, EmptyParts DEF TableOK
<1>5. Map!Next
  BY <1>2, <1>4, MapClear
<1> QED
  BY <1>2, <1>3, <1>4, <1>5 DEF StepOK

\* The memory manager moves an entry.
LEMMA MoveEntryStep ==
    ASSUME TableInv, NEW s \in Slots, NEW d \in Slots, MoveEntry(s, d)
    PROVE  StepOK
<1>1. /\ Sound /\ s \in Used(tab) /\ d \notin Used(tab)
      /\ Becomes(Moved(tab, s, d)) /\ UNCHANGED <<shared, loop, todo, flaw>>
      /\ call' = Unseen
  BY DEF MoveEntry
<1>2. (\E n, l, C : SoundTable(n, l, C)) /\ shared \in BOOLEAN /\ loop \in BOOLEAN
  BY <1>1, SoundIs
<1>3. PICK n, l, C : SoundTable(n, l, C)
  BY <1>2
<1>4. /\ Parts(tab, n, l, C) /\ order = OrderOf(tab)
      /\ loop => todo \subseteq Ahead(tab)
  BY <1>3 DEF SoundTable
<1>5. PICK m \in 1..Len(l) : l[m] = s
  BY <1>1, <1>4, ListedIs DEF Parts
<1>6. Kept(order, Ahead(tab), Moved(tab, s, d))
  <2>1. Kept(OrderOf(tab), Ahead(tab), Moved(tab, l[m], d))
    BY <1>1, <1>4, RenameEffect
  <2> QED
    BY <1>4, <1>5, <2>1
<1>7. order' = OrderOf(tab') /\ Kept(order, Ahead(tab), tab')
  BY <1>1, <1>6 DEF Becomes
<1>8. Map!Next
  BY <1>1, <1>4, <1>7, MapUnseen DEF Kept
<1> QED
  BY <1>1, <1>2, <1>4, <1>7, <1>8 DEF StepOK, Kept

----------------------------------------------------------------------------
(* The invariant, and what it says of the table *)

\* What a step leaves is what the invariant asks for.
LEMMA StepInv ==
    ASSUME StepOK
    PROVE  TableInv'
BY DEF StepOK, TableInv, Sound, Ahead

\* Every step does what StepOK says: one action per operation of the script,
\* and the moves of the memory manager.
LEMMA NextStep ==
    ASSUME TableInv, [Next]_vars
    PROVE  StepOK
<1>1. ASSUME NEW k \in Keys, Read(k) \/ Assign(k) \/ Delete(k)
      PROVE  StepOK
  BY <1>1, ReadStep, AssignStep, DeleteStep
<1>2. ASSUME NEW a \in Keys, NEW k \in Keys, Ins(a, k)
      PROVE  StepOK
  BY <1>2, InsStep
<1>3. ASSUME NEW k \in Keys, NEW g \in 0..LastGen, Unite(k, g)
      PROVE  StepOK
  BY <1>3, UniteStep
<1>4. ASSUME NEW s \in Slots, NEW d \in Slots, MoveEntry(s, d)
      PROVE  StepOK
  BY <1>4, MoveEntryStep
<1>5. CASE Sort
  BY <1>5, SortStep
<1>6. CASE LoopBegin
  BY <1>6, LoopBeginStep
<1>7. CASE LoopNext
  BY <1>7, LoopNextStep
<1>8. CASE Drop
  BY <1>8, DropStep
<1>9. shared \in BOOLEAN
  BY DEF TableInv
<1>10. CASE LoopBreak
  <2>1. UNCHANGED <<tab, order, flaw>> /\ shared' = shared /\ loop' = FALSE /\ call' = Unseen
    BY <1>10 DEF LoopBreak
  <2> QED
    BY <1>9, <2>1, SameStep
<1>11. CASE Share \/ Unshare
  <2>1. /\ UNCHANGED <<tab, order, flaw>> /\ shared' \in BOOLEAN
        /\ UNCHANGED <<loop, todo>> /\ call' = Unseen
    BY <1>11 DEF Share, Unshare
  <2> QED
    BY <2>1, SameStep
<1>12. CASE UNCHANGED vars
  <2>1. UNCHANGED <<tab, order, flaw>> /\ shared' = shared /\ UNCHANGED <<loop, todo>>
    BY <1>12 DEF vars
  <2> QED
    BY <1>9, <1>12, <2>1, SameStep
<1> QED
  BY <1>1, <1>2, <1>3, <1>4, <1>5, <1>6, <1>7, <1>8, <1>10, <1>11, <1>12 DEF Next

\* A new table has empty parts.
LEMMA InitInv ==
    ASSUME Init
    PROVE  TableInv
<1>1. PICK n \in FirstSizes : tab = Empty(n)
  BY DEF Init
<1>2. TableOK(tab) /\ OrderOf(tab) = <<>>
  BY <1>1, EmptyParts DEF TableOK
<1> QED
  BY <1>2 DEF Init, TableInv

\* The inductive invariant: a table that nothing has gone wrong with is a list
\* and chains over the same entries (Parts), the script's view is read off it,
\* and a running foreach has its remaining keys ahead of it.
THEOREM TableIsParts == Spec => []TableInv
<1>1. Init => TableInv
  BY InitInv
<1>2. TableInv /\ [Next]_vars => TableInv'
  BY NextStep, StepInv
<1> QED
  BY <1>1, <1>2, PTL DEF Spec

\* The list of a sound table, as ListExact says it.
LEMMA PartsList ==
    ASSUME TableInv
    PROVE  ListExact
<1>1. SUFFICES ASSUME Sound
               PROVE  LET l == Listed(tab) IN
                      /\ ToSet(l) = Used(tab) /\ Len(l) = Cardinality(Used(tab))
                      /\ tab.count = Len(l)
                      /\ tab.tail = IF l = <<>> THEN Nil ELSE Last(l)
                      /\ \A n \in 1..Len(l) : tab.last[l[n]] = IF n = 1 THEN Nil ELSE l[n - 1]
                      /\ tab.cursor \in Used(tab) \cup {Nil}
  BY DEF ListExact
<1>2. PICK n, l, C : Parts(tab, n, l, C)
  BY <1>1 DEF TableInv, TableOK
<1>3. ListIs(tab, l) /\ Base(tab, n, l)
  BY <1>2 DEF Parts, Base
<1>4. Listed(tab) = l /\ Len(l) \in Nat /\ l \in Seq(Slots)
  BY <1>3, ListedIs
<1>5. Len(l) = Cardinality(Used(tab)) /\ tab.count = Len(l)
  BY <1>3, CountBound
<1>6. /\ ToSet(l) = Used(tab) /\ tab.tail = IF Len(l) = 0 THEN Nil ELSE l[Len(l)]
      /\ tab.cursor \in Used(tab) \cup {Nil}
      /\ \A m \in 1..Len(l) : tab.last[l[m]] = IF m = 1 THEN Nil ELSE l[m - 1]
  BY <1>3 DEF ListIs, Linked
<1>7. tab.tail = IF l = <<>> THEN Nil ELSE Last(l)
  <2>1. l = <<>> <=> Len(l) = 0
    BY <1>4, EmptySeq
  <2> QED
    BY <1>6, <2>1 DEF Last
<1> QED
  BY <1>4, <1>5, <1>6, <1>7

\* Every entry in use has a place in one of the chains.
LEMMA InItsChain ==
    ASSUME NEW n, NEW t, NEW l, NEW C, Parts(t, n, l, C), NEW s \in Used(t)
    PROVE  \E i \in 0..(n - 1) : \E m \in 1..Len(C[i]) : C[i][m] = s
<1>1. PICK at : at = Spots(t, n)
  OBVIOUS
<1>2. /\ n \in 1..MaxSize /\ t \in TableRec(n) /\ KeysOK(t)
      /\ InBuckets(t, n, at, C)
  BY <1>1 DEF Parts
<1>3. s \in DOMAIN at /\ at[s] \in 0..(n - 1)
  BY <1>1, <1>2, SpotsOK DEF Spotted
<1>4. ChainIs(t, at, at[s], C[at[s]])
  BY <1>2, <1>3, ChainHolds
<1> QED
  BY <1>3, <1>4 DEF ChainIs

\* The index of a sound table, as IndexExact says it.
LEMMA PartsIndex ==
    ASSUME TableInv
    PROVE  IndexExact
<1>1. SUFFICES ASSUME Sound
               PROVE  /\ \A s \in Used(tab) :
                          /\ Find(tab, tab.key[s]) = s
                          /\ tab.down[s] # Nil => tab.up[tab.down[s]] = s
                      /\ \A i \in DOMAIN tab.bucket :
                          tab.bucket[i] # Nil => tab.up[tab.bucket[i]] = i
  BY DEF IndexExact
<1>2. PICK n, l, C : Parts(tab, n, l, C)
  BY <1>1 DEF TableInv, TableOK
<1>3. n \in 1..MaxSize /\ tab \in TableRec(n) /\ InBuckets(tab, n, Spots(tab, n), C)
  BY <1>2 DEF Parts
<1>4. ASSUME NEW s \in Used(tab)
      PROVE  Find(tab, tab.key[s]) = s
  <2>1. tab.key[s] \in Keys
    BY <1>3, <1>4 DEF Used, TableRec
  <2> QED
    BY <1>2, <1>4, <2>1, FindIs
<1>5. ASSUME NEW s \in Used(tab), tab.down[s] # Nil
      PROVE  tab.up[tab.down[s]] = s
  <2>0. PICK i \in 0..(n - 1) : \E m \in 1..Len(C[i]) : C[i][m] = s
    BY <1>2, <1>5, InItsChain
  <2>1. PICK m \in 1..Len(C[i]) : C[i][m] = s
    BY <2>0
  <2>2. /\ C[i] \in Seq(Slots)
        /\ \A j \in 1..Len(C[i]) :
              tab.down[C[i][j]] = IF j = Len(C[i]) THEN Nil ELSE C[i][j + 1]
        /\ \A j \in 1..Len(C[i]) :
              tab.up[C[i][j]] = IF j = 1 THEN i ELSE C[i][j - 1]
    BY <1>3 DEF InBuckets, Linked
  <2>3. Len(C[i]) \in Nat
    BY <2>2
  <2>4. m # Len(C[i]) /\ tab.down[s] = C[i][m + 1]
    BY <1>5, <2>1, <2>2
  <2>5. m + 1 \in 1..Len(C[i]) /\ m + 1 # 1 /\ (m + 1) - 1 = m
    BY <2>1, <2>3, <2>4
  <2> QED
    BY <2>1, <2>2, <2>4, <2>5
<1>6. ASSUME NEW i \in DOMAIN tab.bucket, tab.bucket[i] # Nil
      PROVE  tab.up[tab.bucket[i]] = i
  <2>1. i \in 0..(n - 1)
    BY <1>3, <1>6 DEF TableRec
  <2>2. /\ C[i] \in Seq(Slots)
        /\ tab.bucket[i] = IF C[i] = <<>> THEN Nil ELSE C[i][1]
        /\ \A j \in 1..Len(C[i]) :
              tab.up[C[i][j]] = IF j = 1 THEN i ELSE C[i][j - 1]
    BY <1>3, <2>1 DEF InBuckets, Linked
  <2>3. C[i] # <<>> /\ tab.bucket[i] = C[i][1]
    BY <1>6, <2>2
  <2>4. Len(C[i]) # 0 /\ Len(C[i]) \in Nat
    BY <2>2, <2>3, EmptySeq
  <2>5. 1 \in 1..Len(C[i])
    BY <2>4
  <2> QED
    BY <2>2, <2>3, <2>5
<1> QED
  BY <1>4, <1>5, <1>6

\* The list of a table survives every operation: linked both ways, with the
\* right tail, over exactly the entries in use, as many as count says, whatever
\* order czl_hash_tabkv_insert, czl_swap_tabkv, czl_delete_tabkv_node,
\* czl_table_fork and czl_mm_update_tabkv come in.
THEOREM ListStaysExact == Spec => []ListExact
<1>1. TableInv => ListExact
  BY PartsList
<1> QED
  BY <1>1, TableIsParts, PTL

\* Every key of a table is found in the bucket of its hash and the chains are
\* linked back to their buckets, whatever growth, shrinking and new hash keys
\* (czl_hash_table_resize, czl_hash_key_update) happened before.
THEOREM IndexStaysExact == Spec => []IndexExact
<1>1. TableInv => IndexExact
  BY PartsIndex
<1> QED
  BY <1>1, TableIsParts, PTL

\* A foreach loses none of the keys it still owes, whatever the body does to
\* the table meanwhile (foreach_inx in czl_table_fork, czl_delete_tabkv_node
\* and czl_mm_update_tabkv).
THEOREM LoopReachesAll == Spec => []LoopOwes
<1>1. TableInv => LoopOwes
  BY DEF TableInv, LoopOwes
<1> QED
  BY <1>1, TableIsParts, PTL

\* A table implements an ordered map: every step that leaves it sound has, on
\* the keys in list order, the effect of the very call that the step is, or is
\* one of those that no call sees.
THEOREM TableIsOrderedMap == Spec => IsOrderedMap
<1>1. Init => Map!Init
  BY DEF Init, Map!Init
<1>2. TableInv /\ [Next]_vars => [flaw' = {} => Map!Next]_vars
  <2>1. SUFFICES ASSUME TableInv, [Next]_vars
                 PROVE  (flaw' = {} => Map!Next) \/ UNCHANGED vars
    OBVIOUS
  <2>2. StepOK
    BY <2>1, NextStep
  <2> QED
    BY <2>2 DEF StepOK
<1> QED
  BY <1>1, <1>2, TableIsParts, PTL DEF Spec, IsOrderedMap

=============================================================================
