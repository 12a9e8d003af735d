----------------------------- MODULE ChainLemmas -----------------------------
(***************************************************************************)
(* Facts about the operators that stand for the chains of the program, of  *)
(* threads, timers, pages and nodes: what enters a chain, leaves it or     *)
(* moves within it, and in which order the others stay; and about what     *)
(* blocks of memory occupy.                                                *)
(***************************************************************************)
EXTENDS Integers, SequencesExt, SequenceTheorems, WellFoundedInduction, TLAPS, Memory,
        FiniteSetTheorems

\* The minimum of a set of natural numbers that is not empty is one of them.
LEMMA MinInSet ==
    ASSUME NEW I, I \subseteq Nat, I # {}
    PROVE  Min(I) \in I
<1> DEFINE Less == {xy \in Nat \X Nat : xy[1] < xy[2]}
<1>1. IsWellFoundedOn(Less, Nat)
  BY NatLessThanWellFounded DEF OpToRel
<1> HIDE DEF Less
<1>2. PICK x \in I : \A y \in I : ~(<<y, x>> \in Less)
  BY <1>1, WFMin
<1>3. \A y \in I : x <= y
  <2>1. SUFFICES ASSUME NEW y \in I, y < x
                 PROVE  FALSE
    OBVIOUS
  <2>2. <<y, x>> \in Less
    BY <2>1 DEF Less
  <2> QED
    BY <1>2, <2>2
<1> QED
  BY <1>3 DEF Min

\* The length and the elements of a sequence from which one place was removed.
LEMMA RemoveAtProperties ==
    ASSUME NEW S, NEW s \in Seq(S), NEW i \in 1..Len(s)
    PROVE  /\ RemoveAt(s, i) \in Seq(S)
           /\ Len(RemoveAt(s, i)) = Len(s) - 1
           /\ \A j \in 1..(Len(s) - 1) :
                RemoveAt(s, i)[j] = IF j < i THEN s[j] ELSE s[j + 1]
<1> DEFINE a == SubSeq(s, 1, i - 1)
           b == SubSeq(s, i + 1, Len(s))
<1>1. Len(s) \in Nat
  BY LenProperties
<1>2. \A j \in 1..Len(s) : s[j] \in S
  BY ElementOfSeq
<1>3. /\ a \in Seq(S) /\ Len(a) = i - 1
      /\ \A j \in 1..(i - 1) : a[j] = s[j]
  <2>1. 1 \in Int /\ i - 1 \in Int /\ \A j \in 1..(i - 1) : s[j] \in S
    BY <1>1, <1>2
  <2>2. /\ a \in Seq(S) /\ Len(a) = IF 1 <= i - 1 THEN (i - 1) - 1 + 1 ELSE 0
        /\ \A j \in 1..((i - 1) - 1 + 1) : a[j] = s[1 + j - 1]
    BY <2>1, SubSeqProperties
  <2> QED
    BY <1>1, <2>2
<1>4. /\ b \in Seq(S) /\ Len(b) = Len(s) - i
      /\ \A j \in 1..(Len(s) - i) : b[j] = s[i + j]
  <2>1. i + 1 \in Int /\ Len(s) \in Int /\ \A j \in (i + 1)..Len(s) : s[j] \in S
    BY <1>1, <1>2
  <2>2. /\ b \in Seq(S)
        /\ Len(b) = IF i + 1 <= Len(s) THEN Len(s) - (i + 1) + 1 ELSE 0
        /\ \A j \in 1..(Len(s) - (i + 1) + 1) : b[j] = s[(i + 1) + j - 1]
    BY <2>1, SubSeqProperties
  <2> QED
    BY <1>1, <2>2
<1>5. /\ a \o b \in Seq(S) /\ Len(a \o b) = Len(a) + Len(b)
      /\ \A j \in 1..(Len(a) + Len(b)) :
            (a \o b)[j] = IF j <= Len(a) THEN a[j] ELSE b[j - Len(a)]
  BY <1>3, <1>4, ConcatProperties
<1>6. RemoveAt(s, i) = a \o b
  BY DEF RemoveAt
<1> HIDE DEF a, b
<1>7. ASSUME NEW j \in 1..(Len(s) - 1)
      PROVE  (a \o b)[j] = IF j < i THEN s[j] ELSE s[j + 1]
  <2>1. CASE j < i
    BY <1>1, <1>3, <1>4, <1>5, <2>1
  <2>2. CASE ~(j < i)
    <3>1. (a \o b)[j] = b[j - (i - 1)]
      BY <1>1, <1>3, <1>4, <1>5, <2>2
    <3>2. j - (i - 1) \in 1..(Len(s) - i) /\ i + (j - (i - 1)) = j + 1
      BY <1>1, <2>2
    <3> QED
      BY <1>4, <2>2, <3>1, <3>2
  <2> QED
    BY <2>1, <2>2
<1>8. Len(a \o b) = Len(s) - 1
  BY <1>1, <1>3, <1>4, <1>5
<1> QED
  BY <1>5, <1>6, <1>7, <1>8

\* RemoveFirst removes the place at which the element is, if it is at one.
LEMMA RemoveFirstIs ==
    ASSUME NEW S, NEW s \in Seq(S), NEW e
    PROVE  \/ RemoveFirst(s, e) = s /\ \A i \in 1..Len(s) : s[i] # e
           \/ \E i \in 1..Len(s) : s[i] = e /\ RemoveFirst(s, e) = RemoveAt(s, i)
<1> DEFINE I == {i \in 1..Len(s) : s[i] = e}
<1>1. CASE I = {}
  BY <1>1 DEF RemoveFirst
<1>2. CASE I # {}
  <2>1. Min(I) \in I
    <3>1. I \subseteq Nat
      BY LenProperties
    <3> QED
      BY <1>2, <3>1, MinInSet
  <2>2. SelectInSeq(s, LAMBDA v : v = e) = Min(I)
    BY <1>2 DEF SelectInSeq
  <2>3. RemoveFirst(s, e) = RemoveAt(s, Min(I))
    BY <1>2, <2>2 DEF RemoveFirst
  <2> QED
    BY <2>1, <2>3
<1> QED
  BY <1>1, <1>2

\* What is left of a chain is a chain.
LEMMA RemoveFirstInSeq ==
    ASSUME NEW S, NEW s \in Seq(S), NEW e
    PROVE  RemoveFirst(s, e) \in Seq(S)
BY RemoveFirstIs, RemoveAtProperties

\* A chain without repetitions from which an element was removed has the other
\* elements, still without repetitions.
LEMMA RemoveFirstProperties ==
    ASSUME NEW S, NEW s \in Seq(S), IsInjective(s), NEW e
    PROVE  /\ RemoveFirst(s, e) \in Seq(S)
           /\ IsInjective(RemoveFirst(s, e))
           /\ ToSet(RemoveFirst(s, e)) = ToSet(s) \ {e}
<1>0. Len(s) \in Nat /\ DOMAIN s = 1..Len(s)
  BY LenProperties
<1>1. CASE \A i \in 1..Len(s) : s[i] # e
  <2>1. RemoveFirst(s, e) = s
    BY <1>1, RemoveFirstIs
  <2>2. e \notin ToSet(s)
    BY <1>0, <1>1 DEF ToSet
  <2> QED
    BY <2>1, <2>2
<1>2. CASE \E i \in 1..Len(s) : s[i] = e
  <2>1. PICK i \in 1..Len(s) : s[i] = e /\ RemoveFirst(s, e) = RemoveAt(s, i)
    BY <1>2, RemoveFirstIs
  <2> DEFINE r == RemoveAt(s, i)
  <2>2. /\ r \in Seq(S) /\ Len(r) = Len(s) - 1
        /\ \A j \in 1..(Len(s) - 1) : r[j] = IF j < i THEN s[j] ELSE s[j + 1]
    BY RemoveAtProperties
  <2>3. DOMAIN r = 1..(Len(s) - 1)
    BY <2>2, LenProperties
  <2> HIDE DEF r
  <2>4. IsInjective(r)
    <3>1. SUFFICES ASSUME NEW j \in 1..(Len(s) - 1), NEW k \in 1..(Len(s) - 1),
                          r[j] = r[k]
                   PROVE  j = k
      BY <2>3 DEF IsInjective
    <3> DEFINE at(x) == IF x < i THEN x ELSE x + 1
    <3>2. r[j] = s[at(j)] /\ r[k] = s[at(k)] /\ at(j) \in 1..Len(s) /\ at(k) \in 1..Len(s)
      BY <1>0, <2>2
    <3>3. at(j) = at(k)
      BY <1>0, <3>1, <3>2 DEF IsInjective
    <3> QED
      BY <1>0, <3>3
  <2>5. ASSUME NEW x \in ToSet(r)
        PROVE  x \in ToSet(s) \ {e}
    <3>1. PICK j \in 1..(Len(s) - 1) : x = r[j]
      BY <2>3 DEF ToSet
    <3> DEFINE k == IF j < i THEN j ELSE j + 1
    <3>2. x = s[k] /\ k \in 1..Len(s) /\ k # i
      BY <1>0, <2>2, <3>1
    <3>3. s[k] # s[i]
      BY <1>0, <3>2 DEF IsInjective
    <3> QED
      BY <1>0, <2>1, <3>2, <3>3 DEF ToSet
  <2>6. ASSUME NEW x \in ToSet(s) \ {e}
        PROVE  x \in ToSet(r)
    <3>1. PICK j \in 1..Len(s) : x = s[j]
      BY <1>0 DEF ToSet
    <3>2. j # i
      BY <2>1, <3>1
    <3> DEFINE k == IF j < i THEN j ELSE j - 1
    <3>3. k \in 1..(Len(s) - 1) /\ r[k] = s[j]
      BY <1>0, <2>2, <3>2
    <3> QED
      BY <2>3, <3>1, <3>3 DEF ToSet
  <2>7. ToSet(r) = ToSet(s) \ {e}
    BY <2>5, <2>6
  <2> QED
    BY <2>1, <2>2, <2>4, <2>7 DEF r
<1> QED
  BY <1>1, <1>2

\* What follows the head of such a chain followed the head of the chain before.
LEMMA RemoveFirstTail ==
    ASSUME NEW S, NEW s \in Seq(S), NEW e, NEW i \in 2..Len(RemoveFirst(s, e))
    PROVE  \E j \in 2..Len(s) : RemoveFirst(s, e)[i] = s[j]
<1>0. Len(s) \in Nat
  BY LenProperties
<1>1. CASE RemoveFirst(s, e) = s
  BY <1>1
<1>2. ASSUME NEW k \in 1..Len(s), RemoveFirst(s, e) = RemoveAt(s, k)
      PROVE  \E j \in 2..Len(s) : RemoveFirst(s, e)[i] = s[j]
  <2>1. /\ Len(RemoveAt(s, k)) = Len(s) - 1
        /\ \A j \in 1..(Len(s) - 1) : RemoveAt(s, k)[j] = IF j < k THEN s[j] ELSE s[j + 1]
    BY RemoveAtProperties
  <2> DEFINE j == IF i < k THEN i ELSE i + 1
  <2>2. i \in 2..(Len(s) - 1)
    BY <1>2, <2>1
  <2>3. j \in 2..Len(s) /\ RemoveAt(s, k)[i] = s[j]
    BY <1>0, <2>1, <2>2, SMTT(30)
  <2> QED
    BY <1>2, <2>3
<1> QED
  BY <1>1, <1>2, RemoveFirstIs

\* An element put before a chain that does not hold it.
LEMMA ConsProperties ==
    ASSUME NEW S, NEW s \in Seq(S), NEW e \in S
    PROVE  /\ <<e>> \o s \in Seq(S)
           /\ <<e>> \o s # <<>>
           /\ ToSet(<<e>> \o s) = {e} \cup ToSet(s)
           /\ (IsInjective(s) /\ e \notin ToSet(s)) => IsInjective(<<e>> \o s)
<1> DEFINE c == <<e>> \o s
<1>0. Len(s) \in Nat /\ DOMAIN s = 1..Len(s)
  BY LenProperties
<1>1. <<e>> \in Seq(S) /\ Len(<<e>>) = 1 /\ <<e>>[1] = e
  OBVIOUS
<1>2. /\ c \in Seq(S) /\ Len(c) = Len(s) + 1
      /\ \A i \in 1..(Len(s) + 1) : c[i] = IF i <= 1 THEN e ELSE s[i - 1]
  <2>1. /\ c \in Seq(S) /\ Len(c) = Len(<<e>>) + Len(s)
        /\ \A i \in 1..(Len(<<e>>) + Len(s)) :
              c[i] = IF i <= Len(<<e>>) THEN <<e>>[i] ELSE s[i - Len(<<e>>)]
    BY <1>1, ConcatProperties
  <2> QED
    BY <1>0, <1>1, <2>1
<1>3. DOMAIN c = 1..(Len(s) + 1)
  BY <1>2, LenProperties
<1> HIDE DEF c
<1>4. c # <<>>
  BY <1>0, <1>2
<1>5. ToSet(c) = {e} \cup ToSet(s)
  <2>1. ASSUME NEW x \in ToSet(c) PROVE x \in {e} \cup ToSet(s)
    BY <1>0, <1>2, <1>3 DEF ToSet
  <2>2. ASSUME NEW x \in ToSet(s) PROVE x \in ToSet(c)
    <3>1. PICK j \in 1..Len(s) : x = s[j]
      BY <1>0 DEF ToSet
    <3>2. j + 1 \in 1..(Len(s) + 1) /\ c[j + 1] = s[j]
      BY <1>0, <1>2
    <3> QED
      BY <1>3, <3>1, <3>2 DEF ToSet
  <2>3. e \in ToSet(c)
    <3>1. 1 \in 1..(Len(s) + 1) /\ c[1] = e
      BY <1>0, <1>2
    <3> QED
      BY <1>3, <3>1 DEF ToSet
  <2> QED
    BY <2>1, <2>2, <2>3
<1>6. ASSUME IsInjective(s), e \notin ToSet(s) PROVE IsInjective(c)
  <2>1. SUFFICES ASSUME NEW i \in 1..(Len(s) + 1), NEW j \in 1..(Len(s) + 1), c[i] = c[j]
                 PROVE  i = j
    BY <1>3 DEF IsInjective
  <2>2. \A k \in 1..(Len(s) + 1) : k > 1 => c[k] = s[k - 1] /\ k - 1 \in 1..Len(s) /\ c[k] # e
    BY <1>0, <1>2, <1>6 DEF ToSet
  <2>3. CASE i = 1 \/ j = 1
    BY <1>0, <1>2, <2>1, <2>2, <2>3, SMTT(30)
  <2>4. CASE i > 1 /\ j > 1
    <3>1. i - 1 = j - 1
      BY <1>0, <1>6, <2>1, <2>2, <2>4 DEF IsInjective
    <3> QED
      BY <3>1
  <2> QED
    BY <2>3, <2>4
<1> QED
  BY <1>2, <1>4, <1>5, <1>6 DEF c

\* What is left of a chain without repetitions when its head is taken off.
LEMMA TailProperties ==
    ASSUME NEW S, NEW s \in Seq(S), s # <<>>, IsInjective(s)
    PROVE  /\ Tail(s) \in Seq(S) /\ Len(Tail(s)) = Len(s) - 1
           /\ IsInjective(Tail(s))
           /\ ToSet(Tail(s)) = ToSet(s) \ {Head(s)}
           /\ Head(s) \in ToSet(s) /\ Head(s) \in S
<1> DEFINE r == Tail(s)
<1>1. /\ Len(s) \in Nat /\ Len(s) # 0 /\ DOMAIN s = 1..Len(s)
  BY LenProperties, EmptySeq
<1>2. /\ r \in Seq(S) /\ Len(r) = Len(s) - 1 /\ DOMAIN r = 1..(Len(s) - 1)
      /\ \A i \in 1..(Len(s) - 1) : r[i] = s[i + 1]
      /\ Head(s) = s[1] /\ s[1] \in S
  <2>1. /\ Head(s) \in S /\ r \in Seq(S) /\ Len(r) = Len(s) - 1
        /\ \A i \in 1..Len(r) : r[i] = s[i + 1]
    BY HeadTailProperties
  <2>2. DOMAIN r = 1..Len(r)
    BY <2>1, LenProperties
  <2> QED
    BY <2>1, <2>2
<1> HIDE DEF r
<1>3. IsInjective(r)
  <2>1. SUFFICES ASSUME NEW i \in 1..(Len(s) - 1), NEW j \in 1..(Len(s) - 1), r[i] = r[j]
                 PROVE  i = j
    BY <1>2 DEF IsInjective
  <2>2. i + 1 \in 1..Len(s) /\ j + 1 \in 1..Len(s) /\ s[i + 1] = s[j + 1]
    BY <1>1, <1>2, <2>1
  <2>3. i + 1 = j + 1
    BY <1>1, <2>2 DEF IsInjective
  <2> QED
    BY <2>3
<1>4. ASSUME NEW x \in ToSet(r)
      PROVE  x \in ToSet(s) \ {Head(s)}
  <2>1. PICK i \in 1..(Len(s) - 1) : x = r[i]
    BY <1>2 DEF ToSet
  <2>2. x = s[i + 1] /\ i + 1 \in 1..Len(s) /\ i + 1 # 1 /\ 1 \in 1..Len(s)
    BY <1>1, <1>2, <2>1
  <2>3. s[i + 1] # s[1]
    BY <1>1, <2>2 DEF IsInjective
  <2> QED
    BY <1>1, <1>2, <2>2, <2>3 DEF ToSet
<1>5. ASSUME NEW x \in ToSet(s), x # Head(s)
      PROVE  x \in ToSet(r)
  <2>1. PICK i \in 1..Len(s) : x = s[i]
    BY <1>1 DEF ToSet
  <2>2. i # 1
    BY <1>2, <1>5, <2>1
  <2>3. i - 1 \in 1..(Len(s) - 1) /\ r[i - 1] = x
    BY <1>1, <1>2, <2>1, <2>2
  <2> QED
    BY <1>2, <2>3 DEF ToSet
<1>6. Head(s) \in ToSet(s)
  BY <1>1, <1>2 DEF ToSet
<1> QED
  BY <1>2, <1>3, <1>4, <1>5, <1>6 DEF r

\* Behind an element put before a chain is the chain.
LEMMA ConsElements ==
    ASSUME NEW S, NEW s \in Seq(S), NEW e \in S
    PROVE  /\ Len(s) \in Nat /\ Len(<<e>> \o s) = Len(s) + 1
           /\ \A i \in 2..Len(<<e>> \o s) : (<<e>> \o s)[i] = s[i - 1]
<1>1. <<e>> \in Seq(S) /\ Len(<<e>>) = 1
  OBVIOUS
<1>2. /\ Len(<<e>> \o s) = Len(<<e>>) + Len(s)
      /\ \A i \in 1..(Len(<<e>>) + Len(s)) :
            (<<e>> \o s)[i] = IF i <= Len(<<e>>) THEN <<e>>[i] ELSE s[i - Len(<<e>>)]
  BY <1>1, ConcatProperties
<1>3. Len(s) \in Nat
  BY LenProperties
<1> QED
  BY <1>1, <1>2, <1>3

----------------------------------------------------------------------------
(* The order of a chain without repetitions.                               *)

\* x stands before y in the chain s.
Before(s, x, y) == \E i, j \in 1..Len(s) : i < j /\ s[i] = x /\ s[j] = y

\* The order is total, and nothing stands before the head.
LEMMA OrderIsTotal ==
    ASSUME NEW S, NEW s \in Seq(S), IsInjective(s)
    PROVE  /\ \A x, y : Before(s, x, y) => x \in ToSet(s) /\ y \in ToSet(s) /\ x # y /\ ~Before(s, y, x)
           /\ \A x, y, z : Before(s, x, y) /\ Before(s, y, z) => Before(s, x, z)
           /\ \A x, y \in ToSet(s) : x # y => Before(s, x, y) \/ Before(s, y, x)
<1>0. Len(s) \in Nat /\ DOMAIN s = 1..Len(s)
  BY LenProperties
<1>1. \A i, j \in 1..Len(s) : s[i] = s[j] => i = j
  BY <1>0 DEF IsInjective
<1>2. ASSUME NEW x, NEW y, Before(s, x, y)
      PROVE  x \in ToSet(s) /\ y \in ToSet(s) /\ x # y /\ ~Before(s, y, x)
  <2>1. PICK i \in 1..Len(s), j \in 1..Len(s) : i < j /\ s[i] = x /\ s[j] = y
    BY <1>2 DEF Before
  <2>2. x \in ToSet(s) /\ y \in ToSet(s) /\ x # y
    BY <1>0, <1>1, <2>1 DEF ToSet
  <2>3. ASSUME Before(s, y, x) PROVE FALSE
    <3>1. PICK k \in 1..Len(s), l \in 1..Len(s) : k < l /\ s[k] = y /\ s[l] = x
      BY <2>3 DEF Before
    <3>2. k = j /\ l = i
      BY <1>1, <2>1, <3>1
    <3> QED
      BY <1>0, <2>1, <3>1, <3>2
  <2> QED
    BY <2>2, <2>3
<1>3. ASSUME NEW x, NEW y, NEW z, Before(s, x, y), Before(s, y, z)
      PROVE  Before(s, x, z)
  <2>1. PICK i \in 1..Len(s), j \in 1..Len(s) : i < j /\ s[i] = x /\ s[j] = y
    BY <1>3 DEF Before
  <2>2. PICK k \in 1..Len(s), l \in 1..Len(s) : k < l /\ s[k] = y /\ s[l] = z
    BY <1>3 DEF Before
  <2>3. k = j
    BY <1>1, <2>1, <2>2
  <2>4. i < l
    BY <1>0, <2>1, <2>2, <2>3
  <2> QED
    BY <2>1, <2>2, <2>4 DEF Before
<1>4. ASSUME NEW x \in ToSet(s), NEW y \in ToSet(s), x # y
      PROVE  Before(s, x, y) \/ Before(s, y, x)
  <2>1. PICK i \in 1..Len(s), j \in 1..Len(s) : s[i] = x /\ s[j] = y
    BY <1>0 DEF ToSet
  <2>2. i < j \/ j < i
    BY <1>0, <1>4, <2>1
  <2> QED
    BY <2>1, <2>2 DEF Before
<1> QED
  BY <1>2, <1>3, <1>4

\* The head stands before the others.
LEMMA HeadIsFirst ==
    ASSUME NEW S, NEW s \in Seq(S), s # <<>>
    PROVE  /\ Head(s) \in ToSet(s) /\ Head(s) = s[1]
           /\ \A y \in ToSet(s) : y # Head(s) => Before(s, Head(s), y)
<1>1. /\ Len(s) \in Nat /\ Len(s) # 0 /\ DOMAIN s = 1..Len(s)
  BY LenProperties, EmptySeq
<1>2. 1 \in 1..Len(s) /\ Head(s) = s[1]
  BY <1>1, HeadTailProperties
<1>3. ASSUME NEW y \in ToSet(s), y # Head(s) PROVE Before(s, Head(s), y)
  <2>1. PICK j \in 1..Len(s) : s[j] = y
    BY <1>1 DEF ToSet
  <2>2. 1 < j
    BY <1>1, <1>2, <1>3, <2>1
  <2> QED
    BY <1>2, <2>1, <2>2 DEF Before
<1> QED
  BY <1>1, <1>2, <1>3 DEF ToSet

\* An element put at the head stands before the others, whose order stays.
LEMMA ConsOrder ==
    ASSUME NEW S, NEW s \in Seq(S), NEW e \in S
    PROVE  \A x, y : Before(<<e>> \o s, x, y) <=> (x = e /\ y \in ToSet(s)) \/ Before(s, x, y)
<1> DEFINE c == <<e>> \o s
<1>1. /\ Len(s) \in Nat /\ Len(c) = Len(s) + 1 /\ DOMAIN s = 1..Len(s)
      /\ \A i \in 2..Len(c) : c[i] = s[i - 1]
  BY ConsElements, LenProperties
<1>2. c[1] = e
  BY ConcatProperties
<1> HIDE DEF c
<1>3. ASSUME NEW x, NEW y, Before(c, x, y) PROVE (x = e /\ y \in ToSet(s)) \/ Before(s, x, y)
  <2>1. PICK i \in 1..Len(c), j \in 1..Len(c) : i < j /\ c[i] = x /\ c[j] = y
    BY <1>3 DEF Before
  <2>2. j \in 2..Len(c) /\ j - 1 \in 1..Len(s) /\ s[j - 1] = y
    BY <1>1, <2>1
  <2>3. CASE i = 1
    BY <1>1, <1>2, <2>1, <2>2, <2>3 DEF ToSet
  <2>4. CASE i # 1
    <3>1. i - 1 \in 1..Len(s) /\ s[i - 1] = x /\ i - 1 < j - 1
      BY <1>1, <2>1, <2>4
    <3> QED
      BY <2>2, <3>1 DEF Before
  <2> QED
    BY <2>3, <2>4
<1>4. ASSUME NEW y \in ToSet(s) PROVE Before(c, e, y)
  <2>1. PICK j \in 1..Len(s) : s[j] = y
    BY <1>1 DEF ToSet
  <2>2. j + 1 \in 2..Len(c) /\ c[j + 1] = s[(j + 1) - 1] /\ (j + 1) - 1 = j /\ 1 \in 1..Len(c)
        /\ j + 1 \in 1..Len(c) /\ 1 < j + 1
    BY <1>1
  <2> QED
    BY <1>2, <2>1, <2>2 DEF Before
<1>5. ASSUME NEW x, NEW y, Before(s, x, y) PROVE Before(c, x, y)
  <2>1. PICK i \in 1..Len(s), j \in 1..Len(s) : i < j /\ s[i] = x /\ s[j] = y
    BY <1>5 DEF Before
  <2>2. \A k \in 1..Len(s) : k + 1 \in 1..Len(c) /\ c[k + 1] = s[k]
    <3>1. \A k \in 1..Len(s) : k + 1 \in 2..Len(c) /\ k + 1 \in 1..Len(c) /\ (k + 1) - 1 = k
      BY <1>1
    <3> QED
      BY <1>1, <3>1
  <2>3. i + 1 < j + 1
    BY <1>1, <2>1
  <2> QED
    BY <2>1, <2>2, <2>3 DEF Before
<1> QED
  BY <1>3, <1>4, <1>5 DEF c

\* A removal leaves the order of the others.
LEMMA RemoveFirstOrder ==
    ASSUME NEW S, NEW s \in Seq(S), IsInjective(s), NEW e
    PROVE  \A x, y : Before(RemoveFirst(s, e), x, y) <=> Before(s, x, y) /\ x # e /\ y # e
<1> DEFINE r == RemoveFirst(s, e)
<1>0. Len(s) \in Nat /\ DOMAIN s = 1..Len(s) /\ \A i, j \in 1..Len(s) : s[i] = s[j] => i = j
  BY LenProperties DEF IsInjective
<1>1. CASE r = s /\ \A i \in 1..Len(s) : s[i] # e
  BY <1>1 DEF Before
<1>2. ASSUME NEW p \in 1..Len(s), s[p] = e, r = RemoveAt(s, p)
      PROVE  \A x, y : Before(r, x, y) <=> Before(s, x, y) /\ x # e /\ y # e
  <2> DEFINE f(j) == IF j < p THEN j ELSE j + 1
             g(j) == IF j < p THEN j ELSE j - 1
  <2>1. Len(r) = Len(s) - 1 /\ \A j \in 1..Len(r) : r[j] = s[f(j)]
    BY <1>2, RemoveAtProperties
  <2> HIDE DEF r
  <2>2. \A j \in 1..Len(r) : f(j) \in 1..Len(s) /\ f(j) # p
    BY <1>0, <2>1
  <2>3. \A j \in 1..Len(s) : j # p => g(j) \in 1..Len(r) /\ f(g(j)) = j
    BY <1>0, <2>1
  <2>4. \A i, j \in 1..Len(r) : i < j => f(i) < f(j)
    BY <1>0, <2>1
  <2>5. \A i, j \in 1..Len(s) : i < j /\ i # p /\ j # p => g(i) < g(j)
    BY <1>0, <2>1
  <2> HIDE DEF f, g
  <2>6. ASSUME NEW x, NEW y, Before(r, x, y) PROVE Before(s, x, y) /\ x # e /\ y # e
    <3>1. PICK i \in 1..Len(r), j \in 1..Len(r) : i < j /\ r[i] = x /\ r[j] = y
      BY <2>6 DEF Before
    <3>2. f(i) \in 1..Len(s) /\ f(j) \in 1..Len(s) /\ f(i) < f(j) /\ s[f(i)] = x /\ s[f(j)] = y
          /\ f(i) # p /\ f(j) # p
      BY <2>1, <2>2, <2>4, <3>1
    <3> QED
      BY <1>0, <1>2, <3>2 DEF Before
  <2>7. ASSUME NEW x, NEW y, Before(s, x, y), x # e, y # e PROVE Before(r, x, y)
    <3>1. PICK i \in 1..Len(s), j \in 1..Len(s) : i < j /\ s[i] = x /\ s[j] = y
      BY <2>7 DEF Before
    <3>2. i # p /\ j # p
      BY <1>2, <2>7, <3>1
    <3>3. /\ g(i) \in 1..Len(r) /\ g(j) \in 1..Len(r) /\ g(i) < g(j)
          /\ r[g(i)] = x /\ r[g(j)] = y
      BY <2>1, <2>3, <2>5, <3>1, <3>2
    <3> QED
      BY <3>3 DEF Before
  <2> QED
    BY <2>6, <2>7
<1> QED
  BY <1>1, <1>2, RemoveFirstIs

\* What stands before an element stands before the next one, or is it; what stands
\* behind it is the next one, or stands behind that.
LEMMA NextInChain ==
    ASSUME NEW S, NEW s \in Seq(S), IsInjective(s), NEW i \in 1..Len(s)
    PROVE  /\ i # Len(s) => /\ s[i + 1] \in ToSet(s) /\ s[i + 1] # s[i]
                            /\ Before(s, s[i], s[i + 1])
           /\ \A y : Before(s, s[i], y) =>
                       i # Len(s) /\ (y = s[i + 1] \/ Before(s, s[i + 1], y))
<1>0. Len(s) \in Nat
  BY LenProperties
<1>n. DOMAIN s = 1..Len(s) /\ \A j, k \in 1..Len(s) : s[j] = s[k] => j = k
  BY LenProperties DEF IsInjective
<1>1. ASSUME i # Len(s) PROVE i + 1 \in 1..Len(s) /\ i < i + 1
  BY <1>0, <1>1
<1>2. ASSUME NEW y, Before(s, s[i], y)
      PROVE  i # Len(s) /\ (y = s[i + 1] \/ Before(s, s[i + 1], y))
  <2>1. PICK j \in 1..Len(s), k \in 1..Len(s) : j < k /\ s[j] = s[i] /\ s[k] = y
    BY <1>2 DEF Before
  <2>2. j = i
    BY <1>n, <2>1
  <2>3. i # Len(s) /\ (k = i + 1 \/ i + 1 < k)
    BY <1>0, <2>1, <2>2
  <2> QED
    BY <1>1, <2>1, <2>3 DEF Before
<1>3. ASSUME i # Len(s)
      PROVE  s[i + 1] \in ToSet(s) /\ s[i + 1] # s[i] /\ Before(s, s[i], s[i + 1])
  <2>1. i + 1 \in 1..Len(s) /\ i < i + 1 /\ i # i + 1
    BY <1>1, <1>3
  <2>2. s[i + 1] \in ToSet(s)
    BY <1>n, <2>1 DEF ToSet
  <2>3. s[i + 1] # s[i]
    BY <1>n, <2>1
  <2>4. Before(s, s[i], s[i + 1])
    BY <2>1 DEF Before
  <2> QED
    BY <2>2, <2>3, <2>4
<1> QED
  BY <1>2, <1>3

\* Without an element of it a chain is one shorter.
LEMMA RemoveFirstLen ==
    ASSUME NEW S, NEW s \in Seq(S), NEW e
    PROVE  /\ Len(RemoveFirst(s, e)) <= Len(s)
           /\ e \in ToSet(s) => Len(RemoveFirst(s, e)) = Len(s) - 1
<1>1. Len(s) \in Nat
  BY LenProperties
<1>2. CASE RemoveFirst(s, e) = s /\ \A i \in 1..Len(s) : s[i] # e
  <2>1. e \notin ToSet(s)
    BY <1>2, LenProperties DEF ToSet
  <2>2. Len(RemoveFirst(s, e)) = Len(s)
    BY <1>2
  <2> QED
    BY <1>1, <2>1, <2>2
<1>3. ASSUME NEW i \in 1..Len(s), RemoveFirst(s, e) = RemoveAt(s, i)
      PROVE  Len(RemoveFirst(s, e)) = Len(s) - 1
  BY <1>3, RemoveAtProperties
<1>4. CASE Len(RemoveFirst(s, e)) = Len(s) - 1
  BY <1>1, <1>4
<1> QED
  BY <1>2, <1>3, <1>4, RemoveFirstIs

----------------------------------------------------------------------------
(* An element put into a chain at a place of its own.                      *)

LEMMA InsertAtProperties ==
    ASSUME NEW S, NEW s \in Seq(S), NEW i \in 1..(Len(s) + 1), NEW e \in S
    PROVE  /\ InsertAt(s, i, e) \in Seq(S)
           /\ Len(InsertAt(s, i, e)) = Len(s) + 1
           /\ \A j \in 1..(Len(s) + 1) :
                InsertAt(s, i, e)[j] = IF j < i THEN s[j] ELSE IF j = i THEN e ELSE s[j - 1]
<1> DEFINE a == SubSeq(s, 1, i - 1)
           b == SubSeq(s, i, Len(s))
           m == a \o <<e>>
<1>1. Len(s) \in Nat
  BY LenProperties
<1>2. \A j \in 1..Len(s) : s[j] \in S
  BY ElementOfSeq
<1>3. /\ a \in Seq(S) /\ Len(a) = i - 1
      /\ \A j \in 1..(i - 1) : a[j] = s[j]
  <2>1. 1 \in Int /\ i - 1 \in Int /\ \A j \in 1..(i - 1) : s[j] \in S
    BY <1>1, <1>2
  <2>2. /\ a \in Seq(S) /\ Len(a) = IF 1 <= i - 1 THEN (i - 1) - 1 + 1 ELSE 0
        /\ \A j \in 1..((i - 1) - 1 + 1) : a[j] = s[1 + j - 1]
    BY <2>1, SubSeqProperties
  <2> QED
    BY <1>1, <2>2
<1>4. /\ b \in Seq(S) /\ Len(b) = Len(s) - i + 1
      /\ \A j \in 1..(Len(s) - i + 1) : b[j] = s[i + j - 1]
  <2>1. i \in Int /\ Len(s) \in Int /\ \A j \in i..Len(s) : s[j] \in S
    BY <1>1, <1>2
  <2>2. /\ b \in Seq(S) /\ Len(b) = IF i <= Len(s) THEN Len(s) - i + 1 ELSE 0
        /\ \A j \in 1..(Len(s) - i + 1) : b[j] = s[i + j - 1]
    BY <2>1, SubSeqProperties
  <2> QED
    BY <1>1, <2>2
<1>5. <<e>> \in Seq(S) /\ Len(<<e>>) = 1 /\ <<e>>[1] = e
  OBVIOUS
<1> HIDE DEF a, b
<1>6. /\ m \in Seq(S) /\ Len(m) = Len(a) + Len(<<e>>)
      /\ \A j \in 1..(Len(a) + Len(<<e>>)) :
            m[j] = IF j <= Len(a) THEN a[j] ELSE <<e>>[j - Len(a)]
  BY <1>3, <1>5, ConcatProperties
<1>7. Len(m) = i /\ \A j \in 1..i : m[j] = IF j < i THEN s[j] ELSE e
  <2>1. Len(m) = i
    BY <1>1, <1>3, <1>5, <1>6
  <2>2. ASSUME NEW j \in 1..i PROVE m[j] = IF j < i THEN s[j] ELSE e
    <3>1. CASE j < i
      BY <1>1, <1>3, <1>5, <1>6, <3>1
    <3>2. CASE j = i
      <4>1. j \in 1..(Len(a) + Len(<<e>>)) /\ ~(j <= Len(a)) /\ j - Len(a) = 1
        BY <1>1, <1>3, <1>5, <3>2
      <4> QED
        BY <1>5, <1>6, <3>2, <4>1
    <3>3. j < i \/ j = i
      BY <1>1
    <3> QED
      BY <3>1, <3>2, <3>3
  <2> QED
    BY <2>1, <2>2
<1> HIDE DEF m
<1>8. /\ m \o b \in Seq(S) /\ Len(m \o b) = Len(m) + Len(b)
      /\ \A j \in 1..(Len(m) + Len(b)) :
            (m \o b)[j] = IF j <= Len(m) THEN m[j] ELSE b[j - Len(m)]
  <2>1. m \in Seq(S) /\ b \in Seq(S)
    BY <1>4, <1>6
  <2> QED
    BY <2>1, ConcatProperties
<1>9. ASSUME NEW j \in 1..(Len(s) + 1)
      PROVE  (m \o b)[j] = IF j < i THEN s[j] ELSE IF j = i THEN e ELSE s[j - 1]
  <2>0. j \in 1..(Len(m) + Len(b))
    BY <1>1, <1>4, <1>7
  <2>1. CASE j <= i
    BY <1>1, <1>7, <1>8, <2>0, <2>1
  <2>2. CASE i < j
    <3>1. (m \o b)[j] = b[j - i]
      BY <1>1, <1>7, <1>8, <2>0, <2>2
    <3>2. j - i \in 1..(Len(s) - i + 1) /\ i + (j - i) - 1 = j - 1
      BY <1>1, <2>2
    <3> QED
      BY <1>1, <1>4, <2>2, <3>1, <3>2
  <2>3. j <= i \/ i < j
    BY <1>1
  <2> QED
    BY <2>1, <2>2, <2>3
<1>10. InsertAt(s, i, e) = m \o b
  BY DEF InsertAt, m, a, b
<1>11. Len(m \o b) = Len(s) + 1
  BY <1>1, <1>4, <1>7, <1>8
<1> QED
  BY <1>8, <1>9, <1>10, <1>11

\* A chain without repetitions stays one when an element it has not is put into it.
LEMMA InsertAtChain ==
    ASSUME NEW S, NEW s \in Seq(S), NEW i \in 1..(Len(s) + 1), NEW e \in S
    PROVE  /\ ToSet(InsertAt(s, i, e)) = {e} \cup ToSet(s)
           /\ IsInjective(s) /\ e \notin ToSet(s) => IsInjective(InsertAt(s, i, e))
<1> DEFINE r == InsertAt(s, i, e)
           f(j) == IF j < i THEN j ELSE j - 1
           g(j) == IF j < i THEN j ELSE j + 1
<1>1. /\ Len(r) = Len(s) + 1 /\ Len(s) \in Nat
      /\ DOMAIN s = 1..Len(s) /\ DOMAIN r = 1..Len(r)
      /\ \A j \in 1..(Len(s) + 1) : r[j] = IF j < i THEN s[j] ELSE IF j = i THEN e ELSE s[j - 1]
  BY InsertAtProperties, LenProperties
<1> HIDE DEF r
<1>2. i \in 1..Len(r) /\ r[i] = e
  BY <1>1
<1>3. \A j \in 1..Len(r) : j # i => f(j) \in 1..Len(s) /\ r[j] = s[f(j)]
  BY <1>1
<1>4. \A j \in 1..Len(s) : g(j) \in 1..Len(r) /\ r[g(j)] = s[j]
  <2> SUFFICES ASSUME NEW j \in 1..Len(s) PROVE g(j) \in 1..Len(r) /\ r[g(j)] = s[j]
    OBVIOUS
  <2>1. CASE j < i
    BY <1>1, <2>1
  <2>2. CASE ~(j < i)
    <3>1. j + 1 \in 1..(Len(s) + 1) /\ ~(j + 1 < i) /\ j + 1 # i /\ (j + 1) - 1 = j
      BY <1>1, <2>2
    <3> QED
      BY <1>1, <2>2, <3>1
  <2> QED
    BY <2>1, <2>2
<1>5. ToSet(r) = {e} \cup ToSet(s)
  <2>1. ASSUME NEW x \in ToSet(r) PROVE x \in {e} \cup ToSet(s)
    <3>1. PICK j \in 1..Len(r) : r[j] = x
      BY <1>1, <2>1 DEF ToSet
    <3> QED
      BY <1>1, <1>2, <1>3, <3>1 DEF ToSet
  <2>2. ASSUME NEW x \in ToSet(s) PROVE x \in ToSet(r)
    <3>1. PICK j \in 1..Len(s) : s[j] = x
      BY <1>1, <2>2 DEF ToSet
    <3> QED
      BY <1>1, <1>4, <3>1 DEF ToSet
  <2>3. e \in ToSet(r)
    BY <1>1, <1>2 DEF ToSet
  <2> QED
    BY <2>1, <2>2, <2>3
<1>6. ASSUME IsInjective(s), e \notin ToSet(s) PROVE IsInjective(r)
  <2>1. /\ \A j, k \in 1..Len(s) : s[j] = s[k] => j = k
        /\ \A j \in 1..Len(s) : s[j] # e
    BY <1>1, <1>6 DEF IsInjective, ToSet
  <2>2. \A j, k \in 1..Len(r) : j # i /\ k # i /\ f(j) = f(k) => j = k
    BY <1>1
  <2>3. ASSUME NEW j \in 1..Len(r), NEW k \in 1..Len(r), r[j] = r[k] PROVE j = k
    <3>1. CASE j = i \/ k = i
      BY <1>2, <1>3, <2>1, <2>3, <3>1
    <3>2. CASE j # i /\ k # i
      BY <1>3, <2>1, <2>2, <2>3, <3>2
    <3> QED
      BY <3>1, <3>2
  <2> QED
    BY <1>1, <2>3 DEF IsInjective
<1> QED
  BY <1>5, <1>6 DEF r

----------------------------------------------------------------------------
(* What blocks occupy.                                                     *)

\* A block of a size has that many bytes.
LEMMA BlockBytes ==
    ASSUME NEW x, NEW n \in Nat
    PROVE  IsFiniteSet({x} \X (1..n)) /\ Cardinality({x} \X (1..n)) = n
<1>1. IsFiniteSet({x}) /\ Cardinality({x}) = 1
  BY FS_Singleton
<1>2. IsFiniteSet(1..n) /\ Cardinality(1..n) = n
  BY FS_Interval
<1>3. /\ IsFiniteSet({x} \X (1..n))
      /\ Cardinality({x} \X (1..n)) = Cardinality({x}) * Cardinality(1..n)
  BY <1>1, <1>2, FS_Product, Zenon
<1>4. 1 * n = n
  OBVIOUS
<1> QED
  BY <1>1, <1>2, <1>3, <1>4

\* The sizes g are those of f, and that of one more block x.
Grown(f, g, x) == /\ x \notin DOMAIN f /\ DOMAIN g = DOMAIN f \cup {x} /\ g[x] \in Nat
                  /\ \A y \in DOMAIN f : g[y] = f[y]

\* One more block occupies its size besides what the others do.
LEMMA BytesGrow ==
    ASSUME NEW f, NEW g, NEW x, Grown(f, g, x)
    PROVE  /\ IsFiniteSet(Bytes(f)) <=> IsFiniteSet(Bytes(g))
           /\ IsFiniteSet(Bytes(f)) => Cardinality(Bytes(g)) = Cardinality(Bytes(f)) + g[x]
<1> USE DEF Grown
<1> DEFINE B == {x} \X (1..g[x])
<1>1. Bytes(g) = Bytes(f) \cup B
  <2>1. Bytes(g) = (UNION {{b} \X (1..g[b]) : b \in DOMAIN f}) \cup B
    BY DEF Bytes
  <2>2. {{b} \X (1..g[b]) : b \in DOMAIN f} = {{b} \X (1..f[b]) : b \in DOMAIN f}
    OBVIOUS
  <2> QED
    BY <2>1, <2>2 DEF Bytes
<1>2. Bytes(f) \cap B = {}
  BY DEF Bytes
<1>3. IsFiniteSet(B) /\ Cardinality(B) = g[x]
  BY BlockBytes
<1> HIDE DEF B
<1>4. ASSUME IsFiniteSet(Bytes(f))
      PROVE  IsFiniteSet(Bytes(g)) /\ Cardinality(Bytes(g)) = Cardinality(Bytes(f)) + g[x]
  <2>1. IsFiniteSet(Bytes(g)) /\ Cardinality(Bytes(g)) = Cardinality(Bytes(f)) + Cardinality(B) - Cardinality({})
    BY <1>1, <1>2, <1>3, <1>4, FS_Union
  <2>2. Cardinality({}) = 0 /\ Cardinality(Bytes(f)) \in Nat
    BY <1>4, FS_EmptySet, FS_CardinalityType
  <2> QED
    BY <1>3, <2>1, <2>2
<1>5. IsFiniteSet(Bytes(g)) => IsFiniteSet(Bytes(f))
  BY <1>1, FS_Subset
<1> QED
  BY <1>4, <1>5

\* A block that is resized occupies what it does now instead of what it did.
LEMMA BytesResize ==
    ASSUME NEW f, NEW g, NEW x \in DOMAIN f, DOMAIN g = DOMAIN f, f[x] \in Nat, g[x] \in Nat,
           \A y \in DOMAIN f \ {x} : g[y] = f[y], IsFiniteSet(Bytes(f))
    PROVE  /\ IsFiniteSet(Bytes(g))
           /\ Cardinality(Bytes(g)) = Cardinality(Bytes(f)) - f[x] + g[x]
<1> DEFINE h == [y \in DOMAIN f \ {x} |-> f[y]]
<1>1. PICK k : k = h
  OBVIOUS
<1>2. Grown(k, f, x) /\ Grown(k, g, x)
  BY <1>1 DEF Grown
<1> HIDE DEF h
<1>3. IsFiniteSet(Bytes(k)) /\ Cardinality(Bytes(f)) = Cardinality(Bytes(k)) + f[x]
  BY <1>2, BytesGrow
<1>4. IsFiniteSet(Bytes(g)) /\ Cardinality(Bytes(g)) = Cardinality(Bytes(k)) + g[x]
  BY <1>2, <1>3, BytesGrow
<1>5. Cardinality(Bytes(k)) \in Nat
  BY <1>3, FS_CardinalityType
<1> QED
  BY <1>3, <1>4, <1>5

\* Blocks that are none occupy nothing.
LEMMA BytesNone ==
    ASSUME NEW f, DOMAIN f = {}
    PROVE  IsFiniteSet(Bytes(f)) /\ Cardinality(Bytes(f)) = 0
BY FS_EmptySet DEF Bytes

----------------------------------------------------------------------------
(* An element put behind a chain, and the chain behind its head.           *)

LEMMA AppendChain ==
    ASSUME NEW S, NEW s \in Seq(S), NEW e \in S
    PROVE  /\ Append(s, e) \in Seq(S)
           /\ ToSet(Append(s, e)) = ToSet(s) \cup {e}
           /\ IsInjective(s) /\ e \notin ToSet(s) => IsInjective(Append(s, e))
           /\ \A x, y : Before(Append(s, e), x, y) => Before(s, x, y) \/ y = e
<1> DEFINE c == Append(s, e)
<1>1. /\ c \in Seq(S) /\ Len(c) = Len(s) + 1 /\ Len(s) \in Nat
      /\ DOMAIN s = 1..Len(s) /\ DOMAIN c = 1..Len(c)
      /\ \A i \in 1..Len(s) : c[i] = s[i]
      /\ c[Len(c)] = e
  BY AppendProperties, LenProperties
<1> HIDE DEF c
<1>2. \A i \in 1..Len(c) : i \in 1..Len(s) \/ i = Len(c)
  BY <1>1
<1>3. \A i \in 1..Len(s) : i \in 1..Len(c) /\ i < Len(c)
  BY <1>1
<1>4. Len(c) \in 1..Len(c) /\ \A i \in 1..Len(c) : i <= Len(c)
  BY <1>1
<1>5. ToSet(c) = ToSet(s) \cup {e}
  <2>1. ASSUME NEW x \in ToSet(c) PROVE x \in ToSet(s) \cup {e}
    BY <1>1, <1>2, <2>1 DEF ToSet
  <2>2. ASSUME NEW x \in ToSet(s) PROVE x \in ToSet(c)
    <3>1. PICK i \in 1..Len(s) : s[i] = x
      BY <1>1 DEF ToSet
    <3> QED
      BY <1>1, <1>3, <3>1 DEF ToSet
  <2>3. e \in ToSet(c)
    BY <1>1, <1>4 DEF ToSet
  <2> QED
    BY <2>1, <2>2, <2>3
<1>6. ASSUME IsInjective(s), e \notin ToSet(s) PROVE IsInjective(c)
  <2>1. /\ \A j, k \in 1..Len(s) : s[j] = s[k] => j = k
        /\ \A j \in 1..Len(s) : s[j] # e
    BY <1>1, <1>6 DEF IsInjective, ToSet
  <2> QED
    BY <1>1, <1>2, <2>1 DEF IsInjective
<1>7. ASSUME NEW x, NEW y, Before(c, x, y) PROVE Before(s, x, y) \/ y = e
  <2>1. PICK i \in 1..Len(c), j \in 1..Len(c) : i < j /\ c[i] = x /\ c[j] = y
    BY <1>7 DEF Before
  <2>2. CASE j = Len(c)
    BY <1>1, <2>1, <2>2
  <2>3. CASE j # Len(c)
    <3>1. i # Len(c)
      BY <1>1, <2>1
    <3>2. i \in 1..Len(s) /\ j \in 1..Len(s)
      BY <1>2, <2>3, <3>1
    <3> QED
      BY <1>1, <2>1, <3>2 DEF Before
  <2> QED
    BY <2>2, <2>3
<1> QED
  BY <1>1, <1>5, <1>6, <1>7 DEF c

\* The chain behind the head is in the order it was.
LEMMA TailOrder ==
    ASSUME NEW S, NEW s \in Seq(S), s # <<>>
    PROVE  \A x, y : Before(Tail(s), x, y) => Before(s, x, y)
<1>1. Len(s) \in Nat /\ Len(s) # 0
  BY LenProperties, EmptySeq
<1>2. Len(Tail(s)) = Len(s) - 1 /\ \A i \in 1..Len(Tail(s)) : Tail(s)[i] = s[i + 1]
  BY HeadTailProperties
<1> SUFFICES ASSUME NEW x, NEW y, Before(Tail(s), x, y) PROVE Before(s, x, y)
  OBVIOUS
<1>3. PICK i \in 1..Len(Tail(s)), j \in 1..Len(Tail(s)) : i < j /\ Tail(s)[i] = x /\ Tail(s)[j] = y
  BY DEF Before
<1>4. i + 1 \in 1..Len(s) /\ j + 1 \in 1..Len(s) /\ i + 1 < j + 1
  BY <1>1, <1>2, <1>3
<1> QED
  BY <1>2, <1>3, <1>4 DEF Before

----------------------------------------------------------------------------
(* Bounds on what blocks occupy.                                           *)

\* Pairs of an element and a value that goes with it are as many as the elements.
LEMMA Tagged ==
    ASSUME NEW A, IsFiniteSet(A), NEW f
    PROVE  /\ IsFiniteSet({<<x, f[x]>> : x \in A})
           /\ Cardinality({<<x, f[x]>> : x \in A}) = Cardinality(A)
<1> DEFINE T == {<<x, f[x]>> : x \in A}
           g == [x \in A |-> <<x, f[x]>>]
<1>1. g \in [A -> T]
  OBVIOUS
<1>2. g \in Bijection(A, T)
  <2>1. \A x, y \in A : g[x] = g[y] => x = y
    OBVIOUS
  <2>2. \A t \in T : \E x \in A : g[x] = t
    OBVIOUS
  <2> QED
    BY <1>1, <2>1, <2>2 DEF Bijection, Injection, Surjection, IsInjective
<1>3. ExistsBijection(A, T)
  BY <1>2 DEF ExistsBijection
<1> QED
  BY <1>3, FS_Bijection

\* As many blocks as a chain without repetitions has elements, each of at most m
\* bytes, occupy at most that many times m.
LEMMA ChainCount ==
    ASSUME NEW S, NEW s \in Seq(S), IsInjective(s)
    PROVE  IsFiniteSet(ToSet(s)) /\ Cardinality(ToSet(s)) = Len(s)
<1>1. Len(s) \in Nat /\ DOMAIN s = 1..Len(s)
  BY LenProperties
<1>2. s \in [1..Len(s) -> ToSet(s)]
  BY <1>1 DEF ToSet
<1>3. s \in Bijection(1..Len(s), ToSet(s))
  <2>1. \A i, j \in 1..Len(s) : s[i] = s[j] => i = j
    BY <1>1 DEF IsInjective
  <2>2. \A t \in ToSet(s) : \E i \in 1..Len(s) : s[i] = t
    BY <1>1 DEF ToSet
  <2> QED
    BY <1>2, <2>1, <2>2 DEF Bijection, Injection, Surjection, IsInjective
<1>4. ExistsBijection(1..Len(s), ToSet(s))
  BY <1>3 DEF ExistsBijection
<1>5. IsFiniteSet(1..Len(s)) /\ Cardinality(1..Len(s)) = Len(s)
  BY <1>1, FS_Interval
<1> QED
  BY <1>4, <1>5, FS_Bijection

LEMMA BytesBound ==
    ASSUME NEW f, IsFiniteSet(DOMAIN f), NEW m \in Nat, \A x \in DOMAIN f : f[x] \in 0..m
    PROVE  /\ IsFiniteSet(Bytes(f))
           /\ Cardinality(Bytes(f)) <= Cardinality(DOMAIN f) * m
<1>1. IsFiniteSet(1..m) /\ Cardinality(1..m) = m
  BY FS_Interval
<1>2. IsFiniteSet((DOMAIN f) \X (1..m)) /\ Cardinality((DOMAIN f) \X (1..m)) = Cardinality(DOMAIN f) * m
  BY <1>1, FS_Product, Zenon
<1>3. Bytes(f) \subseteq (DOMAIN f) \X (1..m)
  BY DEF Bytes
<1> QED
  BY <1>2, <1>3, FS_Subset

\* Fewer and smaller blocks occupy no more.
LEMMA BytesWithin ==
    ASSUME NEW f, NEW g, IsFiniteSet(Bytes(g)), DOMAIN f \subseteq DOMAIN g,
           \A x \in DOMAIN f : f[x] \in Nat /\ g[x] \in Nat /\ f[x] <= g[x]
    PROVE  IsFiniteSet(Bytes(f)) /\ Cardinality(Bytes(f)) <= Cardinality(Bytes(g))
<1>1. Bytes(f) \subseteq Bytes(g)
  <2> SUFFICES ASSUME NEW x \in DOMAIN f, NEW i \in 1..f[x] PROVE <<x, i>> \in Bytes(g)
    BY DEF Bytes
  <2>1. i \in 1..g[x] /\ x \in DOMAIN g
    OBVIOUS
  <2> QED
    BY <2>1 DEF Bytes
<1> QED
  BY <1>1, FS_Subset

----------------------------------------------------------------------------
(* A chain the other way round.                                            *)

LEMMA ReverseIsSeq ==
    ASSUME NEW S, NEW s \in Seq(S)
    PROVE  Reverse(s) \in Seq(S)
<1>1. Len(s) \in Nat
  BY LenProperties
<1>2. \A i \in 1..Len(s) : (Len(s) - i) + 1 \in 1..Len(s)
  BY <1>1
<1>3. Reverse(s) \in [1..Len(s) -> S]
  BY <1>1, <1>2, ElementOfSeq DEF Reverse
<1> QED
  BY <1>1, <1>3, SeqDef

=============================================================================
