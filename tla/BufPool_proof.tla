---------------------------- MODULE BufPool_proof ----------------------------
(***************************************************************************)
(* Proofs about BufPool, for any set of pages, any limit and slot size,    *)
(* and any number of slots a byte can count.                               *)
(***************************************************************************)
EXTENDS BufPool, ChainLemmas, FiniteSetTheorems

\* The inductive invariant.  The chains are needed for the partition: a page
\* that is made must not hold slots of an earlier life, and it holds none since
\* a page that is off the chain has no slots at all.
Inv == TypeOK /\ Partition /\ ChainsExact

\* What Partition says of one page with header r and slots L held by callers.
UntouchedOf(r) == IF r.rest = 0 THEN {} ELSE r.rest..r.n
PageOK(r, L) ==
    /\ r.rest <= r.n
    /\ L \cup r.fl \cup UntouchedOf(r) = 1..r.n
    /\ L \cap r.fl = {}
    /\ (L \cup r.fl) \cap UntouchedOf(r) = {}
    /\ r.use = Cardinality(L)

\* The header of a page after each kind of call.
RestTaken(r) == [r EXCEPT !.use = @ + 1, !.rest = NextRest(@, r.n)]
FreedTaken(r, s) == [r EXCEPT !.use = @ + 1, !.fl = @ \ {s}]
GivenBack(r, s) == [r EXCEPT !.use = @ - 1, !.fl = @ \cup {s}]

----------------------------------------------------------------------------
(* Pages one at a time.                                                    *)

\* Sets of slots are finite and no larger than a page.
LEMMA SlotsFinite ==
    ASSUME NEW A, A \subseteq 1..HeapMax
    PROVE  IsFiniteSet(A) /\ Cardinality(A) \in 0..HeapMax
<1>1. 1 \in Int /\ HeapMax \in Int /\ HeapMax >= 1
  BY HeapMaxAssumption
<1>2. IsFiniteSet(1..HeapMax) /\ Cardinality(1..HeapMax) = HeapMax
  BY <1>1, FS_Interval
<1>3. IsFiniteSet(A) /\ Cardinality(A) <= HeapMax
  BY <1>2, FS_Subset
<1> QED
  BY <1>1, <1>3, FS_CardinalityType

\* A page just made, whose first slot is handed out.
LEMMA NewPage ==
    ASSUME NEW n \in 1..HeapMax,
           NEW r, r = [n |-> n, use |-> 1, fl |-> {}, rest |-> IF n > 1 THEN 2 ELSE 0]
    PROVE  r \in PageType /\ PageOK(r, {1})
<1>1. HeapMax \in Nat /\ r \in PageType
  BY HeapMaxAssumption DEF PageType
<1>2. r.n = n /\ r.use = 1 /\ r.fl = {} /\ r.rest = IF n > 1 THEN 2 ELSE 0
  OBVIOUS
<1>3. UntouchedOf(r) = IF n > 1 THEN 2..n ELSE {}
  BY <1>2 DEF UntouchedOf
<1>4. Cardinality({1}) = 1
  BY FS_Singleton
<1>5. {1} \cup UntouchedOf(r) = 1..n /\ {1} \cap UntouchedOf(r) = {}
  <2>1. n \in Nat \ {0} /\ 1..1 = {1}
    OBVIOUS
  <2>2. n > 1 => {1} \cup (2..n) = 1..n /\ 1 \notin 2..n
    BY <2>1
  <2>3. CASE n = 1
    BY <1>3, <2>1, <2>3
  <2>4. CASE n > 1
    <3>1. UntouchedOf(r) = 2..n
      BY <1>3, <2>4
    <3> QED
      BY <2>2, <2>4, <3>1
  <2> QED
    BY <2>1, <2>3, <2>4
<1>6. PageOK(r, {1})
  BY <1>2, <1>4, <1>5 DEF PageOK
<1> QED
  BY <1>1, <1>6

\* A page that is gone.
LEMMA EmptyPage == NoPage \in PageType /\ PageOK(NoPage, {})
<1>1. HeapMax \in Nat /\ NoPage \in PageType
  BY HeapMaxAssumption DEF PageType, NoPage
<1>2. Cardinality({}) = 0 /\ 1..0 = {}
  BY FS_EmptySet
<1> QED
  BY <1>1, <1>2 DEF PageOK, NoPage, UntouchedOf

\* One more slot held: useNum follows and stays within the page.
LEMMA OneMore ==
    ASSUME NEW L, L \subseteq 1..HeapMax, NEW s \in 1..HeapMax, s \notin L
    PROVE  /\ Cardinality(L \cup {s}) = Cardinality(L) + 1
           /\ Cardinality(L) + 1 \in 0..HeapMax
<1>1. L \cup {s} \subseteq 1..HeapMax
  OBVIOUS
<1>2. Cardinality(L \cup {s}) = Cardinality(L) + 1
  BY SlotsFinite, FS_AddElement
<1> QED
  BY <1>1, <1>2, SlotsFinite

\* A slot from the untouched end.
LEMMA TakeRest ==
    ASSUME NEW r \in PageType, NEW L, L \subseteq 1..HeapMax, PageOK(r, L), r.rest # 0
    PROVE  /\ r.rest \in 1..HeapMax
           /\ RestTaken(r) \in PageType /\ PageOK(RestTaken(r), L \cup {r.rest})
           /\ RestTaken(r).n = r.n /\ RestTaken(r).fl = r.fl
<1>0. PICK r2 : r2 = [r EXCEPT !.use = @ + 1, !.rest = NextRest(@, r.n)]
  OBVIOUS
<1> DEFINE s == r.rest
<1>1. /\ HeapMax \in Nat /\ r.n \in 0..HeapMax /\ r.use \in 0..HeapMax
      /\ r.fl \subseteq 1..HeapMax /\ s \in 1..r.n
  BY HeapMaxAssumption DEF PageType, PageOK
<1>2. /\ r2.n = r.n /\ r2.use = r.use + 1 /\ r2.fl = r.fl
      /\ r2.rest = IF s = r.n THEN 0 ELSE s + 1
      /\ r2 = [n |-> r2.n, use |-> r2.use, fl |-> r2.fl, rest |-> r2.rest]
  BY <1>0 DEF PageType, NextRest
<1>3. UntouchedOf(r) = s..r.n /\ UntouchedOf(r2) = (s + 1)..r.n
  BY <1>1, <1>2 DEF UntouchedOf
<1>4. s..r.n = {s} \cup ((s + 1)..r.n)
  BY <1>1
<1>5. s \in 1..HeapMax /\ s \notin L /\ s \notin r.fl
  BY <1>1, <1>3, <1>4 DEF PageOK
<1>6. /\ Cardinality(L \cup {s}) = Cardinality(L) + 1
      /\ Cardinality(L) + 1 \in 0..HeapMax
  BY <1>5, OneMore
<1> HIDE DEF s
<1>7. r2 \in PageType
  <2>1. r2.use \in 0..HeapMax
    BY <1>2, <1>6 DEF PageOK
  <2>2. r2.rest \in 0..HeapMax
    BY <1>1, <1>2
  <2> QED
    BY <1>1, <1>2, <2>1, <2>2 DEF PageType
<1>8. PageOK(r2, L \cup {s})
  <2>1. (L \cup {s}) \cup r.fl \cup ((s + 1)..r.n) = 1..r.n
    BY <1>3, <1>4 DEF PageOK
  <2>2. ((L \cup {s}) \cup r.fl) \cap ((s + 1)..r.n) = {}
    <3>1. s \notin (s + 1)..r.n
      BY <1>1
    <3> QED
      BY <1>3, <1>4, <3>1 DEF PageOK
  <2>3. (L \cup {s}) \cap r.fl = {}
    BY <1>5 DEF PageOK
  <2>4. r2.rest <= r2.n
    BY <1>1, <1>2
  <2>5. r2.use = Cardinality(L \cup {s})
    BY <1>2, <1>6 DEF PageOK
  <2> QED
    BY <1>2, <1>3, <2>1, <2>2, <2>3, <2>4, <2>5 DEF PageOK
<1>9. RestTaken(r) = r2
  BY <1>0 DEF RestTaken
<1> QED
  BY <1>9, <1>2, <1>5, <1>7, <1>8 DEF s

\* A slot that was freed before.
LEMMA TakeFreed ==
    ASSUME NEW r \in PageType, NEW L, L \subseteq 1..HeapMax, PageOK(r, L), NEW s \in r.fl
    PROVE  /\ s \in 1..HeapMax
           /\ FreedTaken(r, s) \in PageType /\ PageOK(FreedTaken(r, s), L \cup {s})
           /\ FreedTaken(r, s).n = r.n /\ FreedTaken(r, s).fl = r.fl \ {s}
<1>0. PICK r2 : r2 = [r EXCEPT !.use = @ + 1, !.fl = @ \ {s}]
  OBVIOUS
<1>1. /\ HeapMax \in Nat /\ r.fl \subseteq 1..HeapMax /\ s \in 1..HeapMax /\ s \notin L
  BY HeapMaxAssumption DEF PageType, PageOK
<1>2. /\ r2.n = r.n /\ r2.use = r.use + 1 /\ r2.fl = r.fl \ {s} /\ r2.rest = r.rest
      /\ r2 = [n |-> r2.n, use |-> r2.use, fl |-> r2.fl, rest |-> r2.rest]
  BY <1>0 DEF PageType
<1>3. /\ Cardinality(L \cup {s}) = Cardinality(L) + 1
      /\ Cardinality(L) + 1 \in 0..HeapMax
  BY <1>1, OneMore
<1>4. r2 \in PageType
  <2>1. r2.use \in 0..HeapMax
    BY <1>2, <1>3 DEF PageOK
  <2> QED
    BY <1>1, <1>2, <2>1 DEF PageType
<1>5. UntouchedOf(r2) = UntouchedOf(r)
  BY <1>2 DEF UntouchedOf
<1>6. PageOK(r2, L \cup {s})
  <2>1. (L \cup {s}) \cup (r.fl \ {s}) = L \cup r.fl
    OBVIOUS
  <2>2. (L \cup {s}) \cap (r.fl \ {s}) = {}
    BY <1>1 DEF PageOK
  <2>3. r2.use = Cardinality(L \cup {s})
    BY <1>2, <1>3 DEF PageOK
  <2> QED
    BY <1>2, <1>5, <2>1, <2>2, <2>3 DEF PageOK
<1>9. FreedTaken(r, s) = r2
  BY <1>0 DEF FreedTaken
<1> QED
  BY <1>9, <1>1, <1>2, <1>4, <1>6

\* A slot that is freed.
LEMMA GiveBack ==
    ASSUME NEW r \in PageType, NEW L, L \subseteq 1..HeapMax, PageOK(r, L), NEW s \in L
    PROVE  /\ GivenBack(r, s) \in PageType /\ PageOK(GivenBack(r, s), L \ {s})
           /\ GivenBack(r, s).n = r.n /\ GivenBack(r, s).fl = r.fl \cup {s} /\ s \in 1..r.n
<1>0. PICK r2 : r2 = [r EXCEPT !.use = @ - 1, !.fl = @ \cup {s}]
  OBVIOUS
<1>1. /\ HeapMax \in Nat /\ r.fl \subseteq 1..HeapMax /\ s \in 1..HeapMax /\ s \in 1..r.n
  BY HeapMaxAssumption DEF PageType, PageOK
<1>2. /\ r2.n = r.n /\ r2.use = r.use - 1 /\ r2.fl = r.fl \cup {s} /\ r2.rest = r.rest
      /\ r2 = [n |-> r2.n, use |-> r2.use, fl |-> r2.fl, rest |-> r2.rest]
  BY <1>0 DEF PageType
<1>3. /\ Cardinality(L \ {s}) = Cardinality(L) - 1
      /\ Cardinality(L) - 1 \in 0..HeapMax
  <2>1. L \ {s} \subseteq 1..HeapMax
    OBVIOUS
  <2>2. Cardinality(L \ {s}) = Cardinality(L) - 1
    BY SlotsFinite, FS_RemoveElement
  <2> QED
    BY <2>1, <2>2, SlotsFinite
<1>4. r2 \in PageType
  <2>1. r2.use \in 0..HeapMax
    BY <1>2, <1>3 DEF PageOK
  <2> QED
    BY <1>1, <1>2, <2>1 DEF PageType
<1>5. UntouchedOf(r2) = UntouchedOf(r)
  BY <1>2 DEF UntouchedOf
<1>6. PageOK(r2, L \ {s})
  <2>1. (L \ {s}) \cup (r.fl \cup {s}) = L \cup r.fl
    OBVIOUS
  <2>2. (L \ {s}) \cap (r.fl \cup {s}) = {}
    BY DEF PageOK
  <2>3. r2.use = Cardinality(L \ {s})
    BY <1>2, <1>3 DEF PageOK
  <2> QED
    BY <1>2, <1>5, <2>1, <2>2, <2>3 DEF PageOK
<1>9. GivenBack(r, s) = r2
  BY <1>0 DEF GivenBack
<1> QED
  BY <1>9, <1>1, <1>2, <1>4, <1>6


----------------------------------------------------------------------------
(* The calls.                                                              *)

\* Partition speaks of each page alone: of its header and of the slots held in it.
LEMMA PartitionIsPages ==
    Partition <=> \A p \in Pages : PageOK(pg[p], LiveIn(p))
BY DEF Partition, PageOK, Untouched, UntouchedOf

\* The head of a chain that is not empty is a page of the chain.
LEMMA HeadInSet ==
    ASSUME NEW S, NEW s \in Seq(S), s # <<>>
    PROVE  Head(s) \in S /\ Head(s) \in ToSet(s)
<1>1. Len(s) \in Nat \ {0}
  BY EmptySeq
<1>2. 1 \in DOMAIN s /\ Head(s) = s[1]
  BY <1>1, LenProperties
<1> QED
  BY <1>2, HeadTailProperties DEF ToSet

\* A call that replaces the header of one page and the slots held in it.
LEMMA OnePage ==
    ASSUME TypeOK, Partition, NEW p \in Pages, NEW r \in PageType, NEW L,
           PageOK(r, L), pg' = [pg EXCEPT ![p] = r], LiveIn(p)' = L,
           \A q \in Pages \ {p} : LiveIn(q)' = LiveIn(q)
    PROVE  /\ pg' \in [Pages -> PageType] /\ Partition'
           /\ \A q \in Pages : pg'[q] = IF q = p THEN r ELSE pg[q]
<1>1. pg' \in [Pages -> PageType] /\ \A q \in Pages : pg'[q] = IF q = p THEN r ELSE pg[q]
  BY DEF TypeOK
<1>2. \A q \in Pages : PageOK(pg[q], LiveIn(q))
  BY PartitionIsPages
<1>3. \A q \in Pages : PageOK(pg'[q], LiveIn(q)')
  BY <1>1, <1>2
<1>4. Partition'
  BY <1>3 DEF Partition, PageOK, Untouched, UntouchedOf
<1> QED
  BY <1>1, <1>4

\* A slot more, or a slot less, is held in one page and in no other.
LEMMA HoldOne ==
    ASSUME TypeOK, NEW p \in Pages, NEW s \in 1..HeapMax, live' = live \cup {<<p, s>>}
    PROVE  /\ live' \subseteq Pages \X (1..HeapMax)
           /\ LiveIn(p)' = LiveIn(p) \cup {s}
           /\ \A q \in Pages \ {p} : LiveIn(q)' = LiveIn(q)
BY DEF TypeOK, LiveIn

\* The same for a slot that is given back.
LEMMA DropOne ==
    ASSUME TypeOK, NEW p \in Pages, NEW s \in 1..HeapMax, live' = live \ {<<p, s>>}
    PROVE  /\ live' \subseteq Pages \X (1..HeapMax)
           /\ LiveIn(p)' = LiveIn(p) \ {s}
           /\ \A q \in Pages \ {p} : LiveIn(q)' = LiveIn(q)
BY DEF TypeOK, LiveIn

\* The pool starts without pages: the invariant holds of it.
LEMMA InvInit == Init => Inv
<1> SUFFICES ASSUME Init PROVE Inv
  OBVIOUS
<1>1. pg \in [Pages -> PageType] /\ \A p \in Pages : pg[p] = NoPage /\ LiveIn(p) = {}
  BY EmptyPage DEF Init, LiveIn
<1>2. TypeOK
  BY <1>1, HeapMaxAssumption DEF Init, TypeOK
<1>3. Partition
  BY <1>1, EmptyPage, PartitionIsPages
<1>4. ChainsExact
  BY <1>1 DEF Init, NoPage, ChainsExact, ToSet, IsInjective
<1> QED
  BY <1>2, <1>3, <1>4 DEF Inv

\* Every number of slots czl_mm_sp_create tries is one a page may have.
LEMMA TriesInRange ==
    ASSUME num \in 1..HeapMax
    PROVE  Tries \subseteq 1..HeapMax
<1>1. \A d \in {1, 2, 4, 8, 16, 32, 64, 128} : num \div d \in 0..num
  BY HeapMaxAssumption
<1> QED
  BY <1>1, HeapMaxAssumption DEF Tries

\* A page off the chain has no slots, so a new page starts with none.
LEMMA CreateInv ==
    ASSUME Inv, MallocCreate
    PROVE  Inv'
<1>0. TypeOK /\ Partition /\ ChainsExact
  BY DEF Inv
<1>1. PICK p \in Pages \ ToSet(list), n \in Tries : Created(p, n)
  BY DEF MallocCreate
<1>2. n \in 1..HeapMax
  BY <1>0, TriesInRange DEF TypeOK
<1> DEFINE r == [n |-> n, use |-> 1, fl |-> {}, rest |-> IF n > 1 THEN 2 ELSE 0]
<1>3. /\ pg' = [pg EXCEPT ![p] = r] /\ list' = <<p>> \o list /\ free' = free
      /\ live' = live \cup {<<p, 1>>} /\ num' = NextNum(n) /\ cnt' = Counted(n)
  BY <1>1 DEF Created, MallocCreate
<1>4. r \in PageType /\ PageOK(r, {1}) /\ r.n = n /\ r.fl = {}
  BY <1>2, NewPage
<1> HIDE DEF r
<1>5. pg[p].n = 0 /\ pg[p].fl = {} /\ LiveIn(p) = {}
  <2>1. pg[p].n = 0
    BY <1>0, <1>1 DEF ChainsExact, TypeOK, PageType
  <2>2. 1..pg[p].n = {}
    BY <2>1
  <2> QED
    BY <1>0, <2>1, <2>2 DEF Partition
<1>6. /\ live' \subseteq Pages \X (1..HeapMax) /\ LiveIn(p)' = {1}
      /\ \A q \in Pages \ {p} : LiveIn(q)' = LiveIn(q)
  <2>1. 1 \in 1..HeapMax
    BY HeapMaxAssumption
  <2> QED
    BY <1>0, <1>3, <1>5, <2>1, HoldOne
<1>7. /\ pg' \in [Pages -> PageType] /\ Partition'
      /\ \A q \in Pages : pg'[q] = IF q = p THEN r ELSE pg[q]
  BY <1>0, <1>3, <1>4, <1>6, OnePage
<1>8. TypeOK'
  <2>1. list' \in Seq(Pages)
    BY <1>0, <1>3, ConsProperties DEF TypeOK
  <2>2. num' \in 1..HeapMax
    BY <1>2, <1>3, HeapMaxAssumption DEF NextNum
  <2>3. cnt' \in Int
    BY <1>0, <1>2, <1>3, SizeAssumption DEF TypeOK, Counted, PageSize
  <2> QED
    BY <1>0, <1>3, <1>6, <1>7, <2>1, <2>2, <2>3 DEF TypeOK
<1>9. ChainsExact'
  <2>1. IsInjective(list') /\ ToSet(list') = {p} \cup ToSet(list)
    BY <1>0, <1>1, <1>3, ConsProperties DEF TypeOK, ChainsExact
  <2>2. ToSet(list') = {q \in Pages : pg'[q].n > 0}
    BY <1>0, <1>2, <1>4, <1>7, <2>1 DEF ChainsExact
  <2>3. ToSet(free') = {q \in Pages : pg'[q].fl # {}}
    BY <1>0, <1>3, <1>4, <1>5, <1>7 DEF ChainsExact
  <2> QED
    BY <1>0, <1>3, <2>1, <2>2, <2>3 DEF ChainsExact
<1> QED
  BY <1>7, <1>8, <1>9 DEF Inv

\* A call that fails changes only the size of the next page.
LEMMA FailInv ==
    ASSUME Inv, MallocFails
    PROVE  Inv'
<1>1. UNCHANGED <<list, free, pg, live, cnt>> /\ num' = 1
  BY DEF MallocFails
<1>2. TypeOK'
  BY <1>1, HeapMaxAssumption DEF Inv, TypeOK
<1>3. Partition'
  BY <1>1 DEF Inv, Partition, LiveIn, Untouched
<1>4. ChainsExact'
  BY <1>1 DEF Inv, ChainsExact
<1> QED
  BY <1>2, <1>3, <1>4 DEF Inv

\* A slot from the untouched end of the newest page: the chains are as before.
LEMMA RestInv ==
    ASSUME Inv, MallocRest
    PROVE  Inv'
<1>0. TypeOK /\ Partition /\ ChainsExact
  BY DEF Inv
<1>1. PICK p \in Pages : p = Head(list) /\ pg[p].rest # 0
  BY <1>0, HeadInSet DEF MallocRest, HeadHasRest, TypeOK
<1>b. PICK s : s = pg[p].rest
  OBVIOUS
<1> DEFINE r == RestTaken(pg[p])
<1>2. /\ pg' = [pg EXCEPT ![p] = r] /\ live' = live \cup {<<p, s>>}
      /\ UNCHANGED <<list, free, num, cnt>>
  BY <1>0, <1>1, <1>b DEF MallocRest, TypeOK, RestTaken
<1>3. /\ s \in 1..HeapMax /\ r \in PageType
      /\ PageOK(r, LiveIn(p) \cup {s})
      /\ r.n = pg[p].n /\ r.fl = pg[p].fl
  <2>1. pg[p] \in PageType /\ PageOK(pg[p], LiveIn(p)) /\ LiveIn(p) \subseteq 1..HeapMax
    BY <1>0, <1>1, PartitionIsPages DEF TypeOK, LiveIn
  <2> QED
    BY <1>1, <1>b, <2>1, TakeRest
<1> HIDE DEF r
<1>4. /\ live' \subseteq Pages \X (1..HeapMax)
      /\ LiveIn(p)' = LiveIn(p) \cup {s}
      /\ \A q \in Pages \ {p} : LiveIn(q)' = LiveIn(q)
  BY <1>0, <1>1, <1>2, <1>3, HoldOne
<1>5. /\ pg' \in [Pages -> PageType] /\ Partition'
      /\ \A q \in Pages : pg'[q] = IF q = p THEN r ELSE pg[q]
  BY <1>0, <1>1, <1>2, <1>3, <1>4, OnePage
<1>6. TypeOK'
  BY <1>0, <1>2, <1>4, <1>5 DEF TypeOK
<1>7. ChainsExact'
  BY <1>0, <1>2, <1>3, <1>5 DEF ChainsExact
<1> QED
  BY <1>5, <1>6, <1>7 DEF Inv

\* A freed slot: the page leaves the free chain with its last one.
LEMMA FreedInv ==
    ASSUME Inv, MallocFree
    PROVE  Inv'
<1>0. TypeOK /\ Partition /\ ChainsExact
  BY DEF Inv
<1>1. PICK p \in Pages : p = Head(free)
  BY <1>0, HeadInSet DEF MallocFree, TypeOK
<1>2. PICK s \in pg[p].fl :
        /\ pg' = [pg EXCEPT ![p].use = @ + 1, ![p].fl = @ \ {s}]
        /\ live' = live \cup {<<p, s>>}
        /\ free' = FreeAfter(p, s)
  BY <1>1 DEF MallocFree
<1> DEFINE r == FreedTaken(pg[p], s)
<1>3. /\ pg' = [pg EXCEPT ![p] = r] /\ UNCHANGED <<list, num, cnt>>
  BY <1>0, <1>1, <1>2 DEF MallocFree, TypeOK, FreedTaken
<1>4. /\ s \in 1..HeapMax /\ r \in PageType
      /\ PageOK(r, LiveIn(p) \cup {s})
      /\ r.n = pg[p].n /\ r.fl = pg[p].fl \ {s}
  <2>1. pg[p] \in PageType /\ PageOK(pg[p], LiveIn(p)) /\ LiveIn(p) \subseteq 1..HeapMax
    BY <1>0, <1>1, PartitionIsPages DEF TypeOK, LiveIn
  <2> QED
    BY <1>2, <2>1, TakeFreed
<1> HIDE DEF r
<1>5. /\ live' \subseteq Pages \X (1..HeapMax)
      /\ LiveIn(p)' = LiveIn(p) \cup {s}
      /\ \A q \in Pages \ {p} : LiveIn(q)' = LiveIn(q)
  BY <1>0, <1>1, <1>2, <1>4, HoldOne
<1>6. /\ pg' \in [Pages -> PageType] /\ Partition'
      /\ \A q \in Pages : pg'[q] = IF q = p THEN r ELSE pg[q]
  BY <1>0, <1>1, <1>3, <1>4, <1>5, OnePage
<1>7. /\ free' \in Seq(Pages) /\ IsInjective(free')
      /\ ToSet(free') = IF pg[p].fl = {s} THEN ToSet(free) \ {p} ELSE ToSet(free)
  BY <1>0, <1>2, RemoveFirstProperties DEF TypeOK, ChainsExact, FreeAfter
<1>8. TypeOK'
  BY <1>0, <1>3, <1>5, <1>6, <1>7 DEF TypeOK
<1>9. ChainsExact'
  <2>1. ToSet(list') = {q \in Pages : pg'[q].n > 0}
    BY <1>0, <1>3, <1>4, <1>6 DEF ChainsExact
  <2>2. ToSet(free') = {q \in Pages : pg'[q].fl # {}}
    <3>1. pg[p].fl \ {s} = {} <=> pg[p].fl = {s}
      BY <1>2
    <3> QED
      BY <1>0, <1>1, <1>2, <1>4, <1>6, <1>7, <3>1 DEF ChainsExact
  <2> QED
    BY <1>0, <1>3, <1>7, <2>1, <2>2 DEF ChainsExact
<1> QED
  BY <1>6, <1>8, <1>9 DEF Inv

\* A slot that comes back: the page is deleted, or enters the free chain with its
\* first freed slot.
LEMMA FreeInv ==
    ASSUME Inv, NEW p \in Pages, NEW s \in 1..HeapMax, FreeSlot(p, s)
    PROVE  Inv'
<1>0. TypeOK /\ Partition /\ ChainsExact
  BY DEF Inv
<1>1. /\ pg[p] \in PageType /\ PageOK(pg[p], LiveIn(p)) /\ LiveIn(p) \subseteq 1..HeapMax
      /\ s \in LiveIn(p)
  BY <1>0, PartitionIsPages DEF TypeOK, LiveIn, FreeSlot
<1>2. /\ live' \subseteq Pages \X (1..HeapMax)
      /\ LiveIn(p)' = LiveIn(p) \ {s}
      /\ \A q \in Pages \ {p} : LiveIn(q)' = LiveIn(q)
  BY <1>0, DropOne DEF FreeSlot
<1>3. CASE pg[p].use = 1 /\ Delete(p)
  <2>1. LiveIn(p)' = {}
    <3>1. IsFiniteSet(LiveIn(p)) /\ Cardinality(LiveIn(p)) = 1
      BY <1>1, <1>3, SlotsFinite DEF PageOK
    <3>2. \E x : LiveIn(p) = {x}
      BY <3>1, FS_Singleton
    <3> QED
      BY <1>1, <1>2, <3>2
  <2>2. /\ pg' \in [Pages -> PageType] /\ Partition'
        /\ \A q \in Pages : pg'[q] = IF q = p THEN NoPage ELSE pg[q]
    BY <1>0, <1>2, <1>3, <2>1, EmptyPage, OnePage DEF Delete
  <2>3. /\ list' \in Seq(Pages) /\ IsInjective(list') /\ ToSet(list') = ToSet(list) \ {p}
        /\ free' \in Seq(Pages) /\ IsInjective(free') /\ ToSet(free') = ToSet(free) \ {p}
    BY <1>0, <1>3, RemoveFirstProperties DEF TypeOK, ChainsExact, Delete
  <2>4. cnt' \in Int
    BY <1>0, <1>1, <1>3, HeapMaxAssumption, SizeAssumption DEF TypeOK, Delete, PageSize, PageType
  <2>5. TypeOK'
    BY <1>0, <1>2, <1>3, <2>2, <2>3, <2>4 DEF TypeOK, Delete
  <2>6. ChainsExact'
    <3>1. NoPage.n = 0 /\ NoPage.fl = {}
      BY DEF NoPage
    <3>2. ToSet(list') = {q \in Pages : pg'[q].n > 0}
      BY <1>0, <2>2, <2>3, <3>1 DEF ChainsExact
    <3>3. ToSet(free') = {q \in Pages : pg'[q].fl # {}}
      BY <1>0, <2>2, <2>3, <3>1 DEF ChainsExact
    <3> QED
      BY <2>3, <3>2, <3>3 DEF ChainsExact
  <2> QED
    BY <2>2, <2>5, <2>6 DEF Inv
<1>4. CASE /\ pg' = [pg EXCEPT ![p].use = @ - 1, ![p].fl = @ \cup {s}]
           /\ free' = IF pg[p].fl = {} THEN <<p>> \o free ELSE free
           /\ UNCHANGED <<list, num, cnt>>
  <2> DEFINE r == GivenBack(pg[p], s)
  <2>1. pg' = [pg EXCEPT ![p] = r]
    BY <1>0, <1>4 DEF TypeOK, GivenBack
  <2>2. /\ r \in PageType /\ PageOK(r, LiveIn(p) \ {s})
        /\ r.n = pg[p].n /\ r.fl = pg[p].fl \cup {s}
    BY <1>1, GiveBack
  <2> HIDE DEF r
  <2>3. /\ pg' \in [Pages -> PageType] /\ Partition'
        /\ \A q \in Pages : pg'[q] = IF q = p THEN r ELSE pg[q]
    BY <1>0, <1>2, <2>1, <2>2, OnePage
  <2>4. /\ free' \in Seq(Pages) /\ IsInjective(free')
        /\ ToSet(free') = ToSet(free) \cup {p}
    <3>1. CASE pg[p].fl = {}
      <4>1. p \notin ToSet(free)
        BY <1>0, <3>1 DEF ChainsExact
      <4> QED
        BY <1>0, <1>4, <3>1, <4>1, ConsProperties DEF TypeOK, ChainsExact
    <3>2. CASE pg[p].fl # {}
      BY <1>0, <1>4, <3>2 DEF TypeOK, ChainsExact
    <3> QED
      BY <3>1, <3>2
  <2>5. TypeOK'
    BY <1>0, <1>2, <1>4, <2>3, <2>4 DEF TypeOK
  <2>6. ChainsExact'
    <3>1. ToSet(list') = {q \in Pages : pg'[q].n > 0}
      BY <1>0, <1>4, <2>2, <2>3 DEF ChainsExact
    <3>2. ToSet(free') = {q \in Pages : pg'[q].fl # {}}
      BY <1>0, <2>2, <2>3, <2>4 DEF ChainsExact
    <3> QED
      BY <1>0, <1>4, <2>4, <3>1, <3>2 DEF ChainsExact
  <2> QED
    BY <2>3, <2>5, <2>6 DEF Inv
<1> QED
  BY <1>3, <1>4 DEF FreeSlot

----------------------------------------------------------------------------
(* The theorems.                                                           *)

\* Every call of the pool preserves the invariant.
LEMMA InvNext == Inv /\ [Next]_vars => Inv'
<1> SUFFICES ASSUME Inv, [Next]_vars PROVE Inv'
  OBVIOUS
<1>1. CASE MallocCreate
  BY <1>1, CreateInv
<1>2. CASE MallocFails
  BY <1>2, FailInv
<1>3. CASE MallocRest
  BY <1>3, RestInv
<1>4. CASE MallocFree
  BY <1>4, FreedInv
<1>5. ASSUME NEW p \in Pages, NEW s \in 1..HeapMax, FreeSlot(p, s)
      PROVE  Inv'
  BY <1>5, FreeInv
<1>6. CASE UNCHANGED vars
  <2>1. UNCHANGED <<list, free, num, pg, live, cnt>>
    BY <1>6 DEF vars
  <2>2. TypeOK'
    BY <2>1 DEF Inv, TypeOK
  <2>3. Partition'
    BY <2>1 DEF Inv, Partition, LiveIn, Untouched
  <2>4. ChainsExact'
    BY <2>1 DEF Inv, ChainsExact
  <2> QED
    BY <2>2, <2>3, <2>4 DEF Inv
<1> QED
  BY <1>1, <1>2, <1>3, <1>4, <1>5, <1>6 DEF Next

\* The three hold together: see Inv.
THEOREM InvHolds == Spec => []Inv
<1>1. Init => Inv
  BY InvInit
<1>2. Inv /\ [Next]_vars => Inv'
  BY InvNext
<1> QED
  BY <1>1, <1>2, PTL DEF Spec

\* Every one-byte field of a page header stays within the slots of a page,
\* whatever sequence of calls is made and whichever of them fail.
THEOREM TypeCorrect == Spec => []TypeOK
<1>1. Inv => TypeOK
  BY DEF Inv
<1> QED
  BY <1>1, InvHolds, PTL

\* No slot is ever handed out twice and none is lost: the slots of a page are
\* those held, those freed and those untouched, and useNum counts the first.
THEOREM PartitionHolds == Spec => []Partition
<1>1. Inv => Partition
  BY DEF Inv
<1> QED
  BY <1>1, InvHolds, PTL

\* The chain of pages holds every page once, and the free chain exactly the pages
\* with freed slots: no page and no freed slot is ever out of reach.
THEOREM ChainsHold == Spec => []ChainsExact
<1>1. Inv => ChainsExact
  BY DEF Inv
<1> QED
  BY <1>1, InvHolds, PTL

----------------------------------------------------------------------------
(* Where the untouched slots are.                                          *)

\* The elements of a chain are pages, and the head is its first element.
LEMMA ChainElements ==
    ASSUME NEW S, NEW s \in Seq(S)
    PROVE  /\ Len(s) \in Nat
           /\ \A i \in 1..Len(s) : s[i] \in S /\ s[i] \in ToSet(s)
           /\ s # <<>> => Len(s) > 0 /\ Head(s) = s[1]
<1>1. Len(s) \in Nat /\ DOMAIN s = 1..Len(s)
  BY LenProperties
<1>2. \A i \in 1..Len(s) : s[i] \in S /\ s[i] \in ToSet(s)
  BY <1>1, ElementOfSeq DEF ToSet
<1>3. s # <<>> => Len(s) > 0 /\ Head(s) = s[1]
  BY <1>1, EmptySeq, HeadTailProperties
<1> QED
  BY <1>1, <1>2, <1>3

\* A call that leaves the chain and the untouched end of every page as they were.
LEMMA RestsKept ==
    ASSUME TypeOK, OnlyHeadHasRest, list' = list,
           \A q \in Pages : pg'[q].rest = pg[q].rest
    PROVE  OnlyHeadHasRest'
<1>1. \A i \in 2..Len(list) : list[i] \in Pages
  BY ChainElements DEF TypeOK
<1> QED
  BY <1>1 DEF OnlyHeadHasRest

\* The new page heads the chain, and the page that headed it has no untouched
\* slot: czl_mm_malloc_heap looked for one there first.
LEMMA CreateKeepsRests ==
    ASSUME Inv, OnlyHeadHasRest, MallocCreate
    PROVE  OnlyHeadHasRest'
<1>0. TypeOK /\ ChainsExact /\ ~HeadHasRest
  BY DEF Inv, MallocCreate
<1>1. PICK p \in Pages \ ToSet(list), n \in Tries : Created(p, n)
  BY DEF MallocCreate
<1>2. list' = <<p>> \o list /\ \A q \in Pages \ {p} : pg'[q] = pg[q]
  BY <1>0, <1>1 DEF Created, TypeOK
<1>3. /\ Len(list) \in Nat /\ Len(list') = Len(list) + 1
      /\ \A i \in 2..Len(list') : list'[i] = list[i - 1]
  BY <1>0, <1>2, ConsElements DEF TypeOK
<1>4. SUFFICES ASSUME NEW i \in 2..Len(list')
               PROVE  pg'[list'[i]].rest = 0
  BY DEF OnlyHeadHasRest
<1>5. i - 1 \in 1..Len(list)
  BY <1>3
<1>6. list[i - 1] \in Pages \ {p}
  BY <1>0, <1>1, <1>5, ChainElements DEF TypeOK
<1>7. pg[list[i - 1]].rest = 0
  <2>1. CASE i - 1 = 1
    <3>1. list # <<>> /\ Head(list) = list[1]
      BY <1>0, <1>5, ChainElements DEF TypeOK
    <3> QED
      BY <1>0, <2>1, <3>1 DEF HeadHasRest
  <2>2. CASE i - 1 # 1
    <3>1. i - 1 \in 2..Len(list)
      BY <1>3, <1>5, <2>2
    <3> QED
      BY <3>1 DEF OnlyHeadHasRest
  <2> QED
    BY <2>1, <2>2
<1> QED
  BY <1>2, <1>3, <1>4, <1>6, <1>7

\* Only the page at the head of the chain gives a slot from its untouched end.
LEMMA RestKeepsRests ==
    ASSUME Inv, OnlyHeadHasRest, MallocRest
    PROVE  OnlyHeadHasRest'
<1>0. TypeOK /\ ChainsExact
  BY DEF Inv
<1>1. list # <<>> /\ Head(list) = list[1] /\ Len(list) \in Nat /\ Len(list) > 0
  BY <1>0, ChainElements DEF MallocRest, HeadHasRest, TypeOK
<1>2. list' = list /\ \A q \in Pages : q # list[1] => pg'[q] = pg[q]
  BY <1>0, <1>1 DEF MallocRest, TypeOK
<1>3. SUFFICES ASSUME NEW i \in 2..Len(list)
               PROVE  pg'[list[i]].rest = 0
  BY <1>2 DEF OnlyHeadHasRest
<1>4. i \in DOMAIN list /\ 1 \in DOMAIN list /\ i # 1
  BY <1>0, <1>1, LenProperties DEF TypeOK
<1>5. list[i] # list[1]
  BY <1>0, <1>4 DEF ChainsExact, IsInjective
<1>6. list[i] \in Pages
  BY <1>0, <1>1, ChainElements DEF TypeOK
<1> QED
  BY <1>2, <1>5, <1>6 DEF OnlyHeadHasRest

\* A slot that comes back either leaves the untouched ends alone, or the page
\* leaves the chain and those behind the new head were behind the old one.
LEMMA FreeKeepsRests ==
    ASSUME Inv, OnlyHeadHasRest, NEW p \in Pages, NEW s \in 1..HeapMax, FreeSlot(p, s)
    PROVE  OnlyHeadHasRest'
<1>0. TypeOK
  BY DEF Inv
<1>1. CASE Delete(p)
  <2>1. list' = RemoveFirst(list, p)
    BY <1>1 DEF Delete
  <2>2. \A q \in Pages : pg[q].rest = 0 => pg'[q].rest = 0
    BY <1>0, <1>1 DEF Delete, TypeOK, NoPage
  <2>3. SUFFICES ASSUME NEW i \in 2..Len(list')
                 PROVE  pg'[list'[i]].rest = 0
    BY DEF OnlyHeadHasRest
  <2>4. PICK j \in 2..Len(list) : list'[i] = list[j]
    <3>1. list \in Seq(Pages)
      BY <1>0 DEF TypeOK
    <3>2. \A k \in 2..Len(RemoveFirst(list, p)) :
             \E j \in 2..Len(list) : RemoveFirst(list, p)[k] = list[j]
      BY <3>1, RemoveFirstTail
    <3> QED
      BY <2>1, <3>2
  <2>5. list[j] \in Pages /\ pg[list[j]].rest = 0
    BY <1>0, ChainElements DEF TypeOK, OnlyHeadHasRest
  <2> QED
    BY <2>2, <2>4, <2>5
<1>2. CASE /\ pg' = [pg EXCEPT ![p].use = @ - 1, ![p].fl = @ \cup {s}]
           /\ UNCHANGED list
  <2>1. \A q \in Pages : pg'[q].rest = pg[q].rest
    BY <1>0, <1>2 DEF TypeOK, PageType
  <2> QED
    BY <1>0, <1>2, <2>1, RestsKept
<1> QED
  BY <1>1, <1>2 DEF FreeSlot

\* Untouched slots are never stranded: a page is made only when no page has one
\* left, whatever was freed, deleted or refused before.
THEOREM OnlyHeadHolds == Spec => []OnlyHeadHasRest
<1>1. Init => OnlyHeadHasRest
  BY DEF Init, OnlyHeadHasRest
<1>2. Inv /\ OnlyHeadHasRest /\ [Next]_vars => OnlyHeadHasRest'
  <2> SUFFICES ASSUME Inv, OnlyHeadHasRest, [Next]_vars PROVE OnlyHeadHasRest'
    OBVIOUS
  <2>0. TypeOK
    BY DEF Inv
  <2>1. CASE MallocCreate
    BY <2>1, CreateKeepsRests
  <2>2. CASE MallocFails
    BY <2>0, <2>2, RestsKept DEF MallocFails
  <2>3. CASE MallocRest
    BY <2>3, RestKeepsRests
  <2>4. CASE MallocFree
    <3>1. list' = list /\ \A q \in Pages : pg'[q].rest = pg[q].rest
      BY <2>0, <2>4 DEF MallocFree, TypeOK, PageType
    <3> QED
      BY <2>0, <3>1, RestsKept
  <2>5. ASSUME NEW p \in Pages, NEW s \in 1..HeapMax, FreeSlot(p, s)
        PROVE  OnlyHeadHasRest'
    BY <2>5, FreeKeepsRests
  <2>6. CASE UNCHANGED vars
    BY <2>6 DEF OnlyHeadHasRest, vars
  <2> QED
    BY <2>1, <2>2, <2>3, <2>4, <2>5, <2>6 DEF Next
<1> QED
  BY <1>1, <1>2, InvHolds, PTL DEF Spec

----------------------------------------------------------------------------
(* What the pages occupy.                                                  *)

\* The count needs that the pages occupy finitely many bytes.
CountInv == IsFiniteSet(Bytes(PageSizes)) /\ CountExact

\* A page has a size.
LEMMA SizeOfPage ==
    ASSUME NEW n \in 0..HeapMax
    PROVE  PageSize(n) \in Nat
<1>1. HeapMax \in Nat /\ HeadSize \in Nat /\ SlotSize \in Nat /\ n \in Nat
  BY HeapMaxAssumption, SizeAssumption
<1>2. SlotSize * n \in Nat
  BY <1>1
<1> QED
  BY <1>1, <1>2 DEF PageSize

\* A call that leaves the chain and the slots of every page as they were.
LEMMA CountKept ==
    ASSUME TypeOK, CountInv, list' = list, cnt' = cnt,
           \A q \in Pages : pg'[q].n = pg[q].n
    PROVE  CountInv'
<1>1. ToSet(list) \subseteq Pages
  BY ElementOfSeq, LenProperties DEF TypeOK, ToSet
<1>2. PageSizes' = PageSizes
  BY <1>1 DEF PageSizes
<1> QED
  BY <1>2 DEF CountInv, CountExact

\* A page that is made occupies its size besides the others, within the limit.
LEMMA CreateCount ==
    ASSUME Inv, CountInv, MallocCreate
    PROVE  CountInv'
<1>0. TypeOK /\ ChainsExact /\ list \in Seq(Pages)
  BY DEF Inv, TypeOK
<1>1. PICK p \in Pages \ ToSet(list), n \in Tries : Fits(n) /\ Created(p, n)
  BY DEF MallocCreate
<1>2. n \in 1..HeapMax /\ n \in 0..HeapMax
  BY <1>0, TriesInRange, HeapMaxAssumption DEF TypeOK
<1>3. /\ list' = <<p>> \o list /\ cnt' = cnt + PageSize(n) /\ cnt' <= Limit
      /\ pg'[p].n = n /\ \A q \in Pages \ {p} : pg'[q] = pg[q]
  BY <1>0, <1>1 DEF Created, Counted, Fits, TypeOK
<1>4. ToSet(list') = {p} \cup ToSet(list) /\ ToSet(list) \subseteq Pages \ {p}
  BY <1>0, <1>1, <1>3, ConsProperties DEF ChainsExact
<1>5. PageSize(n) \in Nat
  BY <1>2, SizeOfPage
<1>6. Grown(PageSizes, PageSizes', p) /\ PageSizes'[p] = PageSize(n)
  BY <1>3, <1>4, <1>5 DEF PageSizes, Grown
<1>7. /\ IsFiniteSet(Bytes(PageSizes'))
      /\ Cardinality(Bytes(PageSizes')) = Cardinality(Bytes(PageSizes)) + PageSize(n)
  BY <1>6, BytesGrow DEF CountInv
<1> QED
  BY <1>3, <1>7 DEF CountInv, CountExact

\* A page that is given back occupied its size: it was on the chain, since it had
\* a slot in use.
LEMMA DeleteCount ==
    ASSUME Inv, CountInv, NEW p \in Pages, NEW s \in 1..HeapMax, <<p, s>> \in live, Delete(p)
    PROVE  CountInv'
<1>0. TypeOK /\ Partition /\ ChainsExact /\ list \in Seq(Pages) /\ pg[p] \in PageType
  BY DEF Inv, TypeOK
<1>1. /\ list' = RemoveFirst(list, p) /\ cnt' = cnt - PageSize(pg[p].n)
      /\ \A q \in Pages \ {p} : pg'[q] = pg[q]
  BY <1>0 DEF Delete, TypeOK
<1>2. pg[p].n \in 0..HeapMax /\ pg[p].n > 0
  <2>1. s \in 1..pg[p].n
    BY <1>0 DEF Partition, LiveIn
  <2> QED
    BY <1>0, <2>1, HeapMaxAssumption DEF PageType
<1>3. ToSet(list') = ToSet(list) \ {p} /\ p \in ToSet(list) /\ ToSet(list) \subseteq Pages
  BY <1>0, <1>1, <1>2, RemoveFirstProperties DEF ChainsExact
<1>4. PageSize(pg[p].n) \in Nat
  BY <1>2, SizeOfPage
<1>5. Grown(PageSizes', PageSizes, p) /\ PageSizes[p] = PageSize(pg[p].n)
  BY <1>1, <1>3, <1>4 DEF PageSizes, Grown
<1>6. /\ IsFiniteSet(Bytes(PageSizes'))
      /\ Cardinality(Bytes(PageSizes)) = Cardinality(Bytes(PageSizes')) + PageSize(pg[p].n)
  BY <1>5, BytesGrow DEF CountInv
<1>7. Cardinality(Bytes(PageSizes')) \in Nat
  BY <1>6, FS_CardinalityType
<1> QED
  BY <1>1, <1>4, <1>6, <1>7, SizeAssumption DEF CountInv, CountExact

\* Every call keeps the count.
LEMMA CountNext ==
    ASSUME Inv, CountInv, [Next]_vars
    PROVE  CountInv'
<1>0. TypeOK
  BY DEF Inv
<1>1. CASE MallocCreate
  BY <1>1, CreateCount
<1>2. CASE MallocFails
  BY <1>0, <1>2, CountKept DEF MallocFails
<1>3. CASE MallocRest
  <2>1. list' = list /\ cnt' = cnt /\ \A q \in Pages : pg'[q].n = pg[q].n
    BY <1>0, <1>3 DEF MallocRest, TypeOK, PageType
  <2> QED
    BY <1>0, <2>1, CountKept
<1>4. CASE MallocFree
  <2>1. list' = list /\ cnt' = cnt /\ \A q \in Pages : pg'[q].n = pg[q].n
    BY <1>0, <1>4, SMTT(30) DEF MallocFree, TypeOK, PageType
  <2> QED
    BY <1>0, <2>1, CountKept
<1>5. ASSUME NEW p \in Pages, NEW s \in 1..HeapMax, FreeSlot(p, s)
      PROVE  CountInv'
  <2>1. CASE Delete(p)
    BY <1>5, <2>1, DeleteCount DEF FreeSlot
  <2>2. CASE /\ pg' = [pg EXCEPT ![p].use = @ - 1, ![p].fl = @ \cup {s}]
             /\ UNCHANGED <<list, num, cnt>>
    <3>1. list' = list /\ cnt' = cnt /\ \A q \in Pages : pg'[q].n = pg[q].n
      BY <1>0, <2>2 DEF TypeOK, PageType
    <3> QED
      BY <1>0, <3>1, CountKept
  <2> QED
    BY <1>5, <2>1, <2>2 DEF FreeSlot
<1>6. CASE UNCHANGED vars
  BY <1>0, <1>6, CountKept DEF vars
<1> QED
  BY <1>1, <1>2, <1>3, <1>4, <1>5, <1>6 DEF Next

\* mm_cnt is what the pages occupy and never exceeds mm_limit, whatever is made,
\* refused and given back.
THEOREM CountExactHolds == Spec => []CountExact
<1>1. Init => CountInv
  <2> SUFFICES ASSUME Init PROVE CountInv
    OBVIOUS
  <2>1. DOMAIN PageSizes = {}
    BY DEF Init, PageSizes, ToSet
  <2>2. IsFiniteSet(Bytes(PageSizes)) /\ Cardinality(Bytes(PageSizes)) = 0
    BY <2>1, BytesNone
  <2> QED
    BY <2>2, SizeAssumption DEF Init, CountInv, CountExact
<1>2. Inv /\ CountInv /\ [Next]_vars => CountInv'
  BY CountNext
<1>3. CountInv => CountExact
  BY DEF CountInv
<1> QED
  BY <1>1, <1>2, <1>3, InvHolds, PTL DEF Spec

=============================================================================
