----------------------------- MODULE ObjPool_proof -----------------------------
(***************************************************************************)
(* Proofs about ObjPool, for any pages, handles and settings, and any      *)
(* number of slots a byte can count.                                       *)
(***************************************************************************)
EXTENDS ObjPool, ChainLemmas

\* What holds of page p with header r: its slots are in use, freed or untouched,
\* each in one place, and none is lost unless p is the page e that is being emptied;
\* freeNum is exact unless the faults are that handles are refused, too.
PageOK(r, p, e, faults) ==
    /\ r.rest <= r.n /\ r.use \cup r.fl \subseteq 1..r.n
    /\ r.use \cap r.fl = {}
    /\ (r.use \cup r.fl) \cap Untouched(r) = {}
    /\ p # e => r.use \cup r.fl \cup Untouched(r) = 1..r.n
    /\ "handle" \notin faults => r.fn = Cardinality(r.fl)

\* The header of a page whose freeNum is counted down.
CountedDown(r) == [r EXCEPT !.fn = (@ - 1) % ByteRange]

Bytewide == 0..(ByteRange - 1)

----------------------------------------------------------------------------
(* Pages one at a time.                                                    *)

\* The numbers a slot, a counter and a rank are within.
LEMMA Widths ==
    /\ HeapMax \in Nat /\ HeapMax > 0 /\ ByteRange \in Nat /\ HeapMax < ByteRange
    /\ 0 \in Bytewide /\ 0..HeapMax \subseteq Bytewide
    /\ \A i \in Int : i % ByteRange \in Bytewide
    /\ \A i \in Bytewide : i % ByteRange = i
<1>1. HeapMax \in Nat /\ HeapMax > 0 /\ ByteRange \in Nat /\ HeapMax < ByteRange
  BY HeapMaxAssumption
<1> QED
  BY <1>1 DEF Bytewide

\* Sets of slots are finite and no larger than a page.
LEMMA SlotsFinite ==
    ASSUME NEW A, A \subseteq Slots
    PROVE  IsFiniteSet(A) /\ Cardinality(A) \in 0..HeapMax
<1>1. 1 \in Int /\ HeapMax \in Int /\ HeapMax >= 1
  BY Widths
<1>2. IsFiniteSet(1..HeapMax) /\ Cardinality(1..HeapMax) = HeapMax
  BY <1>1, FS_Interval
<1>3. IsFiniteSet(A) /\ Cardinality(A) <= HeapMax
  BY <1>2, FS_Subset DEF Slots
<1> QED
  BY <1>1, <1>3, FS_CardinalityType

\* The fields of a header, and the header from its fields.
LEMMA HeaderFields ==
    ASSUME NEW r \in PageType
    PROVE  /\ r.n \in 0..HeapMax /\ r.use \subseteq Slots /\ r.fl \subseteq Slots
           /\ r.fn \in Bytewide /\ r.rest \in 0..HeapMax /\ r.rank \in Bytewide
           /\ r = [n |-> r.n, use |-> r.use, fl |-> r.fl, fn |-> r.fn, rest |-> r.rest, rank |-> r.rank]
BY DEF PageType, Bytewide

\* A page just made, whose first slot is handed out.
LEMMA NewPage ==
    ASSUME NEW n \in Slots, NEW k \in Bytewide
    PROVE  /\ Fresh(n, k) \in PageType /\ \A p, e, x : PageOK(Fresh(n, k), p, e, x)
           /\ Fresh(n, k).n = n /\ Fresh(n, k).use = {1} /\ Fresh(n, k).fl = {} /\ Fresh(n, k).rank = k
<1>0. PICK r : r = [n |-> n, use |-> {1}, fl |-> {}, fn |-> 0, rest |-> IF n > 1 THEN 2 ELSE 0, rank |-> k]
  OBVIOUS
<1>1. /\ r.n = n /\ r.use = {1} /\ r.fl = {} /\ r.fn = 0 /\ r.rank = k
      /\ r.rest = IF n > 1 THEN 2 ELSE 0
  BY <1>0
<1>2. n \in 1..HeapMax /\ 1 \in Slots /\ HeapMax \in Nat /\ r.rest \in 0..HeapMax /\ r.rest <= n
  BY <1>1, Widths DEF Slots
<1>3. r \in PageType
  BY <1>0, <1>2, Widths DEF PageType, Bytewide, Slots
<1>4. {1} \cup Untouched(r) = 1..n /\ {1} \cap Untouched(r) = {}
  <2>1. CASE n = 1
    BY <1>1, <2>1 DEF Untouched
  <2>2. CASE n > 1
    <3>1. Untouched(r) = 2..n
      BY <1>1, <2>2 DEF Untouched
    <3>2. {1} \cup (2..n) = 1..n /\ 1 \notin 2..n
      BY <1>2, <2>2
    <3> QED
      BY <3>1, <3>2
  <2> QED
    BY <1>2, <2>1, <2>2
<1>5. \A p, e, x : PageOK(r, p, e, x)
  BY <1>1, <1>2, <1>4, FS_EmptySet DEF PageOK
<1>6. r = Fresh(n, k)
  BY <1>0 DEF Fresh
<1> QED
  BY <1>1, <1>3, <1>5, <1>6 DEF PageOK

\* A page that is gone.
LEMMA EmptyPage ==
    /\ NoPage \in PageType /\ \A p, e, x : PageOK(NoPage, p, e, x)
    /\ NoPage.n = 0 /\ NoPage.use = {} /\ NoPage.fl = {} /\ NoPage.rest = 0 /\ NoPage.rank = 0
<1>1. NoPage \in PageType
  BY Widths DEF NoPage, PageType, Bytewide
<1>2. Cardinality({}) = 0 /\ 1..0 = {}
  BY FS_EmptySet
<1> QED
  BY <1>1, <1>2 DEF PageOK, NoPage, Untouched

\* A slot from the untouched end.
LEMMA TakeRest ==
    ASSUME NEW r \in PageType, NEW p, NEW e, p # e, NEW x, PageOK(r, p, e, x), r.rest # 0
    PROVE  /\ r.rest \in Slots /\ r.rest \notin r.use
           /\ RestTaken(r) \in PageType /\ PageOK(RestTaken(r), p, e, x)
           /\ RestTaken(r).n = r.n /\ RestTaken(r).use = r.use \cup {r.rest}
           /\ RestTaken(r).fl = r.fl /\ RestTaken(r).rank = r.rank
<1>0. PICK r2 : r2 = [r EXCEPT !.use = @ \cup {r.rest}, !.rest = NextRest(@, r.n)]
  OBVIOUS
<1>1. /\ r.n \in 0..HeapMax /\ r.use \subseteq Slots /\ r.fl \subseteq Slots
      /\ r.fn \in Bytewide /\ r.rank \in Bytewide /\ HeapMax \in Nat /\ r.rest \in 1..r.n
  BY HeaderFields, Widths DEF PageOK
<1>2. /\ r2.n = r.n /\ r2.use = r.use \cup {r.rest} /\ r2.fl = r.fl /\ r2.fn = r.fn /\ r2.rank = r.rank
      /\ r2.rest = IF r.rest = r.n THEN 0 ELSE r.rest + 1
      /\ r2 = [n |-> r2.n, use |-> r2.use, fl |-> r2.fl, fn |-> r2.fn, rest |-> r2.rest, rank |-> r2.rank]
  BY <1>0 DEF NextRest, PageType
<1>3. Untouched(r) = r.rest..r.n /\ Untouched(r2) = (r.rest + 1)..r.n
  BY <1>1, <1>2 DEF Untouched
<1>4. r.rest..r.n = {r.rest} \cup ((r.rest + 1)..r.n) /\ r.rest \notin (r.rest + 1)..r.n
  BY <1>1
<1>5. r.rest \in Slots /\ r.rest \notin r.use /\ r.rest \notin r.fl
  BY <1>1, <1>3, <1>4 DEF PageOK, Slots
<1>6. r2.rest \in 0..HeapMax /\ r2.rest <= r2.n
  BY <1>1, <1>2
<1>7. r2 \in PageType
  BY <1>1, <1>2, <1>5, <1>6 DEF PageType, Bytewide
<1>8. PageOK(r2, p, e, x)
  <2>1. r2.use \cup r2.fl \cup Untouched(r2) = 1..r2.n
    BY <1>2, <1>3, <1>4 DEF PageOK
  <2>2. (r2.use \cup r2.fl) \cap Untouched(r2) = {} /\ r2.use \cap r2.fl = {}
    BY <1>2, <1>3, <1>4, <1>5 DEF PageOK
  <2> QED
    BY <1>2, <1>6, <2>1, <2>2 DEF PageOK
<1>9. r2 = RestTaken(r)
  BY <1>0 DEF RestTaken
<1> QED
  BY <1>2, <1>5, <1>7, <1>8, <1>9

\* A slot that was freed before goes back into use.
LEMMA TakeFreed ==
    ASSUME NEW r \in PageType, NEW p, NEW e, NEW x, PageOK(r, p, e, x), NEW s \in r.fl
    PROVE  /\ s \in Slots /\ s \notin r.use
           /\ FreedTaken(r, s) \in PageType /\ PageOK(FreedTaken(r, s), p, e, x)
           /\ FreedTaken(r, s).n = r.n /\ FreedTaken(r, s).use = r.use \cup {s}
           /\ FreedTaken(r, s).fl = r.fl \ {s} /\ FreedTaken(r, s).fn = (r.fn - 1) % ByteRange
           /\ FreedTaken(r, s).rest = r.rest /\ FreedTaken(r, s).rank = r.rank
<1>0. PICK r2 : r2 = [r EXCEPT !.use = @ \cup {s}, !.fl = @ \ {s}, !.fn = (@ - 1) % ByteRange]
  OBVIOUS
<1>1. /\ r.n \in 0..HeapMax /\ r.use \subseteq Slots /\ r.fl \subseteq Slots
      /\ r.fn \in Bytewide /\ r.rest \in 0..HeapMax /\ r.rank \in Bytewide /\ s \in Slots /\ s \notin r.use
  BY HeaderFields DEF PageOK
<1>2. /\ r2.n = r.n /\ r2.use = r.use \cup {s} /\ r2.fl = r.fl \ {s} /\ r2.rest = r.rest
      /\ r2.fn = (r.fn - 1) % ByteRange /\ r2.rank = r.rank
      /\ r2 = [n |-> r2.n, use |-> r2.use, fl |-> r2.fl, fn |-> r2.fn, rest |-> r2.rest, rank |-> r2.rank]
  BY <1>0 DEF PageType
<1>3. r2.fn \in Bytewide
  BY <1>1, <1>2, Widths DEF Bytewide
<1>4. r2 \in PageType
  BY <1>1, <1>2, <1>3 DEF PageType, Bytewide
<1>5. ASSUME r.fn = Cardinality(r.fl) PROVE r2.fn = Cardinality(r2.fl)
  <2>1. IsFiniteSet(r.fl) /\ IsFiniteSet(r.fl \ {s}) /\ Cardinality(r.fl \ {s}) \in 0..HeapMax
    BY <1>1, SlotsFinite
  <2>2. Cardinality(r.fl \ {s}) = Cardinality(r.fl) - 1
    BY <2>1, FS_RemoveElement
  <2>3. (r.fn - 1) % ByteRange = Cardinality(r.fl \ {s})
    BY <1>5, <2>1, <2>2, Widths
  <2> QED
    BY <1>2, <2>3
<1>6. PageOK(r2, p, e, x)
  <2>1. (r.use \cup {s}) \cup (r.fl \ {s}) = r.use \cup r.fl /\ (r.use \cup {s}) \cap (r.fl \ {s}) = {}
    BY DEF PageOK
  <2>2. Untouched(r2) = Untouched(r)
    BY <1>2 DEF Untouched
  <2> QED
    BY <1>2, <1>5, <2>1, <2>2 DEF PageOK
<1>7. r2 = FreedTaken(r, s)
  BY <1>0 DEF FreedTaken
<1> QED
  BY <1>1, <1>2, <1>4, <1>6, <1>7

\* A slot that is freed.
LEMMA GiveBack ==
    ASSUME NEW r \in PageType, NEW p, NEW e, NEW x, PageOK(r, p, e, x), NEW s \in r.use
    PROVE  /\ s \in Slots
           /\ GivenBack(r, s) \in PageType /\ PageOK(GivenBack(r, s), p, e, x)
           /\ GivenBack(r, s).n = r.n /\ GivenBack(r, s).use = r.use \ {s}
           /\ GivenBack(r, s).fl = r.fl \cup {s}
           /\ GivenBack(r, s).rest = r.rest /\ GivenBack(r, s).rank = r.rank
<1>0. PICK r2 : r2 = [r EXCEPT !.use = @ \ {s}, !.fl = @ \cup {s}, !.fn = (@ + 1) % ByteRange]
  OBVIOUS
<1>1. /\ r.n \in 0..HeapMax /\ r.use \subseteq Slots /\ r.fl \subseteq Slots
      /\ r.fn \in Bytewide /\ r.rest \in 0..HeapMax /\ r.rank \in Bytewide /\ s \in Slots /\ s \notin r.fl
  BY HeaderFields DEF PageOK
<1>2. /\ r2.n = r.n /\ r2.use = r.use \ {s} /\ r2.fl = r.fl \cup {s} /\ r2.rest = r.rest
      /\ r2.fn = (r.fn + 1) % ByteRange /\ r2.rank = r.rank
      /\ r2 = [n |-> r2.n, use |-> r2.use, fl |-> r2.fl, fn |-> r2.fn, rest |-> r2.rest, rank |-> r2.rank]
  BY <1>0 DEF PageType
<1>3. r2.fn \in Bytewide
  BY <1>1, <1>2, Widths DEF Bytewide
<1>4. r2 \in PageType
  <2>1. r2.fl \subseteq Slots /\ r2.use \subseteq Slots
    BY <1>1, <1>2
  <2> QED
    BY <1>1, <1>2, <1>3, <2>1 DEF PageType, Bytewide
<1>5. ASSUME r.fn = Cardinality(r.fl) PROVE r2.fn = Cardinality(r2.fl)
  <2>1. r.fl \cup {s} \subseteq Slots
    BY <1>1
  <2>2. IsFiniteSet(r.fl) /\ Cardinality(r.fl \cup {s}) \in 0..HeapMax /\ Cardinality(r.fl) \in 0..HeapMax
    BY <1>1, <2>1, SlotsFinite
  <2>3. Cardinality(r.fl \cup {s}) = Cardinality(r.fl) + 1
    BY <1>1, <2>2, FS_AddElement
  <2>4. (r.fn + 1) % ByteRange = Cardinality(r.fl \cup {s})
    BY <1>5, <2>2, <2>3, Widths
  <2> QED
    BY <1>2, <2>4
<1>6. PageOK(r2, p, e, x)
  <2>1. (r.use \ {s}) \cup (r.fl \cup {s}) = r.use \cup r.fl /\ (r.use \ {s}) \cap (r.fl \cup {s}) = {}
    BY DEF PageOK
  <2>2. Untouched(r2) = Untouched(r)
    BY <1>2 DEF Untouched
  <2> QED
    BY <1>2, <1>5, <2>1, <2>2 DEF PageOK
<1>7. r2 = GivenBack(r, s)
  BY <1>0 DEF GivenBack
<1> QED
  BY <1>1, <1>2, <1>4, <1>6, <1>7

\* A slot whose object moved away from a page that is being emptied.
LEMMA GiveUp ==
    ASSUME NEW r \in PageType, NEW p, NEW e, NEW x, PageOK(r, p, e, x), NEW s
    PROVE  /\ GivenUp(r, s) \in PageType /\ PageOK(GivenUp(r, s), p, p, x)
           /\ GivenUp(r, s).n = r.n /\ GivenUp(r, s).use = r.use \ {s} /\ GivenUp(r, s).fl = r.fl
           /\ GivenUp(r, s).fn = r.fn /\ GivenUp(r, s).rest = r.rest /\ GivenUp(r, s).rank = r.rank
<1>0. PICK r2 : r2 = [r EXCEPT !.use = @ \ {s}]
  OBVIOUS
<1>1. /\ r2.n = r.n /\ r2.use = r.use \ {s} /\ r2.fl = r.fl /\ r2.rest = r.rest
      /\ r2.fn = r.fn /\ r2.rank = r.rank
      /\ r2 = [n |-> r2.n, use |-> r2.use, fl |-> r2.fl, fn |-> r2.fn, rest |-> r2.rest, rank |-> r2.rank]
  BY <1>0 DEF PageType
<1>2. r2 \in PageType
  BY <1>1 DEF PageType
<1>3. PageOK(r2, p, p, x)
  BY <1>1 DEF PageOK, Untouched
<1>4. r2 = GivenUp(r, s)
  BY <1>0 DEF GivenUp
<1> QED
  BY <1>1, <1>2, <1>3, <1>4

\* freeNum counted down for a handle that was refused.
LEMMA CountDown ==
    ASSUME NEW r \in PageType, NEW p, NEW e, NEW x, "handle" \in x, PageOK(r, p, e, x)
    PROVE  /\ CountedDown(r) \in PageType /\ PageOK(CountedDown(r), p, e, x)
           /\ CountedDown(r).n = r.n /\ CountedDown(r).use = r.use /\ CountedDown(r).fl = r.fl
           /\ CountedDown(r).rest = r.rest /\ CountedDown(r).rank = r.rank
<1>0. PICK r2 : r2 = [r EXCEPT !.fn = (@ - 1) % ByteRange]
  OBVIOUS
<1>1. /\ r2.n = r.n /\ r2.use = r.use /\ r2.fl = r.fl /\ r2.rest = r.rest
      /\ r2.fn = (r.fn - 1) % ByteRange /\ r2.rank = r.rank
      /\ r2 = [n |-> r2.n, use |-> r2.use, fl |-> r2.fl, fn |-> r2.fn, rest |-> r2.rest, rank |-> r2.rank]
  BY <1>0 DEF PageType
<1>2. r2.fn \in Bytewide
  BY <1>1, HeaderFields, Widths DEF Bytewide
<1>3. r2 \in PageType
  BY <1>1, <1>2 DEF PageType, Bytewide
<1>4. PageOK(r2, p, e, x)
  BY <1>1 DEF PageOK, Untouched
<1>5. r2 = CountedDown(r)
  BY <1>0 DEF CountedDown
<1> QED
  BY <1>1, <1>3, <1>4, <1>5

\* Another rank.
LEMMA NewRankOK ==
    ASSUME NEW r \in PageType, NEW p, NEW e, NEW x, PageOK(r, p, e, x), NEW k \in Bytewide
    PROVE  /\ Ranked(r, k) \in PageType /\ PageOK(Ranked(r, k), p, e, x)
           /\ Ranked(r, k).n = r.n /\ Ranked(r, k).use = r.use /\ Ranked(r, k).fl = r.fl
           /\ Ranked(r, k).fn = r.fn /\ Ranked(r, k).rest = r.rest /\ Ranked(r, k).rank = k
<1>0. PICK r2 : r2 = [r EXCEPT !.rank = k]
  OBVIOUS
<1>1. /\ r2.n = r.n /\ r2.use = r.use /\ r2.fl = r.fl /\ r2.rest = r.rest
      /\ r2.fn = r.fn /\ r2.rank = k
      /\ r2 = [n |-> r2.n, use |-> r2.use, fl |-> r2.fl, fn |-> r2.fn, rest |-> r2.rest, rank |-> r2.rank]
  BY <1>0 DEF PageType
<1>2. r2 \in PageType
  BY <1>1 DEF PageType, Bytewide
<1>3. PageOK(r2, p, e, x)
  BY <1>1 DEF PageOK, Untouched
<1>4. r2 = Ranked(r, k)
  BY <1>0 DEF Ranked
<1> QED
  BY <1>1, <1>2, <1>3, <1>4

----------------------------------------------------------------------------
(* The pool.                                                               *)

\* A pool as a record.  TypeOK says of each of its fields what it is; that there
\* are no others is needed to replace one.
PoolType == [list : Seq(Pages), free : Seq(Pages), num : Slots, pg : [Pages -> PageType],
             cnt : Nat, sum : Nat]

\* The two chains hold the pages they should, and untouched slots are on the
\* newest page only.
ListsOK(P) ==
    /\ IsInjective(P.list) /\ IsInjective(P.free)
    /\ ToSet(P.list) = {p \in Pages : P.pg[p].n > 0}
    /\ ToSet(P.free) = {p \in Pages : P.pg[p].fl # {}}
    /\ \A i \in 2..Len(P.list) : P.pg[P.list[i]].rest = 0

\* The number of pages and the sum of their ranks.
SumOK(P) ==
    /\ P.cnt = Len(P.list)
    /\ IsFiniteSet(Bytes(Ranks(P))) /\ P.sum = Cardinality(Bytes(Ranks(P)))

\* All of it, of a pool of which page e is being emptied; e is Nil if none is.
PoolOK(P, e, faults) ==
    /\ P \in PoolType
    /\ \A p \in Pages : PageOK(P.pg[p], p, e, faults)
    /\ ListsOK(P)
    /\ SumOK(P)

\* The fields of a pool.
LEMMA PoolFields ==
    ASSUME NEW P \in PoolType
    PROVE  /\ P.list \in Seq(Pages) /\ P.free \in Seq(Pages) /\ P.num \in Slots
           /\ P.pg \in [Pages -> PageType] /\ P.cnt \in Nat /\ P.sum \in Nat
BY DEF PoolType

\* The elements of a chain are pages.
LEMMA InChain ==
    ASSUME NEW s \in Seq(Pages)
    PROVE  /\ Len(s) \in Nat /\ ToSet(s) \subseteq Pages
           /\ \A i \in 1..Len(s) : s[i] \in Pages /\ s[i] \in ToSet(s)
           /\ s # <<>> => Head(s) = s[1] /\ Head(s) \in ToSet(s) /\ Len(s) > 0
           /\ s = <<>> => ToSet(s) = {} /\ Len(s) = 0
<1>1. Len(s) \in Nat /\ DOMAIN s = 1..Len(s)
  BY LenProperties
<1>2. \A i \in 1..Len(s) : s[i] \in Pages /\ s[i] \in ToSet(s)
  BY <1>1, ElementOfSeq DEF ToSet
<1>3. ToSet(s) \subseteq Pages
  BY <1>1, <1>2 DEF ToSet
<1>4. s # <<>> => Head(s) = s[1] /\ Head(s) \in ToSet(s) /\ Len(s) > 0
  BY <1>1, EmptySeq, HeadIsFirst
<1>5. s = <<>> => ToSet(s) = {} /\ Len(s) = 0
  BY EmptySeq DEF ToSet
<1> QED
  BY <1>1, <1>2, <1>3, <1>4, <1>5

\* A step that replaces the header of one page, of the same size and rank, and
\* what is on the free chain with it.
Replaces(P, p, r, F) ==
    /\ r \in PageType /\ r.n = P.pg[p].n /\ r.rank = P.pg[p].rank
    /\ r.rest = P.pg[p].rest \/ (P.list # <<>> /\ p = Head(P.list))
    /\ F \in Seq(Pages) /\ IsInjective(F)
    /\ ToSet(F) = IF r.fl = {} THEN ToSet(P.free) \ {p} ELSE ToSet(P.free) \cup {p}

Replaced(P, p, r, F) == [P EXCEPT !.pg = [P.pg EXCEPT ![p] = r], !.free = F]

LEMMA PageReplaced ==
    ASSUME NEW P, NEW e, NEW faults, PoolOK(P, e, faults), NEW p \in Pages,
           NEW r, PageOK(r, p, e, faults), NEW F, Replaces(P, p, r, F),
           NEW R, R = Replaced(P, p, r, F)
    PROVE  /\ PoolOK(R, e, faults) /\ R.list = P.list /\ R.free = F
           /\ R.pg = [P.pg EXCEPT ![p] = r]
<1>0. /\ r \in PageType /\ r.n = P.pg[p].n /\ r.rank = P.pg[p].rank
      /\ r.rest = P.pg[p].rest \/ (P.list # <<>> /\ p = Head(P.list))
      /\ F \in Seq(Pages) /\ IsInjective(F)
      /\ ToSet(F) = IF r.fl = {} THEN ToSet(P.free) \ {p} ELSE ToSet(P.free) \cup {p}
  BY DEF Replaces
<1>1. /\ P \in PoolType /\ P.list \in Seq(Pages) /\ P.pg \in [Pages -> PageType]
      /\ P.cnt \in Nat /\ P.sum \in Nat /\ P.num \in Slots /\ ListsOK(P) /\ SumOK(P)
  BY PoolFields DEF PoolOK
<1>2. /\ R.list = P.list /\ R.free = F /\ R.num = P.num /\ R.cnt = P.cnt /\ R.sum = P.sum
      /\ R.pg = [P.pg EXCEPT ![p] = r] /\ R \in PoolType
  <2>1. [P.pg EXCEPT ![p] = r] \in [Pages -> PageType]
    BY <1>0, <1>1
  <2> QED
    BY <1>0, <1>1, <2>1 DEF PoolType, Replaced
<1>3. R.pg[p] = r /\ \A q \in Pages : q # p => R.pg[q] = P.pg[q]
  BY <1>0, <1>1, <1>2
<1>4. \A q \in Pages : PageOK(R.pg[q], q, e, faults)
  BY <1>0, <1>3 DEF PoolOK
<1>5. ListsOK(R)
  <2>1. ToSet(R.list) = {q \in Pages : R.pg[q].n > 0}
    BY <1>0, <1>1, <1>2, <1>3 DEF ListsOK
  <2>2. ToSet(R.free) = {q \in Pages : R.pg[q].fl # {}}
    BY <1>0, <1>1, <1>2, <1>3 DEF ListsOK
  <2>3. ASSUME NEW i \in 2..Len(R.list) PROVE R.pg[R.list[i]].rest = 0
    <3>1. i \in 2..Len(P.list) /\ i \in 1..Len(P.list) /\ P.pg[P.list[i]].rest = 0
      BY <1>0, <1>1, <1>2, InChain DEF ListsOK
    <3>2. P.list[i] \in Pages
      BY <1>0, <1>1, <3>1, InChain
    <3>3. P.list[i] = p => r.rest = P.pg[p].rest
      <4>1. SUFFICES ASSUME P.list[i] = p, P.list # <<>>, p = Head(P.list)
                     PROVE  FALSE
        BY <1>0
      <4>2. P.list[i] = P.list[1] /\ 1 \in 1..Len(P.list) /\ i # 1
        BY <1>0, <1>1, <3>1, <4>1, InChain
      <4> QED
        BY <1>0, <1>1, <3>1, <4>2, LenProperties DEF ListsOK, IsInjective
    <3> QED
      BY <1>0, <1>2, <1>3, <3>1, <3>2, <3>3
  <2> QED
    BY <1>0, <1>1, <1>2, <2>1, <2>2, <2>3 DEF ListsOK
<1>6. SumOK(R)
  <2>1. ToSet(P.list) \subseteq Pages
    BY <1>0, <1>1, InChain
  <2>2. \A q \in ToSet(P.list) : R.pg[q].rank = P.pg[q].rank
    BY <1>0, <1>3, <2>1
  <2>3. Ranks(R) = Ranks(P)
    BY <1>2, <2>2 DEF Ranks
  <2> QED
    BY <1>0, <1>1, <1>2, <2>3 DEF SumOK
<1> QED
  BY <1>2, <1>4, <1>5, <1>6 DEF PoolOK

\* A freed slot goes back into use; its page leaves the free chain with the last.
LEMMA TakenOK ==
    ASSUME NEW P, NEW e, NEW faults, PoolOK(P, e, faults), NEW p \in Pages,
           NEW s \in P.pg[p].fl
    PROVE  /\ PoolOK(Taken(P, p, s), e, faults)
           /\ s \in Slots /\ s \notin P.pg[p].use
           /\ Taken(P, p, s).list = P.list
           /\ Taken(P, p, s).pg = [P.pg EXCEPT ![p] = FreedTaken(P.pg[p], s)]
           /\ ToSet(P.free) \ {p} \subseteq ToSet(Taken(P, p, s).free)
<1> DEFINE r == FreedTaken(P.pg[p], s)
           F == IF P.pg[p].fl = {s} THEN RemoveFirst(P.free, p) ELSE P.free
<1>0. PICK R : R = Replaced(P, p, r, F)
  OBVIOUS
<1>1. P \in PoolType /\ P.pg \in [Pages -> PageType] /\ P.pg[p] \in PageType /\ P.free \in Seq(Pages)
  BY PoolFields DEF PoolOK
<1>2. PageOK(P.pg[p], p, e, faults)
  BY DEF PoolOK
<1>3. /\ s \in Slots /\ s \notin P.pg[p].use
      /\ r \in PageType /\ PageOK(r, p, e, faults) /\ r.n = P.pg[p].n /\ r.rank = P.pg[p].rank
      /\ r.rest = P.pg[p].rest /\ r.fl = P.pg[p].fl \ {s}
  BY <1>1, <1>2, TakeFreed
<1>4. /\ F \in Seq(Pages) /\ IsInjective(F)
      /\ ToSet(F) = IF r.fl = {} THEN ToSet(P.free) \ {p} ELSE ToSet(P.free) \cup {p}
  <2>1. IsInjective(P.free) /\ p \in ToSet(P.free)
    BY DEF PoolOK, ListsOK
  <2>2. r.fl = {} <=> P.pg[p].fl = {s}
    BY <1>3
  <2>3. CASE P.pg[p].fl = {s}
    BY <1>1, <2>1, <2>2, <2>3, RemoveFirstProperties
  <2>4. CASE P.pg[p].fl # {s}
    BY <1>1, <2>1, <2>2, <2>4
  <2> QED
    BY <2>3, <2>4
<1>5. Taken(P, p, s) = R
  BY <1>0, <1>1 DEF Taken, PoolType, Replaced
<1> HIDE DEF r, F
<1>6. /\ PoolOK(R, e, faults) /\ R.list = P.list /\ R.free = F
      /\ R.pg = [P.pg EXCEPT ![p] = r]
  <2>1. Replaces(P, p, r, F)
    BY <1>3, <1>4 DEF Replaces
  <2> QED
    BY <1>0, <1>3, <2>1, PageReplaced
<1> QED
  BY <1>3, <1>4, <1>5, <1>6 DEF r

\* A slot is freed; its page enters the free chain with the first.
LEMMA SlotFreedOK ==
    ASSUME NEW P, NEW e, NEW faults, PoolOK(P, e, faults), NEW p \in Pages,
           NEW s \in P.pg[p].use
    PROVE  /\ PoolOK(SlotFreed(P, p, s), e, faults)
           /\ SlotFreed(P, p, s).list = P.list
           /\ SlotFreed(P, p, s).pg = [P.pg EXCEPT ![p] = GivenBack(P.pg[p], s)]
           /\ p \in ToSet(SlotFreed(P, p, s).free)
<1> DEFINE r == GivenBack(P.pg[p], s)
           F == IF P.pg[p].fl = {} THEN <<p>> \o P.free ELSE P.free
<1>0. PICK R : R = Replaced(P, p, r, F)
  OBVIOUS
<1>1. P \in PoolType /\ P.pg \in [Pages -> PageType] /\ P.pg[p] \in PageType /\ P.free \in Seq(Pages)
  BY PoolFields DEF PoolOK
<1>2. PageOK(P.pg[p], p, e, faults)
  BY DEF PoolOK
<1>3. /\ r \in PageType /\ PageOK(r, p, e, faults) /\ r.n = P.pg[p].n /\ r.rank = P.pg[p].rank
      /\ r.rest = P.pg[p].rest /\ r.fl = P.pg[p].fl \cup {s}
  BY <1>1, <1>2, GiveBack
<1>4. F \in Seq(Pages) /\ IsInjective(F) /\ ToSet(F) = ToSet(P.free) \cup {p}
  <2>1. IsInjective(P.free) /\ (p \in ToSet(P.free) <=> P.pg[p].fl # {})
    BY DEF PoolOK, ListsOK
  <2>2. CASE P.pg[p].fl = {}
    BY <1>1, <2>1, <2>2, ConsProperties
  <2>3. CASE P.pg[p].fl # {}
    BY <1>1, <2>1, <2>3
  <2> QED
    BY <2>2, <2>3
<1>5. SlotFreed(P, p, s) = R
  BY <1>0, <1>1 DEF SlotFreed, PoolType, Replaced
<1> HIDE DEF r, F
<1>6. /\ PoolOK(R, e, faults) /\ R.list = P.list /\ R.free = F
      /\ R.pg = [P.pg EXCEPT ![p] = r]
  <2>1. Replaces(P, p, r, F)
    BY <1>3, <1>4 DEF Replaces
  <2> QED
    BY <1>0, <1>3, <2>1, PageReplaced
<1> QED
  BY <1>4, <1>5, <1>6 DEF r

\* A page in which every object is gone is deleted.  If it was being emptied, none
\* is any more.
LEMMA DeletedOK ==
    ASSUME NEW P, NEW e, NEW faults, PoolOK(P, e, faults), NEW p \in ToSet(P.list),
           NEW d, \A q \in Pages \ {p} : (q # d) => (q # e)
    PROVE  /\ PoolOK(Deleted(P, p), d, faults)
           /\ p \in Pages /\ Deleted(P, p).pg = [P.pg EXCEPT ![p] = NoPage]
<1>0. PICK R : R = [P EXCEPT !.list = RemoveFirst(P.list, p), !.free = RemoveFirst(P.free, p),
                             !.pg = [P.pg EXCEPT ![p] = NoPage], !.cnt = P.cnt - 1,
                             !.sum = P.sum - P.pg[p].rank]
  OBVIOUS
<1>1. /\ P \in PoolType /\ P.list \in Seq(Pages) /\ P.free \in Seq(Pages) /\ P.num \in Slots
      /\ P.pg \in [Pages -> PageType] /\ P.cnt \in Nat /\ P.sum \in Nat
      /\ ListsOK(P) /\ SumOK(P) /\ p \in Pages
  BY PoolFields, InChain DEF PoolOK
<1>2. /\ R.list = RemoveFirst(P.list, p) /\ R.free = RemoveFirst(P.free, p) /\ R.num = P.num
      /\ R.pg = [P.pg EXCEPT ![p] = NoPage] /\ R.cnt = P.cnt - 1 /\ R.sum = P.sum - P.pg[p].rank
      /\ R = [list |-> R.list, free |-> R.free, num |-> R.num, pg |-> R.pg, cnt |-> R.cnt, sum |-> R.sum]
  BY <1>0, <1>1 DEF PoolType
<1>3. /\ R.pg[p] = NoPage /\ R.pg \in [Pages -> PageType]
      /\ \A q \in Pages : q # p => R.pg[q] = P.pg[q]
  BY <1>1, <1>2, EmptyPage
<1>4. /\ R.list \in Seq(Pages) /\ IsInjective(R.list) /\ ToSet(R.list) = ToSet(P.list) \ {p}
      /\ R.free \in Seq(Pages) /\ IsInjective(R.free) /\ ToSet(R.free) = ToSet(P.free) \ {p}
  BY <1>1, <1>2, RemoveFirstProperties DEF ListsOK
<1>5. \A q \in Pages : PageOK(R.pg[q], q, d, faults)
  <2> SUFFICES ASSUME NEW q \in Pages PROVE PageOK(R.pg[q], q, d, faults)
    OBVIOUS
  <2>1. CASE q = p
    BY <1>3, <2>1, EmptyPage
  <2>2. CASE q # p
    <3>1. PageOK(P.pg[q], q, e, faults)
      BY DEF PoolOK
    <3> QED
      BY <1>3, <2>2, <3>1 DEF PageOK
  <2> QED
    BY <2>1, <2>2
<1>6. ListsOK(R)
  <2>1. ToSet(R.list) = {q \in Pages : R.pg[q].n > 0}
    BY <1>1, <1>3, <1>4, EmptyPage DEF ListsOK
  <2>2. ToSet(R.free) = {q \in Pages : R.pg[q].fl # {}}
    BY <1>1, <1>3, <1>4, EmptyPage DEF ListsOK
  <2>3. ASSUME NEW i \in 2..Len(R.list) PROVE R.pg[R.list[i]].rest = 0
    <3>1. PICK j \in 2..Len(P.list) : R.list[i] = P.list[j]
      BY <1>1, <1>2, RemoveFirstTail, SMTT(30)
    <3>2. P.list[j] \in Pages /\ P.pg[P.list[j]].rest = 0
      BY <1>1, InChain DEF ListsOK
    <3> QED
      BY <1>3, <3>1, <3>2, EmptyPage
  <2> QED
    BY <1>4, <2>1, <2>2, <2>3 DEF ListsOK
<1>7. SumOK(R)
  <2>1. P.pg[p].rank \in Nat
    BY <1>1, HeaderFields, Widths DEF Bytewide
  <2>2. Grown(Ranks(R), Ranks(P), p) /\ Ranks(P)[p] = P.pg[p].rank
    <3>1. ToSet(P.list) \subseteq Pages
      BY <1>1, InChain
    <3> QED
      BY <1>3, <1>4, <2>1, <3>1 DEF Ranks, Grown
  <2>3. /\ IsFiniteSet(Bytes(Ranks(R)))
        /\ Cardinality(Bytes(Ranks(P))) = Cardinality(Bytes(Ranks(R))) + P.pg[p].rank
    BY <1>1, <2>2, BytesGrow DEF SumOK
  <2>4. Cardinality(Bytes(Ranks(R))) \in Nat
    BY <2>3, FS_CardinalityType
  <2>5. R.sum = Cardinality(Bytes(Ranks(R)))
    BY <1>1, <1>2, <2>1, <2>3, <2>4 DEF SumOK
  <2>6. R.cnt = Len(R.list)
    BY <1>1, <1>2, RemoveFirstLen DEF SumOK
  <2> QED
    BY <2>3, <2>5, <2>6 DEF SumOK
<1>8. R \in PoolType
  <2>1. R.sum \in Nat /\ R.cnt \in Nat
    BY <1>4, <1>7, FS_CardinalityType, LenProperties DEF SumOK
  <2> QED
    BY <1>1, <1>2, <1>3, <1>4, <2>1 DEF PoolType
<1>9. R = Deleted(P, p)
  BY <1>0, <1>1 DEF Deleted, PoolType
<1> QED
  BY <1>1, <1>2, <1>5, <1>6, <1>7, <1>8, <1>9 DEF PoolOK

\* The newest page has another slot in use.
LEMMA RestOK ==
    ASSUME NEW P, NEW e, e \notin Pages, NEW faults, PoolOK(P, e, faults),
           P.list # <<>>, NEW p, p = Head(P.list), P.pg[p].rest # 0
    PROVE  /\ p \in Pages /\ P.pg[p].rest \in Slots /\ P.pg[p].rest \notin P.pg[p].use
           /\ PoolOK([P EXCEPT !.pg[p] = RestTaken(P.pg[p])], e, faults)
           /\ [P EXCEPT !.pg[p] = RestTaken(P.pg[p])].pg = [P.pg EXCEPT ![p] = RestTaken(P.pg[p])]
<1>1. /\ P \in PoolType /\ P.pg \in [Pages -> PageType] /\ P.free \in Seq(Pages)
      /\ p \in Pages /\ P.pg[p] \in PageType /\ p # e
  BY PoolFields, InChain DEF PoolOK
<1>2. PICK q : q = P.pg[p]
  OBVIOUS
<1> DEFINE r == RestTaken(q)
<1>3. q \in PageType /\ PageOK(q, p, e, faults)
  BY <1>1, <1>2 DEF PoolOK
<1>4. /\ P.pg[p].rest \in Slots /\ P.pg[p].rest \notin P.pg[p].use
      /\ r \in PageType /\ PageOK(r, p, e, faults)
      /\ r.n = P.pg[p].n /\ r.fl = P.pg[p].fl /\ r.rank = P.pg[p].rank
  BY <1>1, <1>2, <1>3, TakeRest
<1> HIDE DEF r
<1>5. Replaces(P, p, r, P.free)
  <2>1. IsInjective(P.free) /\ (p \in ToSet(P.free) <=> P.pg[p].fl # {})
    BY <1>1 DEF PoolOK, ListsOK
  <2>2. ToSet(P.free) = IF r.fl = {} THEN ToSet(P.free) \ {p} ELSE ToSet(P.free) \cup {p}
    BY <1>4, <2>1
  <2> QED
    BY <1>1, <1>4, <2>1, <2>2 DEF Replaces
<1>6. PICK R : R = Replaced(P, p, r, P.free)
  OBVIOUS
<1>7. PoolOK(R, e, faults) /\ R.pg = [P.pg EXCEPT ![p] = r]
  BY <1>1, <1>4, <1>5, <1>6, PageReplaced
<1>8. [P EXCEPT !.pg[p] = RestTaken(P.pg[p])] = R
  <2>1. P = [list |-> P.list, free |-> P.free, num |-> P.num, pg |-> P.pg, cnt |-> P.cnt, sum |-> P.sum]
    BY <1>1 DEF PoolType
  <2>2. R = [list |-> P.list, free |-> P.free, num |-> P.num, pg |-> [P.pg EXCEPT ![p] = r],
             cnt |-> P.cnt, sum |-> P.sum]
    BY <1>6, <2>1 DEF Replaced
  <2>3. [P EXCEPT !.pg[p] = r]
           = [list |-> P.list, free |-> P.free, num |-> P.num, pg |-> [P.pg EXCEPT ![p] = r],
              cnt |-> P.cnt, sum |-> P.sum]
    BY <2>1
  <2> QED
    BY <1>2, <2>2, <2>3 DEF r
<1> QED
  BY <1>1, <1>2, <1>4, <1>7, <1>8 DEF r

\* freeNum of a page is counted down for nothing.
NumCountedDown(P, p) == [P EXCEPT !.pg[p] = CountedDown(P.pg[p])]

LEMMA CountedDownOK ==
    ASSUME NEW P, NEW e, NEW faults, "handle" \in faults, PoolOK(P, e, faults), NEW p \in Pages
    PROVE  /\ PoolOK(NumCountedDown(P, p), e, faults)
           /\ NumCountedDown(P, p).pg = [P.pg EXCEPT ![p] = CountedDown(P.pg[p])]
<1>1. P \in PoolType /\ P.pg \in [Pages -> PageType] /\ P.free \in Seq(Pages) /\ P.pg[p] \in PageType
  BY PoolFields DEF PoolOK
<1>2. PICK q : q = P.pg[p]
  OBVIOUS
<1> DEFINE r == CountedDown(q)
<1>3. q \in PageType /\ PageOK(q, p, e, faults)
  BY <1>1, <1>2 DEF PoolOK
<1>4. /\ r \in PageType /\ PageOK(r, p, e, faults) /\ r.rest = P.pg[p].rest
      /\ r.n = P.pg[p].n /\ r.fl = P.pg[p].fl /\ r.rank = P.pg[p].rank
  BY <1>2, <1>3, CountDown
<1> HIDE DEF r
<1>5. Replaces(P, p, r, P.free)
  <2>1. IsInjective(P.free) /\ (p \in ToSet(P.free) <=> P.pg[p].fl # {})
    BY DEF PoolOK, ListsOK
  <2>2. ToSet(P.free) = IF r.fl = {} THEN ToSet(P.free) \ {p} ELSE ToSet(P.free) \cup {p}
    BY <1>4, <2>1
  <2> QED
    BY <1>1, <1>4, <2>1, <2>2 DEF Replaces
<1>6. PICK R : R = Replaced(P, p, r, P.free)
  OBVIOUS
<1>8. PoolOK(R, e, faults) /\ R.pg = [P.pg EXCEPT ![p] = r]
  BY <1>4, <1>5, <1>6, PageReplaced
<1>9. [P EXCEPT !.pg[p] = CountedDown(P.pg[p])] = R
  <2>1. P = [list |-> P.list, free |-> P.free, num |-> P.num, pg |-> P.pg, cnt |-> P.cnt, sum |-> P.sum]
    BY <1>1 DEF PoolType
  <2>2. R = [list |-> P.list, free |-> P.free, num |-> P.num, pg |-> [P.pg EXCEPT ![p] = r],
             cnt |-> P.cnt, sum |-> P.sum]
    BY <1>6, <2>1 DEF Replaced
  <2>3. [P EXCEPT !.pg[p] = r]
           = [list |-> P.list, free |-> P.free, num |-> P.num, pg |-> [P.pg EXCEPT ![p] = r],
              cnt |-> P.cnt, sum |-> P.sum]
    BY <2>1
  <2> QED
    BY <1>2, <2>2, <2>3 DEF r
<1> QED
  BY <1>1, <1>2, <1>8, <1>9 DEF r, NumCountedDown

\* The slots of the next page are another number.
LEMMA NumOK ==
    ASSUME NEW P, NEW e, NEW faults, PoolOK(P, e, faults), NEW n \in Slots
    PROVE  PoolOK([P EXCEPT !.num = n], e, faults) /\ [P EXCEPT !.num = n].pg = P.pg
<1>1. P \in PoolType
  BY DEF PoolOK
<1>2. PICK R : R = [P EXCEPT !.num = n]
  OBVIOUS
<1>3. /\ R.list = P.list /\ R.free = P.free /\ R.pg = P.pg /\ R.cnt = P.cnt /\ R.sum = P.sum
      /\ R \in PoolType
  BY <1>1, <1>2 DEF PoolType
<1>4. Ranks(R) = Ranks(P)
  BY <1>3 DEF Ranks
<1>5. ListsOK(R) /\ SumOK(R)
  BY <1>3, <1>4 DEF PoolOK, ListsOK, SumOK
<1>6. PoolOK(R, e, faults)
  BY <1>3, <1>5 DEF PoolOK
<1> QED
  BY <1>2, <1>3, <1>6

\* The number of slots of a new page is at most one more than that of the last, and
\* at most the maximum; the system may give a half of it, a fourth and so on.
LEMMA SlotsOfNewPage ==
    ASSUME pool.num \in Slots
    PROVE  Obtained \subseteq Slots /\ \A n \in Slots : NextNum(n) \in Slots
<1>1. HeapMax \in Nat /\ pool.num \in 1..HeapMax
  BY Widths DEF Slots
<1>2. \A d \in {1, 2, 4, 8, 16, 32, 64, 128} : pool.num \div d \in 0..pool.num
  BY <1>1
<1>3. Tries \subseteq Slots
  BY <1>1, <1>2 DEF Tries, Slots
<1>4. Obtained \subseteq Slots
  BY <1>3 DEF Obtained
<1>5. \A n \in Slots : NextNum(n) \in Slots
  BY <1>1 DEF NextNum, Slots
<1> QED
  BY <1>4, <1>5

\* The ranks are numbers, and their sum is finite.
LEMMA RanksAre ==
    ASSUME NEW P, NEW e, NEW faults, PoolOK(P, e, faults)
    PROVE  /\ DOMAIN Ranks(P) = ToSet(P.list) /\ ToSet(P.list) \subseteq Pages
           /\ \A p \in ToSet(P.list) : Ranks(P)[p] = P.pg[p].rank /\ P.pg[p].rank \in Bytewide
           /\ P.sum \in Nat /\ P.cnt \in Nat
           /\ P.sum <= P.cnt * (ByteRange - 1)
<1>1. P \in PoolType /\ P.list \in Seq(Pages) /\ P.pg \in [Pages -> PageType]
  BY PoolFields DEF PoolOK
<1>2. ToSet(P.list) \subseteq Pages
  BY <1>1, InChain
<1>3. /\ DOMAIN Ranks(P) = ToSet(P.list)
      /\ \A p \in ToSet(P.list) : Ranks(P)[p] = P.pg[p].rank /\ P.pg[p].rank \in Bytewide
  BY <1>1, <1>2, HeaderFields DEF Ranks
<1>4. IsFiniteSet(ToSet(P.list)) /\ Cardinality(ToSet(P.list)) = Len(P.list)
  BY <1>1, ChainCount DEF PoolOK, ListsOK
<1>5. ByteRange - 1 \in Nat
  BY Widths
<1>6. Cardinality(Bytes(Ranks(P))) <= Cardinality(ToSet(P.list)) * (ByteRange - 1)
  BY <1>3, <1>4, <1>5, BytesBound DEF Bytewide
<1>7. P.sum \in Nat /\ P.cnt \in Nat
  BY <1>1, PoolFields
<1> QED
  BY <1>2, <1>3, <1>4, <1>6, <1>7 DEF PoolOK, SumOK

\* The average of numbers within a width is within it.
LEMMA Average ==
    ASSUME NEW a \in Nat, NEW c \in Nat, c > 0, NEW m \in Nat, a <= c * m
    PROVE  a \div c \in 0..m
<1>1. PICK q \in Int : q = a \div c
  OBVIOUS
<1>2. c * q <= a /\ a < c * q + c
  BY <1>1
<1>3. ASSUME q < 0 PROVE FALSE
  <2>1. q + 1 <= 0
    BY <1>3
  <2>2. c * (q + 1) <= 0
    BY <2>1
  <2> QED
    BY <1>2, <2>2
<1>4. ASSUME q > m PROVE FALSE
  <2>1. c * (q - m) >= c
    BY <1>4
  <2> QED
    BY <1>2, <2>1
<1> QED
  BY <1>1, <1>3, <1>4

LEMMA NewRankIs ==
    ASSUME NEW e, NEW faults, PoolOK(pool, e, faults), rank \in Bytewide
    PROVE  NewRank \in Bytewide
<1>1. pool.sum \in Nat /\ pool.cnt \in Nat /\ pool.sum <= pool.cnt * (ByteRange - 1)
  BY RanksAre
<1>2. ByteRange - 1 \in Nat
  BY Widths
<1>3. pool.cnt > 0 => pool.sum \div pool.cnt \in 0..(ByteRange - 1)
  BY <1>1, <1>2, Average
<1> QED
  BY <1>3 DEF NewRank, Bytewide

\* A page is made when none has an untouched or a freed slot.
Created(P, p, n, m, k) == [P EXCEPT !.list = <<p>> \o @, !.num = m, !.cnt = @ + 1, !.sum = @ + k,
                                    !.pg[p] = Fresh(n, k)]

LEMMA CreatedOK ==
    ASSUME NEW P, NEW e, NEW faults, PoolOK(P, e, faults), NEW p \in Pages \ ToSet(P.list), p # e,
           P.list # <<>> => P.pg[Head(P.list)].rest = 0, P.free = <<>>,
           NEW n \in Slots, NEW m \in Slots, NEW k \in Bytewide,
           NEW R, R = Created(P, p, n, m, k)
    PROVE  /\ PoolOK(R, e, faults)
           /\ R.pg = [P.pg EXCEPT ![p] = Fresh(n, k)] /\ P.pg[p].use = {}
<1>1. /\ P \in PoolType /\ P.list \in Seq(Pages) /\ P.free \in Seq(Pages) /\ P.num \in Slots
      /\ P.pg \in [Pages -> PageType] /\ P.cnt \in Nat /\ P.sum \in Nat
      /\ ListsOK(P) /\ SumOK(P) /\ PageOK(P.pg[p], p, e, faults)
  BY PoolFields DEF PoolOK
<1>2. PICK r : r = Fresh(n, k)
  OBVIOUS
<1>3. /\ r \in PageType /\ \A q, f, x : PageOK(r, q, f, x)
      /\ r.n = n /\ r.use = {1} /\ r.fl = {} /\ r.rank = k
  BY <1>2, NewPage
<1>4. /\ R.list = <<p>> \o P.list /\ R.free = P.free /\ R.num = m /\ R.cnt = P.cnt + 1
      /\ R.sum = P.sum + k /\ R.pg = [P.pg EXCEPT ![p] = r]
      /\ R = [list |-> R.list, free |-> R.free, num |-> R.num, pg |-> R.pg, cnt |-> R.cnt, sum |-> R.sum]
  BY <1>1, <1>2 DEF PoolType, Created
<1>5. /\ R.pg[p] = r /\ R.pg \in [Pages -> PageType]
      /\ \A q \in Pages : q # p => R.pg[q] = P.pg[q]
  BY <1>1, <1>3, <1>4
<1>6. /\ R.list \in Seq(Pages) /\ IsInjective(R.list) /\ ToSet(R.list) = {p} \cup ToSet(P.list)
      /\ Len(R.list) = Len(P.list) + 1 /\ \A i \in 2..Len(R.list) : R.list[i] = P.list[i - 1]
  BY <1>1, <1>4, ConsProperties, ConsElements DEF ListsOK
<1>7. P.pg[p].n = 0 /\ P.pg[p].fl = {} /\ P.pg[p].use = {}
  <2>1. P.pg[p].n = 0
    BY <1>1, HeaderFields, Widths DEF ListsOK
  <2>2. 1..0 = {}
    OBVIOUS
  <2> QED
    BY <1>1, <2>1, <2>2 DEF PageOK
<1>8. \A q \in Pages : PageOK(R.pg[q], q, e, faults)
  BY <1>3, <1>5 DEF PoolOK
<1>9. ListsOK(R)
  <2>1. ToSet(R.list) = {q \in Pages : R.pg[q].n > 0}
    BY <1>1, <1>3, <1>5, <1>6 DEF ListsOK, Slots
  <2>2. ToSet(R.free) = {q \in Pages : R.pg[q].fl # {}}
    BY <1>1, <1>3, <1>4, <1>5, <1>7 DEF ListsOK
  <2>3. ASSUME NEW i \in 2..Len(R.list) PROVE R.pg[R.list[i]].rest = 0
    <3>1. i - 1 \in 1..Len(P.list) /\ R.list[i] = P.list[i - 1]
      BY <1>1, <1>6, LenProperties
    <3>2. /\ P.list[i - 1] \in Pages /\ P.list[i - 1] # p /\ P.list # <<>> /\ Head(P.list) = P.list[1]
      BY <1>1, <3>1, InChain, LenProperties
    <3>3. P.pg[P.list[i - 1]].rest = 0
      <4>1. CASE i - 1 = 1
        BY <3>2, <4>1
      <4>2. CASE i - 1 # 1
        BY <1>1, <3>1, <4>2, LenProperties DEF ListsOK
      <4> QED
        BY <4>1, <4>2
    <3> QED
      BY <1>5, <3>1, <3>2, <3>3
  <2> QED
    BY <1>1, <1>4, <1>6, <2>1, <2>2, <2>3 DEF ListsOK
<1>10. SumOK(R)
  <2>1. Grown(Ranks(P), Ranks(R), p) /\ Ranks(R)[p] = k
    BY <1>1, <1>3, <1>5, <1>6, InChain DEF Ranks, Grown, Bytewide
  <2>2. /\ IsFiniteSet(Bytes(Ranks(R)))
        /\ Cardinality(Bytes(Ranks(R))) = Cardinality(Bytes(Ranks(P))) + k
    BY <1>1, <2>1, BytesGrow DEF SumOK
  <2> QED
    BY <1>1, <1>4, <1>6, <2>2 DEF SumOK
<1>11. R \in PoolType
  <2>1. R.cnt \in Nat /\ R.sum \in Nat
    BY <1>1, <1>4 DEF Bytewide
  <2> QED
    BY <1>1, <1>4, <1>5, <1>6, <2>1 DEF PoolType
<1> QED
  BY <1>2, <1>4, <1>7, <1>8, <1>9, <1>10, <1>11 DEF PoolOK

----------------------------------------------------------------------------
(* czl_mm_free_ov.                                                         *)

\* The page of a slot that was in use: it is deleted, or the slot of it is freed and
\* it is on the free chain.
LEMMA ReleasedOK ==
    ASSUME NEW P, NEW e, NEW faults, PoolOK(P, e, faults), NEW p \in Pages, NEW s \in P.pg[p].use
    PROVE  /\ PoolOK(Released(P, p, s), e, faults)
           /\ Released(P, p, s).pg \in [Pages -> PageType]
           /\ Released(P, p, s).pg[p].use = P.pg[p].use \ {s}
           /\ \A q \in Pages : q # p => Released(P, p, s).pg[q] = P.pg[q]
           /\ Fragmented(Released(P, p, s), p) => p \in ToSet(Released(P, p, s).free)
<1> DEFINE R == Released(P, p, s)
<1>1. /\ P.pg \in [Pages -> PageType] /\ P.pg[p] \in PageType /\ PageOK(P.pg[p], p, e, faults)
      /\ P.list \in Seq(Pages)
  BY PoolFields DEF PoolOK
<1>2. p \in ToSet(P.list)
  <2>1. P.pg[p].n \in 0..HeapMax /\ HeapMax \in Nat /\ s \in 1..P.pg[p].n
    BY <1>1, HeaderFields, Widths DEF PageOK
  <2>2. P.pg[p].n > 0
    BY <2>1
  <2> QED
    BY <2>2 DEF PoolOK, ListsOK
<1>3. CASE P.pg[p].use = {s} /\ FreeHeadHasNext(P)
  <2>1. R = Deleted(P, p)
    BY <1>3 DEF Released
  <2>2. PoolOK(R, e, faults) /\ R.pg = [P.pg EXCEPT ![p] = NoPage]
    BY <1>2, <2>1, DeletedOK
  <2>3. R.pg[p] = NoPage /\ ~Fragmented(R, p)
    BY <1>1, <2>2, EmptyPage DEF Fragmented
  <2> HIDE DEF R
  <2>4. R.pg \in [Pages -> PageType] /\ R.pg[p].use = P.pg[p].use \ {s}
    BY <1>1, <1>3, <2>2, <2>3, EmptyPage
  <2>5. \A q \in Pages : q # p => R.pg[q] = P.pg[q]
    BY <1>1, <2>2
  <2> QED
    BY <2>2, <2>3, <2>4, <2>5 DEF R
<1>4. CASE ~(P.pg[p].use = {s} /\ FreeHeadHasNext(P))
  <2>1. R = SlotFreed(P, p, s)
    BY <1>4 DEF Released
  <2>2. /\ PoolOK(R, e, faults) /\ R.pg = [P.pg EXCEPT ![p] = GivenBack(P.pg[p], s)]
        /\ p \in ToSet(R.free)
    BY <2>1, SlotFreedOK
  <2>3. GivenBack(P.pg[p], s) \in PageType /\ GivenBack(P.pg[p], s).use = P.pg[p].use \ {s}
    BY <1>1, GiveBack
  <2> HIDE DEF R
  <2>4. R.pg \in [Pages -> PageType] /\ R.pg[p].use = P.pg[p].use \ {s}
    BY <1>1, <2>2, <2>3
  <2>5. \A q \in Pages : q # p => R.pg[q] = P.pg[q]
    BY <1>1, <2>2
  <2> QED
    BY <2>2, <2>4, <2>5 DEF R
<1> QED
  BY <1>3, <1>4

----------------------------------------------------------------------------
(* czl_mm_fill_page.                                                       *)

\* fp is on the free chain at its index, and the other pages are the others.
LEMMA OthersAre ==
    ASSUME pool.free \in Seq(Pages), IsInjective(pool.free), fp \in ToSet(pool.free)
    PROVE  /\ Len(pool.free) \in Nat /\ FpIndex \in 1..Len(pool.free) /\ pool.free[FpIndex] = fp
           /\ Others \in Seq(ToSet(pool.free) \ {fp})
<1> DEFINE s == pool.free
           A == ToSet(s) \ {fp}
<1>1. Len(s) \in Nat /\ DOMAIN s = 1..Len(s)
  BY LenProperties
<1>2. \E i \in 1..Len(s) : s[i] = fp
  BY <1>1 DEF ToSet
<1>3. FpIndex \in 1..Len(s) /\ s[FpIndex] = fp
  BY <1>2 DEF FpIndex
<1>4. PICK k \in 1..Len(s) : k = FpIndex
  BY <1>3
<1>5. \A i \in 1..Len(s) : i # k => s[i] \in A
  BY <1>1, <1>3, <1>4 DEF ToSet, IsInjective
<1> HIDE DEF A
<1>6. SubSeq(s, k + 1, Len(s)) \in Seq(A)
  <2>1. \A i \in (k + 1)..Len(s) : s[i] \in A
    BY <1>1, <1>5
  <2> QED
    BY <1>1, <2>1, SubSeqProperties
<1>7. Reverse(SubSeq(s, 1, k - 1)) \in Seq(A)
  <2>1. \A i \in 1..(k - 1) : s[i] \in A
    BY <1>1, <1>5
  <2>2. SubSeq(s, 1, k - 1) \in Seq(A)
    BY <1>1, <2>1, SubSeqProperties
  <2> QED
    BY <2>2, ReverseIsSeq
<1>8. Others \in Seq(A)
  BY <1>4, <1>6, <1>7, ConcatProperties DEF Others
<1> QED
  BY <1>1, <1>3, <1>8 DEF A

\* The page that is emptied is not the one an object moves to.
LEMMA TargetIs ==
    ASSUME pool.free \in Seq(Pages), IsInjective(pool.free), fp \in ToSet(pool.free), HasTarget
    PROVE  Target \in ToSet(pool.free) /\ Target # fp
<1>1. Len(pool.free) \in Nat /\ DOMAIN pool.free = 1..Len(pool.free) /\ Len(pool.free) > 1
  BY LenProperties DEF HasTarget
<1>2. PICK k \in 1..Len(pool.free) : k = FpIndex /\ pool.free[k] = fp
  BY OthersAre
<1>3. PICK j \in 1..Len(pool.free) : Target = pool.free[j] /\ j # k
  <2>1. CASE k < Len(pool.free)
    <3>1. Target = pool.free[k + 1] /\ k + 1 \in 1..Len(pool.free) /\ k + 1 # k
      BY <1>1, <1>2, <2>1 DEF Target
    <3> QED
      BY <3>1
  <2>2. CASE ~(k < Len(pool.free))
    <3>1. Target = pool.free[k - 1] /\ k - 1 \in 1..Len(pool.free) /\ k - 1 # k
      BY <1>1, <1>2, <2>2 DEF Target
    <3> QED
      BY <3>1
  <2> QED
    BY <2>1, <2>2
<1> QED
  BY <1>1, <1>2, <1>3 DEF ToSet, IsInjective

\* Ranks that fall by one each take a byte of every page off the sum.
LEMMA RanksFall ==
    ASSUME NEW f, IsFiniteSet(DOMAIN f), IsFiniteSet(Bytes(f)), NEW F, F \subseteq DOMAIN f,
           \A p \in DOMAIN f : f[p] \in Nat, \A p \in F : f[p] > 0,
           NEW g, DOMAIN g = DOMAIN f, \A p \in DOMAIN f : g[p] = IF p \in F THEN f[p] - 1 ELSE f[p]
    PROVE  /\ IsFiniteSet(Bytes(g))
           /\ Cardinality(Bytes(g)) = Cardinality(Bytes(f)) - Cardinality(F)
<1> DEFINE D == {<<p, f[p]>> : p \in F}
<1>1. IsFiniteSet(F)
  BY FS_Subset
<1>2. Cardinality(D) = Cardinality(F)
  BY <1>1, Tagged
<1>3. D \subseteq Bytes(f)
  <2>1. \A p \in F : p \in DOMAIN f /\ f[p] \in 1..f[p]
    OBVIOUS
  <2> QED
    BY <2>1 DEF Bytes
<1>4. Bytes(g) = Bytes(f) \ D
  <2>1. \A p \in DOMAIN f : p \in F => 1..g[p] = (1..f[p]) \ {f[p]}
    OBVIOUS
  <2>2. \A p \in DOMAIN f : p \notin F => 1..g[p] = 1..f[p]
    OBVIOUS
  <2>3. \A x, i : <<x, i>> \in Bytes(g) <=> x \in DOMAIN f /\ i \in 1..g[x]
    BY DEF Bytes
  <2>4. \A x, i : <<x, i>> \in Bytes(f) <=> x \in DOMAIN f /\ i \in 1..f[x]
    BY DEF Bytes
  <2>5. \A x, i : <<x, i>> \in D <=> x \in F /\ i = f[x]
    OBVIOUS
  <2>6. \A x, i : <<x, i>> \in Bytes(g) <=> <<x, i>> \in Bytes(f) \ D
    BY <2>1, <2>2, <2>3, <2>4, <2>5
  <2>7. \A t \in Bytes(g) : \E x, i : t = <<x, i>>
    BY DEF Bytes
  <2>8. \A t \in Bytes(f) : \E x, i : t = <<x, i>>
    BY DEF Bytes
  <2> HIDE DEF D
  <2> QED
    BY <2>6, <2>7, <2>8
<1>5. D = Bytes(f) \cap D
  BY <1>3
<1> HIDE DEF D
<1>6. Cardinality(Bytes(f) \cap D) = Cardinality(F)
  BY <1>2, <1>5
<1>7. /\ IsFiniteSet(Bytes(f) \ D)
      /\ Cardinality(Bytes(f) \ D) = Cardinality(Bytes(f)) - Cardinality(Bytes(f) \cap D)
  BY FS_Difference
<1> QED
  BY <1>4, <1>6, <1>7

\* Ranks that rise by one each add a byte of every page to the sum.
LEMMA RanksRise ==
    ASSUME NEW f, IsFiniteSet(DOMAIN f), IsFiniteSet(Bytes(f)), NEW F, F \subseteq DOMAIN f,
           \A p \in DOMAIN f : f[p] \in Nat,
           NEW g, DOMAIN g = DOMAIN f, \A p \in DOMAIN f : g[p] = IF p \in F THEN f[p] + 1 ELSE f[p]
    PROVE  /\ IsFiniteSet(Bytes(g))
           /\ Cardinality(Bytes(g)) = Cardinality(Bytes(f)) + Cardinality(F)
<1>1. \A p \in DOMAIN f : g[p] \in Nat /\ (p \in F => g[p] > 0)
  OBVIOUS
<1>2. \A p \in DOMAIN f : f[p] = IF p \in F THEN g[p] - 1 ELSE g[p]
  OBVIOUS
<1>3. IsFiniteSet(Bytes(g))
  <2> DEFINE D == {<<p, g[p]>> : p \in F}
  <2>0. IsFiniteSet(F)
    BY FS_Subset
  <2>1. IsFiniteSet(D)
    BY <2>0, Tagged
  <2>2. Bytes(g) \subseteq Bytes(f) \cup D
    <3> SUFFICES ASSUME NEW p \in DOMAIN f, NEW i \in 1..g[p] PROVE <<p, i>> \in Bytes(f) \cup D
      BY DEF Bytes
    <3>1. i \in 1..f[p] \/ (p \in F /\ i = g[p])
      BY <1>1, <1>2
    <3> QED
      BY <3>1 DEF Bytes
  <2> HIDE DEF D
  <2> QED
    BY <2>1, <2>2, FS_Union, FS_Subset
<1>4. Cardinality(Bytes(f)) = Cardinality(Bytes(g)) - Cardinality(F)
  BY <1>1, <1>2, <1>3, RanksFall
<1>5. Cardinality(Bytes(g)) \in Nat /\ Cardinality(F) \in Nat
  BY <1>3, FS_Subset, FS_CardinalityType
<1> QED
  BY <1>3, <1>4, <1>5

\* A pass of which every page looked at changed its rank.
LEMMA AdaptedOK ==
    ASSUME NEW e, NEW faults, PoolOK(pool, e, faults), gc \in BOOLEAN,
           NEW Q, Q \subseteq ToSet(pool.list)
    PROVE  /\ PoolOK(Adapted(Q), e, faults)
           /\ Adapted(Q).free = pool.free /\ Adapted(Q).list = pool.list
           /\ \A p \in Pages : /\ Adapted(Q).pg[p].use = pool.pg[p].use
                               /\ Adapted(Q).pg[p].fl = pool.pg[p].fl
                               /\ Adapted(Q).pg[p].fn = pool.pg[p].fn
                               /\ Adapted(Q).pg[p].n = pool.pg[p].n
<1>1. CASE ~adapt
  BY <1>1 DEF Adapted
<1>2. CASE adapt
  <2>1. /\ pool \in PoolType /\ pool.list \in Seq(Pages) /\ pool.free \in Seq(Pages)
        /\ pool.pg \in [Pages -> PageType] /\ ListsOK(pool) /\ SumOK(pool)
        /\ pool.cnt \in Nat /\ pool.sum \in Nat
    BY PoolFields DEF PoolOK
  <2>2. PICK R : R = Adapted(Q)
    OBVIOUS
  <2>3. /\ R.list = pool.list /\ R.free = pool.free /\ R.num = pool.num /\ R.cnt = pool.cnt
        /\ R.sum = pool.sum - Cardinality(Falling(Q)) + Cardinality(Rising(Q))
        /\ R.pg = [p \in Pages |-> Ranked(pool.pg[p], NextRank(Q, p))]
        /\ R = [list |-> R.list, free |-> R.free, num |-> R.num, pg |-> R.pg, cnt |-> R.cnt, sum |-> R.sum]
    BY <1>2, <2>1, <2>2 DEF Adapted, PoolType
  <2>4. \A p \in Pages : NextRank(Q, p) \in Bytewide
    <3> SUFFICES ASSUME NEW p \in Pages PROVE NextRank(Q, p) \in Bytewide
      OBVIOUS
    <3>1. pool.pg[p].rank \in Bytewide /\ HeapMax \in Nat /\ ByteRange \in Nat /\ HeapMax < ByteRange
      BY <2>1, HeaderFields, Widths
    <3>2. p \in Falling(Q) => pool.pg[p].rank > 1
      BY DEF Falling
    <3>3. p \in Rising(Q) => pool.pg[p].rank < HeapMax
      BY DEF Rising
    <3> QED
      BY <3>1, <3>2, <3>3 DEF NextRank, Bytewide
  <2>5. \A p \in Pages :
          /\ R.pg[p] \in PageType /\ PageOK(R.pg[p], p, e, faults)
          /\ R.pg[p].n = pool.pg[p].n /\ R.pg[p].use = pool.pg[p].use /\ R.pg[p].fl = pool.pg[p].fl
          /\ R.pg[p].fn = pool.pg[p].fn /\ R.pg[p].rest = pool.pg[p].rest
          /\ R.pg[p].rank = NextRank(Q, p)
    <3> SUFFICES ASSUME NEW p \in Pages
                 PROVE  /\ R.pg[p] \in PageType /\ PageOK(R.pg[p], p, e, faults)
                        /\ R.pg[p].n = pool.pg[p].n /\ R.pg[p].use = pool.pg[p].use
                        /\ R.pg[p].fl = pool.pg[p].fl
                        /\ R.pg[p].fn = pool.pg[p].fn /\ R.pg[p].rest = pool.pg[p].rest
                        /\ R.pg[p].rank = NextRank(Q, p)
      OBVIOUS
    <3>1. PICK k : k = NextRank(Q, p)
      OBVIOUS
    <3>2. PICK r : r = pool.pg[p]
      OBVIOUS
    <3>3. k \in Bytewide /\ r \in PageType /\ PageOK(r, p, e, faults)
      BY <2>1, <2>4, <3>1, <3>2 DEF PoolOK
    <3>4. /\ Ranked(r, k) \in PageType /\ PageOK(Ranked(r, k), p, e, faults)
          /\ Ranked(r, k).n = r.n /\ Ranked(r, k).use = r.use /\ Ranked(r, k).fl = r.fl
          /\ Ranked(r, k).fn = r.fn /\ Ranked(r, k).rest = r.rest /\ Ranked(r, k).rank = k
      BY <3>3, NewRankOK
    <3>5. R.pg[p] = Ranked(r, k)
      BY <2>3, <3>1, <3>2
    <3> QED
      BY <3>1, <3>2, <3>4, <3>5
  <2>6. R.pg \in [Pages -> PageType]
    BY <2>3, <2>5
  <2>7. ListsOK(R)
    <3>1. ToSet(R.list) = {q \in Pages : R.pg[q].n > 0} /\ ToSet(R.free) = {q \in Pages : R.pg[q].fl # {}}
      BY <2>1, <2>3, <2>5 DEF ListsOK
    <3>2. \A i \in 2..Len(R.list) : R.pg[R.list[i]].rest = 0
      <4> SUFFICES ASSUME NEW i \in 2..Len(R.list) PROVE R.pg[R.list[i]].rest = 0
        OBVIOUS
      <4>1. i \in 2..Len(pool.list) /\ i \in 1..Len(pool.list)
        BY <2>1, <2>3, LenProperties
      <4>2. pool.list[i] \in Pages /\ pool.pg[pool.list[i]].rest = 0
        BY <2>1, <4>1, InChain DEF ListsOK
      <4> QED
        BY <2>3, <2>5, <4>2
    <3> QED
      BY <2>1, <2>3, <3>1, <3>2 DEF ListsOK
  <2>8. SumOK(R)
    <3> DEFINE f == Ranks(pool)
               g == Ranks(R)
    <3>1. /\ DOMAIN f = ToSet(pool.list) /\ ToSet(pool.list) \subseteq Pages
          /\ \A p \in DOMAIN f : f[p] = pool.pg[p].rank /\ f[p] \in Nat
      BY RanksAre, Widths DEF Bytewide
    <3>2. /\ DOMAIN g = DOMAIN f
          /\ \A p \in DOMAIN f : g[p] = NextRank(Q, p)
      BY <2>3, <2>5, <3>1 DEF Ranks
    <3>3. IsFiniteSet(DOMAIN f) /\ IsFiniteSet(Bytes(f)) /\ pool.sum = Cardinality(Bytes(f))
      <4>1. IsInjective(pool.list)
        BY <2>1 DEF ListsOK
      <4>2. IsFiniteSet(ToSet(pool.list))
        BY <2>1, <4>1, ChainCount
      <4>3. IsFiniteSet(Bytes(f)) /\ pool.sum = Cardinality(Bytes(f))
        BY <2>1 DEF SumOK
      <4> HIDE DEF f
      <4> QED
        BY <3>1, <4>2, <4>3
    <3>4. Falling(Q) \subseteq DOMAIN f /\ Rising(Q) \subseteq DOMAIN f
      BY <3>1 DEF Falling, Rising
    <3>5. CASE gc
      <4>1. Rising(Q) = {}
        BY <3>5 DEF Rising
      <4>2. \A p \in DOMAIN f : g[p] = IF p \in Falling(Q) THEN f[p] - 1 ELSE f[p]
        BY <3>1, <3>2, <4>1 DEF NextRank
      <4>3. \A p \in Falling(Q) : f[p] > 0
        BY <3>1, <3>4 DEF Falling
      <4> HIDE DEF f, g
      <4>4. /\ IsFiniteSet(Bytes(g))
            /\ Cardinality(Bytes(g)) = Cardinality(Bytes(f)) - Cardinality(Falling(Q))
        BY <3>1, <3>2, <3>3, <3>4, <4>2, <4>3, RanksFall
      <4>5. Cardinality(Falling(Q)) \in Nat /\ Cardinality(Rising(Q)) = 0
        BY <3>3, <3>4, <4>1, FS_Subset, FS_CardinalityType, FS_EmptySet
      <4>6. R.sum = Cardinality(Bytes(g))
        BY <2>1, <2>3, <3>3, <4>4, <4>5
      <4> QED
        BY <2>1, <2>3, <4>4, <4>6 DEF SumOK, g
    <3>6. CASE ~gc
      <4>1. Falling(Q) = {}
        BY <3>6 DEF Falling
      <4>2. \A p \in DOMAIN f : g[p] = IF p \in Rising(Q) THEN f[p] + 1 ELSE f[p]
        BY <3>1, <3>2, <4>1 DEF NextRank
      <4> HIDE DEF f, g
      <4>4. /\ IsFiniteSet(Bytes(g))
            /\ Cardinality(Bytes(g)) = Cardinality(Bytes(f)) + Cardinality(Rising(Q))
        BY <3>1, <3>2, <3>3, <3>4, <4>2, RanksRise
      <4>5. Cardinality(Rising(Q)) \in Nat /\ Cardinality(Falling(Q)) = 0
        BY <3>3, <3>4, <4>1, FS_Subset, FS_CardinalityType, FS_EmptySet
      <4>6. R.sum = Cardinality(Bytes(g))
        BY <2>1, <2>3, <3>3, <4>4, <4>5
      <4> QED
        BY <2>1, <2>3, <4>4, <4>6 DEF SumOK, g
    <3> QED
      BY <3>5, <3>6
  <2>9. R \in PoolType
    <3>1. R.sum \in Nat
      BY <2>8, FS_CardinalityType DEF SumOK
    <3>2. pool.num \in Slots
      BY <2>1, PoolFields
    <3> QED
      BY <2>1, <2>3, <2>6, <3>1, <3>2 DEF PoolType
  <2> QED
    BY <2>2, <2>3, <2>5, <2>7, <2>8, <2>9 DEF PoolOK
<1> QED
  BY <1>1, <1>2

----------------------------------------------------------------------------
(* The handles.                                                            *)

CellType == [Pages -> [Slots -> Handles \cup {Nil}]]
LocType == [Handles -> (Pages \X Slots) \cup {Nil}]

\* A handle points to a slot exactly if the slot is in use and points back to it,
\* and every slot in use points to a handle.
HandlesOK(pg, C, L) ==
    /\ C \in CellType /\ L \in LocType
    /\ \A p \in Pages, s \in Slots, h \in Handles :
          L[h] = <<p, s>> <=> (s \in pg[p].use /\ C[p][s] = h)
    /\ \A p \in Pages : \A s \in pg[p].use : s \in Slots /\ C[p][s] \in Handles

\* What is left of that once a page was freed with its objects: their handles dangle.
HandlesLeft(pg, C, L) ==
    /\ C \in CellType /\ L \in LocType
    /\ \A p \in Pages, s \in Slots, h \in Handles :
          L[h] = <<p, s>> => (s \in pg[p].use /\ C[p][s] = h) \/ pg[p].n = 0
    /\ \A p \in Pages : \A s \in pg[p].use :
          s \in Slots /\ C[p][s] \in Handles /\ L[C[p][s]] = <<p, s>>

LEMMA AllAreLeft ==
    ASSUME NEW A, NEW C, NEW L, HandlesOK(A, C, L)
    PROVE  HandlesLeft(A, C, L)
BY DEF HandlesOK, HandlesLeft

\* No slot is what no handle points to.
LEMMA NilIsNoSlot == Nil \notin Handles /\ Nil \notin Pages /\ \A p \in Pages, s \in Slots : <<p, s>> # Nil
BY NilAssumption DEF Slots

\* Which slots are in use is all that matters of the pages.
LEMMA UseStays ==
    ASSUME NEW A, NEW B, NEW C, NEW L, HandlesOK(A, C, L), \A q \in Pages : B[q].use = A[q].use
    PROVE  HandlesOK(B, C, L)
BY DEF HandlesOK

\* A slot that was not in use is bound to a handle that pointed nowhere.
LEMMA BindOK ==
    ASSUME NEW A, NEW B, NEW C, NEW L, HandlesOK(A, C, L),
           NEW p \in Pages, NEW s \in Slots, NEW h \in Handles, L[h] = Nil, s \notin A[p].use,
           B[p].use = A[p].use \cup {s}, \A q \in Pages : q # p => B[q].use = A[q].use
    PROVE  HandlesOK(B, [C EXCEPT ![p][s] = h], [L EXCEPT ![h] = <<p, s>>])
<1>1. PICK C2, L2 : C2 = [C EXCEPT ![p][s] = h] /\ L2 = [L EXCEPT ![h] = <<p, s>>]
  OBVIOUS
<1>2. C \in CellType /\ L \in LocType
  BY DEF HandlesOK
<1>3. /\ C2 \in CellType /\ L2 \in LocType
      /\ \A q \in Pages, t \in Slots : C2[q][t] = IF q = p /\ t = s THEN h ELSE C[q][t]
      /\ \A k \in Handles : L2[k] = IF k = h THEN <<p, s>> ELSE L[k]
  BY <1>1, <1>2 DEF CellType, LocType
<1>4. \A q \in Pages, t \in Slots : t \in B[q].use <=> (t \in A[q].use \/ (q = p /\ t = s))
  OBVIOUS
<1>5. ASSUME NEW q \in Pages, NEW t \in Slots, NEW k \in Handles
      PROVE  L2[k] = <<q, t>> <=> (t \in B[q].use /\ C2[q][t] = k)
  <2>1. L[k] = <<q, t>> <=> (t \in A[q].use /\ C[q][t] = k)
    BY DEF HandlesOK
  <2>2. CASE q = p /\ t = s
    BY <1>3, <1>4, <2>1, <2>2
  <2>3. CASE ~(q = p /\ t = s)
    BY <1>3, <1>4, <2>1, <2>3, NilIsNoSlot
  <2> QED
    BY <2>2, <2>3
<1>6. ASSUME NEW q \in Pages, NEW t \in B[q].use
      PROVE  t \in Slots /\ C2[q][t] \in Handles
  <2>1. t \in A[q].use \/ (q = p /\ t = s)
    OBVIOUS
  <2> QED
    BY <1>3, <2>1 DEF HandlesOK
<1> QED
  BY <1>1, <1>3, <1>5, <1>6 DEF HandlesOK

\* A handle and its slot let go of each other.
LEMMA UnbindOK ==
    ASSUME NEW A, NEW B, NEW C, NEW L, HandlesOK(A, C, L),
           NEW p \in Pages, NEW s \in Slots, NEW h \in Handles, L[h] = <<p, s>>,
           B[p].use = A[p].use \ {s}, \A q \in Pages : q # p => B[q].use = A[q].use
    PROVE  HandlesOK(B, [C EXCEPT ![p][s] = Nil], [L EXCEPT ![h] = Nil])
<1>1. PICK C2, L2 : C2 = [C EXCEPT ![p][s] = Nil] /\ L2 = [L EXCEPT ![h] = Nil]
  OBVIOUS
<1>2. C \in CellType /\ L \in LocType
  BY DEF HandlesOK
<1>3. /\ C2 \in CellType /\ L2 \in LocType
      /\ \A q \in Pages, t \in Slots : C2[q][t] = IF q = p /\ t = s THEN Nil ELSE C[q][t]
      /\ \A k \in Handles : L2[k] = IF k = h THEN Nil ELSE L[k]
  BY <1>1, <1>2 DEF CellType, LocType
<1>4. \A q \in Pages, t \in Slots : t \in B[q].use <=> (t \in A[q].use /\ ~(q = p /\ t = s))
  OBVIOUS
<1>5. ASSUME NEW q \in Pages, NEW t \in Slots, NEW k \in Handles
      PROVE  L2[k] = <<q, t>> <=> (t \in B[q].use /\ C2[q][t] = k)
  <2>1. /\ L[k] = <<q, t>> <=> (t \in A[q].use /\ C[q][t] = k)
        /\ L[h] = <<q, t>> <=> (t \in A[q].use /\ C[q][t] = h)
    BY DEF HandlesOK
  <2>2. CASE q = p /\ t = s
    <3>1. L2[k] # <<q, t>>
      <4>1. CASE k = h
        BY <1>3, <4>1, NilIsNoSlot
      <4>2. CASE k # h
        BY <1>3, <2>1, <2>2, <4>2
      <4> QED
        BY <4>1, <4>2
    <3> QED
      BY <1>4, <2>2, <3>1
  <2>3. CASE ~(q = p /\ t = s)
    <3>1. C2[q][t] = C[q][t] /\ (t \in B[q].use <=> t \in A[q].use)
      BY <1>3, <1>4, <2>3
    <3>2. CASE k = h
      <4>1. L2[k] # <<q, t>>
        BY <1>3, <3>2, NilIsNoSlot
      <4>2. L[h] # <<q, t>>
        BY <2>3
      <4> QED
        BY <2>1, <3>1, <3>2, <4>1, <4>2
    <3>3. CASE k # h
      BY <1>3, <2>1, <3>1, <3>3
    <3> QED
      BY <3>2, <3>3
  <2> QED
    BY <2>2, <2>3
<1>6. ASSUME NEW q \in Pages, NEW t \in B[q].use
      PROVE  t \in Slots /\ C2[q][t] \in Handles
  <2>1. t \in A[q].use /\ ~(q = p /\ t = s)
    OBVIOUS
  <2> QED
    BY <1>3, <2>1 DEF HandlesOK
<1> QED
  BY <1>1, <1>3, <1>5, <1>6 DEF HandlesOK

\* The slots and the handles when the object of slot t of page d goes to slot s of p.
CellMoved(C, p, s, d, t) == [C EXCEPT ![p][s] = C[d][t], ![d][t] = Nil]
LocMoved(L, g, p, s) == [L EXCEPT ![g] = <<p, s>>]

\* An object goes from slot t of page d to slot s of page p, and its handle with it.
LEMMA MoveOK ==
    ASSUME NEW A, NEW B, NEW C, NEW L, HandlesOK(A, C, L),
           NEW p \in Pages, NEW s \in Slots, s \notin A[p].use,
           NEW d \in Pages, NEW t \in A[d].use, p # d,
           B[p].use = A[p].use \cup {s}, B[d].use = A[d].use \ {t},
           \A q \in Pages : q # p /\ q # d => B[q].use = A[q].use
    PROVE  HandlesOK(B, CellMoved(C, p, s, d, t), LocMoved(L, C[d][t], p, s))
<1>0. PICK g : g = C[d][t]
  OBVIOUS
<1>1. PICK C2, L2 : C2 = CellMoved(C, p, s, d, t) /\ L2 = LocMoved(L, g, p, s)
  OBVIOUS
<1>2. C \in CellType /\ L \in LocType /\ t \in Slots /\ g \in Handles
  BY <1>0 DEF HandlesOK
<1>3. /\ C2 \in CellType /\ L2 \in LocType
      /\ \A q \in Pages, u \in Slots :
            C2[q][u] = IF q = d /\ u = t THEN Nil ELSE IF q = p /\ u = s THEN g ELSE C[q][u]
      /\ \A k \in Handles : L2[k] = IF k = g THEN <<p, s>> ELSE L[k]
  BY <1>0, <1>1, <1>2 DEF CellType, LocType, CellMoved, LocMoved
<1>4. \A q \in Pages, u \in Slots :
         u \in B[q].use <=> ((u \in A[q].use \/ (q = p /\ u = s)) /\ ~(q = d /\ u = t))
  OBVIOUS
<1>5. ASSUME NEW q \in Pages, NEW u \in Slots, NEW k \in Handles
      PROVE  L2[k] = <<q, u>> <=> (u \in B[q].use /\ C2[q][u] = k)
  <2>1. /\ L[k] = <<q, u>> <=> (u \in A[q].use /\ C[q][u] = k)
        /\ L[g] = <<q, u>> <=> (u \in A[q].use /\ C[q][u] = g)
        /\ L[g] = <<d, t>>
    BY <1>0, <1>2 DEF HandlesOK
  <2>2. CASE q = p /\ u = s
    BY <1>3, <1>4, <2>1, <2>2
  <2>3. CASE q = d /\ u = t
    BY <1>3, <1>4, <2>1, <2>3, NilIsNoSlot
  <2>4. CASE ~(q = p /\ u = s) /\ ~(q = d /\ u = t)
    BY <1>3, <1>4, <2>1, <2>4
  <2> QED
    BY <2>2, <2>3, <2>4
<1>6. ASSUME NEW q \in Pages, NEW u \in B[q].use
      PROVE  u \in Slots /\ C2[q][u] \in Handles
  <2>1. (u \in A[q].use \/ (q = p /\ u = s)) /\ ~(q = d /\ u = t)
    OBVIOUS
  <2> QED
    BY <1>2, <1>3, <2>1 DEF HandlesOK
<1> QED
  BY <1>0, <1>1, <1>3, <1>5, <1>6 DEF HandlesOK

\* The object of slot t of page d takes the place of one that is freed.
LEMMA ReplaceOK ==
    ASSUME NEW A, NEW B, NEW C, NEW L, HandlesOK(A, C, L),
           NEW p \in Pages, NEW s \in Slots, NEW h \in Handles, L[h] = <<p, s>>,
           NEW d \in Pages, NEW t \in A[d].use, p # d,
           B[d].use = A[d].use \ {t}, \A q \in Pages : q # d => B[q].use = A[q].use
    PROVE  HandlesOK(B, CellMoved(C, p, s, d, t), LocMoved([L EXCEPT ![h] = Nil], C[d][t], p, s))
<1> DEFINE M == [q \in Pages |-> [use |-> IF q = p THEN A[q].use \ {s} ELSE A[q].use]]
           C1 == [C EXCEPT ![p][s] = Nil]
           L1 == [L EXCEPT ![h] = Nil]
<1>1. C \in CellType /\ L \in LocType /\ t \in Slots /\ C[d][t] \in Handles
  BY DEF HandlesOK
<1>2. s \in A[p].use
  BY DEF HandlesOK
<1>3. \A q \in Pages : M[q].use = IF q = p THEN A[q].use \ {s} ELSE A[q].use
  OBVIOUS
<1> HIDE DEF M
<1>4. HandlesOK(M, C1, L1)
  <2>1. M[p].use = A[p].use \ {s} /\ \A q \in Pages : q # p => M[q].use = A[q].use
    BY <1>3
  <2>2. HandlesOK(M, [C EXCEPT ![p][s] = Nil], [L EXCEPT ![h] = Nil])
    BY <2>1, UnbindOK
  <2> QED
    BY <2>2
<1>5. C1[d][t] = C[d][t] /\ t \in M[d].use
  BY <1>1, <1>3 DEF CellType
<1>6. /\ s \notin M[p].use /\ B[p].use = M[p].use \cup {s} /\ B[d].use = M[d].use \ {t}
      /\ \A q \in Pages : q # p /\ q # d => B[q].use = M[q].use
  BY <1>2, <1>3
<1> HIDE DEF C1, L1
<1>7. HandlesOK(B, CellMoved(C1, p, s, d, t), LocMoved(L1, C[d][t], p, s))
  BY <1>4, <1>5, <1>6, MoveOK
<1>8. CellMoved(C1, p, s, d, t) = CellMoved(C, p, s, d, t)
  BY <1>1, <1>5 DEF C1, CellType, CellMoved
<1> QED
  BY <1>7, <1>8 DEF L1

----------------------------------------------------------------------------
(* The inductive invariant.                                                *)

\* A page whose freeNum wrapped around promises more slots than it has.
Wrapped(pg) == \E p \in Pages : pg[p].fn > Cardinality(pg[p].fl)

\* The freed slots of the pages but f, as sizes of blocks.
Freed(pg, f) == [q \in Pages \ {f} |-> Cardinality(pg[q].fl)]

\* The page that is emptied has objects, and a freed slot elsewhere for each of them
\* unless some freeNum wrapped around.
RoomLeft(pg, f) ==
    /\ pg[f].use # {}
    /\ Wrapped(pg) \/ Cardinality(pg[f].use) <= Cardinality(Bytes(Freed(pg, f)))

Emptied == IF pc = "move" THEN fp ELSE Nil

Settings == /\ setup \in Setups /\ rank \in Bytewide /\ adapt \in BOOLEAN
            /\ pc \in {"idle", "free", "scan", "move"} /\ fp \in Pages \cup {Nil}
            /\ gc \in BOOLEAN /\ wild \in BOOLEAN

\* The page that is looked at or emptied is on the free chain, and there is room for
\* its objects before the first is moved and after every move; it is freed unseen only
\* if freeNum says that it has no objects.
Filling == /\ pc # "idle" => fp \in ToSet(pool.free)
           /\ pc = "free" => pool.pg[fp].n = pool.pg[fp].fn
           /\ pc = "move" => RoomLeft(pool.pg, fp)
           /\ wild => pc \in {"idle", "move"} /\ "handle" \in setup.faults

HandlesInv == IF wild /\ pc = "idle" THEN HandlesLeft(pool.pg, cell, loc)
                                     ELSE HandlesOK(pool.pg, cell, loc)

ObjInv == /\ Settings
          /\ PoolOK(pool, Emptied, setup.faults)
          /\ HandlesInv
          /\ Filling

\* While no page is emptied.
LEMMA InvBetween ==
    ASSUME setup \in Setups, setup' = setup, rank' \in Bytewide, adapt' \in BOOLEAN, gc' \in BOOLEAN,
           wild' \in BOOLEAN, ~wild',
           PoolOK(pool', Nil, setup.faults), HandlesOK(pool'.pg, cell', loc'),
           \/ pc' = "idle" /\ fp' \in Pages \cup {Nil}
           \/ pc' = "scan" /\ fp' \in ToSet(pool'.free)
           \/ pc' = Entry(pool'.pg[fp']) /\ fp' \in ToSet(pool'.free)
    PROVE  ObjInv'
<1>1. pool'.free \in Seq(Pages)
  BY PoolFields DEF PoolOK
<1>2. /\ fp' \in Pages \cup {Nil} /\ pc' \in {"idle", "free", "scan"} /\ Emptied' = Nil
      /\ pc' = "free" => pool'.pg[fp'].n = pool'.pg[fp'].fn
  BY <1>1, InChain DEF Emptied, Entry
<1>3. Settings'
  BY <1>2 DEF Settings
<1>4. Filling'
  BY <1>2 DEF Filling
<1>5. PoolOK(pool', Emptied', setup'.faults)
  BY <1>2
<1> QED
  BY <1>3, <1>4, <1>5 DEF ObjInv, HandlesInv

\* What holds while the pool is idle, or while a pass is made over it.
LEMMA InvIdle ==
    ASSUME ObjInv, pc # "move", ~wild
    PROVE  /\ PoolOK(pool, Nil, setup.faults) /\ HandlesOK(pool.pg, cell, loc)
           /\ setup \in Setups /\ rank \in Bytewide /\ adapt \in BOOLEAN /\ gc \in BOOLEAN
           /\ fp \in Pages \cup {Nil} /\ wild \in BOOLEAN
BY DEF ObjInv, HandlesInv, Settings, Emptied

LEMMA ObjInit == Init => ObjInv
<1> SUFFICES ASSUME Init PROVE ObjInv
  OBVIOUS
<1>1. /\ setup \in Setups /\ rank \in Bytewide /\ adapt \in BOOLEAN
      /\ pc = "idle" /\ fp = Nil /\ gc = FALSE /\ wild = FALSE
  BY SetupAssumption DEF Init, Bytewide
<1>2. /\ pool.list = <<>> /\ pool.free = <<>> /\ pool.num = 1 /\ pool.cnt = 0 /\ pool.sum = 0
      /\ pool.pg = [p \in Pages |-> NoPage]
      /\ pool = [list |-> pool.list, free |-> pool.free, num |-> pool.num, pg |-> pool.pg,
                  cnt |-> pool.cnt, sum |-> pool.sum]
  BY DEF Init
<1>3. ToSet(<<>>) = {} /\ Len(<<>>) = 0 /\ IsInjective(<<>>) /\ <<>> \in Seq(Pages)
  BY EmptySeq DEF ToSet, IsInjective
<1>4. \A p \in Pages : pool.pg[p] = NoPage /\ pool.pg[p].n = 0 /\ pool.pg[p].fl = {} /\ pool.pg[p].use = {}
  BY <1>2, EmptyPage
<1>5. PoolOK(pool, Nil, setup.faults)
  <2>1. pool \in PoolType
    <3>1. 1 \in Slots
      BY Widths DEF Slots
    <3>2. pool.pg \in [Pages -> PageType]
      BY <1>2, EmptyPage
    <3>3. pool.list \in Seq(Pages) /\ pool.free \in Seq(Pages) /\ pool.cnt \in Nat /\ pool.sum \in Nat
      BY <1>2, <1>3
    <3>4. pool.num \in Slots
      BY <1>2, <3>1
    <3> QED
      BY <1>2, <3>2, <3>3, <3>4 DEF PoolType
  <2>2. \A p \in Pages : PageOK(pool.pg[p], p, Nil, setup.faults)
    BY <1>4, EmptyPage
  <2>3. ListsOK(pool)
    BY <1>2, <1>3, <1>4 DEF ListsOK
  <2>4. SumOK(pool)
    <3>1. DOMAIN Ranks(pool) = {}
      BY <1>2, <1>3 DEF Ranks
    <3> QED
      BY <1>2, <1>3, <3>1, BytesNone DEF SumOK
  <2> QED
    BY <2>1, <2>2, <2>3, <2>4 DEF PoolOK
<1>6. HandlesOK(pool.pg, cell, loc)
  <2>1. /\ cell = [p \in Pages |-> [s \in Slots |-> Nil]] /\ loc = [h \in Handles |-> Nil]
    BY DEF Init
  <2>2. cell \in CellType /\ loc \in LocType /\ \A h \in Handles : loc[h] = Nil
    BY <2>1 DEF CellType, LocType
  <2> QED
    BY <1>4, <2>2, NilIsNoSlot DEF HandlesOK
<1>7. Settings /\ Filling /\ Emptied = Nil
  BY <1>1 DEF Settings, Filling, Emptied
<1> QED
  BY <1>1, <1>5, <1>6, <1>7 DEF ObjInv, HandlesInv

\* The invariant says what the properties say.
LEMMA ObjFacts == ObjInv => PoolExact /\ FreeNumExact /\ SumExact
<1> SUFFICES ASSUME ObjInv PROVE PoolExact /\ FreeNumExact /\ SumExact
  OBVIOUS
<1>1. /\ Settings /\ PoolOK(pool, Emptied, setup.faults) /\ HandlesLeft(pool.pg, cell, loc) /\ Filling
      /\ wild \/ HandlesOK(pool.pg, cell, loc)
      /\ ListsOK(pool) /\ SumOK(pool) /\ \A p \in Pages : PageOK(pool.pg[p], p, Emptied, setup.faults)
  BY AllAreLeft DEF ObjInv, PoolOK, HandlesInv
<1>2. /\ pool.list \in Seq(Pages) /\ pool.free \in Seq(Pages) /\ pool.num \in Slots
      /\ pool.pg \in [Pages -> PageType] /\ pool.cnt \in Nat /\ pool.sum \in Nat
  BY <1>1, PoolFields DEF PoolOK
<1>3. TypeOK
  BY <1>1, <1>2 DEF TypeOK, Settings, HandlesLeft, CellType, LocType, Bytewide
<1>4. SlotsExact
  BY <1>1, NilIsNoSlot DEF SlotsExact, PageOK, Emptied
<1>5. HandlesExact
  <2>1. ASSUME NEW h \in Live
        PROVE  \/ loc[h][2] \in pool.pg[loc[h][1]].use /\ cell[loc[h][1]][loc[h][2]] = h
               \/ wild /\ pool.pg[loc[h][1]].n = 0
    <3>1. h \in Handles /\ loc[h] \in Pages \X Slots
      BY <1>1 DEF Live, HandlesLeft, LocType
    <3>2. PICK p \in Pages, s \in Slots : loc[h] = <<p, s>>
      BY <3>1
    <3>3. (s \in pool.pg[p].use /\ cell[p][s] = h) \/ (wild /\ pool.pg[p].n = 0)
      BY <1>1, <3>1, <3>2 DEF HandlesOK, HandlesLeft
    <3> QED
      BY <3>2, <3>3
  <2>2. ASSUME NEW p \in Pages, NEW s \in pool.pg[p].use
        PROVE  cell[p][s] \in Live /\ loc[cell[p][s]] = <<p, s>>
    <3>1. s \in Slots /\ cell[p][s] \in Handles /\ loc[cell[p][s]] = <<p, s>>
      BY <1>1 DEF HandlesLeft
    <3> QED
      BY <3>1, NilIsNoSlot DEF Live
  <2> QED
    BY <1>1, <2>1, <2>2 DEF HandlesExact, Filling
<1>6. ChainsExact
  BY <1>1 DEF ListsOK, ChainsExact
<1>7. FreeNumExact
  BY <1>1 DEF FreeNumExact, PageOK
<1>9. SumExact
  BY <1>1 DEF SumOK, SumExact
<1> QED
  BY <1>3, <1>4, <1>5, <1>6, <1>7, <1>9 DEF PoolExact

----------------------------------------------------------------------------
(* The steps of the script.                                                *)

LEMMA MallocInv ==
    ASSUME ObjInv, NEW h \in Handles, Malloc(h), setup' = setup
    PROVE  ObjInv'
<1>1. pc = "idle" /\ pc # "move" /\ ~wild /\ loc[h] = Nil /\ UNCHANGED <<rank, adapt, pc, fp, gc, wild>>
  BY DEF Malloc, Idle, Live
<1>2. /\ PoolOK(pool, Nil, setup.faults) /\ HandlesOK(pool.pg, cell, loc)
      /\ setup \in Setups /\ rank \in Bytewide /\ adapt \in BOOLEAN /\ gc \in BOOLEAN
      /\ fp \in Pages \cup {Nil} /\ wild \in BOOLEAN
  BY <1>1, InvIdle
<1>3. /\ pool.pg \in [Pages -> PageType] /\ pool.list \in Seq(Pages) /\ pool.free \in Seq(Pages)
      /\ pool.num \in Slots
  BY <1>2, PoolFields DEF PoolOK
<1>4. PoolOK(pool', Nil, setup.faults) /\ HandlesOK(pool'.pg, cell', loc')
  <2>1. CASE MallocCreate(h)
    <3>1. PICK p \in Pages \ ToSet(pool.list), n \in Obtained :
            /\ pool' = [pool EXCEPT
                  !.list = <<p>> \o @, !.num = NextNum(n), !.cnt = @ + 1, !.sum = @ + NewRank,
                  !.pg[p] = Fresh(n, NewRank)]
            /\ Bind(h, p, 1)
      BY <2>1 DEF MallocCreate
    <3>2. PICK k : k = NewRank
      OBVIOUS
    <3>3. n \in Slots /\ NextNum(n) \in Slots /\ k \in Bytewide /\ 1 \in Slots
      BY <1>2, <1>3, <3>2, SlotsOfNewPage, NewRankIs, Widths DEF Slots
    <3>4. (pool.list # <<>> => pool.pg[Head(pool.list)].rest = 0) /\ pool.free = <<>>
      BY <2>1 DEF MallocCreate, NoRoom, HeadHasRest
    <3>5. /\ PoolOK(pool', Nil, setup.faults)
          /\ pool'.pg = [pool.pg EXCEPT ![p] = Fresh(n, k)] /\ pool.pg[p].use = {}
      <4>1. PICK m : m = NextNum(n)
        OBVIOUS
      <4>2. pool' = Created(pool, p, n, m, k)
        BY <3>1, <3>2, <4>1 DEF Created
      <4>3. m \in Slots /\ p # Nil
        BY <3>3, <4>1, NilIsNoSlot
      <4> QED
        BY <1>2, <3>3, <3>4, <4>2, <4>3, CreatedOK
    <3>6. Fresh(n, k).use = {1}
      BY <3>3, NewPage
    <3>7. /\ pool'.pg[p].use = pool.pg[p].use \cup {1}
          /\ \A q \in Pages : q # p => pool'.pg[q].use = pool.pg[q].use
      BY <1>3, <3>5, <3>6
    <3>8. HandlesOK(pool'.pg, [cell EXCEPT ![p][1] = h], [loc EXCEPT ![h] = <<p, 1>>])
      BY <1>1, <1>2, <3>3, <3>5, <3>7, BindOK
    <3> QED
      BY <3>1, <3>5, <3>8 DEF Bind
  <2>2. CASE MallocRest(h)
    <3> DEFINE p == Head(pool.list)
               s == pool.pg[p].rest
    <3>1. /\ pool' = [pool EXCEPT !.pg[p] = RestTaken(pool.pg[p])] /\ Bind(h, p, s)
          /\ pool.list # <<>> /\ s # 0
      BY <2>2 DEF MallocRest, HeadHasRest
    <3>2. /\ p \in Pages /\ s \in Slots /\ s \notin pool.pg[p].use
          /\ PoolOK(pool', Nil, setup.faults) /\ pool'.pg = [pool.pg EXCEPT ![p] = RestTaken(pool.pg[p])]
      BY <1>2, <3>1, NilIsNoSlot, RestOK
    <3>3. RestTaken(pool.pg[p]).use = pool.pg[p].use \cup {s}
      BY <1>3, <3>2 DEF RestTaken, PageType
    <3> HIDE DEF p, s
    <3>4. /\ pool'.pg[p].use = pool.pg[p].use \cup {s}
          /\ \A q \in Pages : q # p => pool'.pg[q].use = pool.pg[q].use
      BY <1>3, <3>2, <3>3
    <3>5. HandlesOK(pool'.pg, [cell EXCEPT ![p][s] = h], [loc EXCEPT ![h] = <<p, s>>])
      <4>1. PICK A, B, C, L : A = pool.pg /\ B = pool'.pg /\ C = cell /\ L = loc
        OBVIOUS
      <4>2. HandlesOK(A, C, L) /\ L[h] = Nil /\ s \notin A[p].use
        BY <1>1, <1>2, <3>2, <4>1
      <4>3. B[p].use = A[p].use \cup {s} /\ \A q \in Pages : q # p => B[q].use = A[q].use
        BY <3>4, <4>1
      <4>4. HandlesOK(B, [C EXCEPT ![p][s] = h], [L EXCEPT ![h] = <<p, s>>])
        BY <3>2, <4>2, <4>3, BindOK
      <4> QED
        BY <4>1, <4>4
    <3> QED
      BY <3>1, <3>2, <3>5 DEF Bind
  <2>3. CASE MallocFree(h)
    <3> DEFINE p == Head(pool.free)
    <3>1. pool.free # <<>> /\ p \in Pages
      BY <1>3, <2>3, InChain DEF MallocFree
    <3>2. PICK s \in pool.pg[p].fl : pool' = Taken(pool, p, s) /\ Bind(h, p, s)
      BY <2>3 DEF MallocFree
    <3> HIDE DEF p
    <3>3. /\ PoolOK(pool', Nil, setup.faults) /\ s \in Slots /\ s \notin pool.pg[p].use
          /\ pool'.pg = [pool.pg EXCEPT ![p] = FreedTaken(pool.pg[p], s)]
      BY <1>2, <3>1, <3>2, TakenOK
    <3>4. FreedTaken(pool.pg[p], s).use = pool.pg[p].use \cup {s}
      BY <1>3, <3>1 DEF FreedTaken, PageType
    <3>5. /\ pool'.pg[p].use = pool.pg[p].use \cup {s}
          /\ \A q \in Pages : q # p => pool'.pg[q].use = pool.pg[q].use
      BY <1>3, <3>1, <3>3, <3>4
    <3>6. HandlesOK(pool'.pg, [cell EXCEPT ![p][s] = h], [loc EXCEPT ![h] = <<p, s>>])
      BY <1>1, <1>2, <3>1, <3>3, <3>5, BindOK
    <3> QED
      BY <3>2, <3>3, <3>6 DEF Bind
  <2> QED
    BY <2>1, <2>2, <2>3 DEF Malloc
<1> QED
  BY <1>1, <1>2, <1>4, InvBetween

LEMMA MallocFailsInv ==
    ASSUME ObjInv, MallocFails, setup' = setup
    PROVE  ObjInv'
<1>1. /\ pc = "idle" /\ pc # "move" /\ ~wild
      /\ UNCHANGED <<cell, loc, rank, adapt, pc, fp, gc, wild>>
  BY DEF MallocFails, Idle
<1>2. /\ PoolOK(pool, Nil, setup.faults) /\ HandlesOK(pool.pg, cell, loc)
      /\ setup \in Setups /\ rank \in Bytewide /\ adapt \in BOOLEAN /\ gc \in BOOLEAN
      /\ fp \in Pages \cup {Nil} /\ wild \in BOOLEAN
  BY <1>1, InvIdle
<1>3. /\ pool.pg \in [Pages -> PageType] /\ pool.free \in Seq(Pages) /\ pool.num \in Slots
  BY <1>2, PoolFields DEF PoolOK
<1>4. PoolOK(pool', Nil, setup.faults) /\ \A q \in Pages : pool'.pg[q].use = pool.pg[q].use
  <2>1. CASE \E n \in Slots : pool' = [pool EXCEPT !.num = n]
    BY <1>2, <2>1, NumOK
  <2>2. CASE UNCHANGED pool
    BY <1>2, <2>2
  <2>3. CASE /\ pool.free # <<>> /\ "handle" \in setup.faults
             /\ pool' = [pool EXCEPT !.pg[Head(pool.free)].fn = (@ - 1) % ByteRange]
    <3>1. PICK p \in Pages : p = Head(pool.free)
      BY <1>3, <2>3, InChain
    <3>2. pool' = NumCountedDown(pool, p)
      BY <2>3, <3>1 DEF CountedDown, NumCountedDown
    <3>3. /\ PoolOK(pool', Nil, setup.faults)
          /\ pool'.pg = [pool.pg EXCEPT ![p] = CountedDown(pool.pg[p])]
      <4>1. PICK faults : faults = setup.faults
        OBVIOUS
      <4>2. "handle" \in faults /\ PoolOK(pool, Nil, faults)
        BY <1>2, <2>3, <4>1
      <4>3. /\ PoolOK(NumCountedDown(pool, p), Nil, faults)
            /\ NumCountedDown(pool, p).pg = [pool.pg EXCEPT ![p] = CountedDown(pool.pg[p])]
        BY <4>2, CountedDownOK
      <4> QED
        BY <3>2, <4>1, <4>3
    <3>4. CountedDown(pool.pg[p]).use = pool.pg[p].use
      BY <1>3 DEF CountedDown, PageType
    <3> QED
      BY <1>3, <3>3, <3>4
  <2>4. 1 \in Slots /\ Obtained \subseteq Slots
    BY <1>3, SlotsOfNewPage, Widths DEF Slots
  <2> QED
    BY <2>1, <2>2, <2>3, <2>4 DEF MallocFails
<1>5. HandlesOK(pool'.pg, cell', loc')
  BY <1>1, <1>2, <1>4, UseStays
<1> QED
  BY <1>1, <1>2, <1>4, <1>5, InvBetween

LEMMA SettingInv ==
    ASSUME ObjInv, setup' = setup,
           (\E r \in setup.ranks : SetRank(r)) \/ (\E a \in setup.adapts : SetSa(a))
    PROVE  ObjInv'
<1>1. /\ pc = "idle" /\ pc # "move" /\ ~wild /\ UNCHANGED <<pool, cell, loc, pc, fp, gc, wild>>
  BY DEF SetRank, SetSa, Idle
<1>2. /\ PoolOK(pool, Nil, setup.faults) /\ HandlesOK(pool.pg, cell, loc)
      /\ setup \in Setups /\ rank \in Bytewide /\ adapt \in BOOLEAN /\ gc \in BOOLEAN
      /\ fp \in Pages \cup {Nil} /\ wild \in BOOLEAN
  BY <1>1, InvIdle
<1>3. setup.ranks \subseteq Bytewide /\ setup.adapts \subseteq BOOLEAN
  BY <1>2, SetupAssumption DEF Bytewide
<1>4. rank' \in Bytewide /\ adapt' \in BOOLEAN
  BY <1>2, <1>3 DEF SetRank, SetSa
<1> QED
  BY <1>1, <1>2, <1>4, InvBetween

\* A page with a slot in use or a freed one is on the chain of pages.
LEMMA PageListed ==
    ASSUME NEW P, NEW e, NEW faults, PoolOK(P, e, faults), NEW p \in Pages,
           P.pg[p].use # {} \/ P.pg[p].fl # {}
    PROVE  p \in ToSet(P.list)
<1>1. P.pg[p] \in PageType /\ PageOK(P.pg[p], p, e, faults)
  BY PoolFields DEF PoolOK
<1>2. P.pg[p].n \in 0..HeapMax /\ HeapMax \in Nat /\ P.pg[p].use \cup P.pg[p].fl \subseteq 1..P.pg[p].n
  BY <1>1, HeaderFields, Widths DEF PageOK
<1>3. P.pg[p].n > 0
  BY <1>2
<1> QED
  BY <1>3 DEF PoolOK, ListsOK

LEMMA DonorIs ==
    ASSUME NEW faults, PoolOK(pool, Nil, faults), NEW p \in Pages, pool.pg[p].use # {}
    PROVE  Donor \in ToSet(pool.list) /\ Donor \in Pages
<1>1. pool.list \in Seq(Pages) /\ pool.free \in Seq(Pages)
  BY PoolFields DEF PoolOK
<1>2. pool.list # <<>> /\ ToSet(pool.list) \subseteq Pages
  BY <1>1, PageListed, InChain
<1>3. CASE pool.free # <<>>
  <2>1. Donor \in ToSet(pool.free)
    BY <1>1, <1>3, InChain DEF Donor
  <2>2. Donor \in Pages /\ pool.pg[Donor].fl # {}
    BY <2>1 DEF PoolOK, ListsOK
  <2> QED
    BY <2>2, PageListed
<1>4. CASE pool.free = <<>>
  BY <1>1, <1>2, <1>4, InChain DEF Donor
<1> QED
  BY <1>3, <1>4

LEMMA FreeInv ==
    ASSUME ObjInv, NEW h \in Handles, Free(h), setup' = setup
    PROVE  ObjInv'
<1>1. pc = "idle" /\ pc # "move" /\ ~wild /\ loc[h] # Nil
  BY DEF Free, Idle, Live
<1>2. /\ PoolOK(pool, Nil, setup.faults) /\ HandlesOK(pool.pg, cell, loc)
      /\ setup \in Setups /\ rank \in Bytewide /\ adapt \in BOOLEAN /\ gc \in BOOLEAN
      /\ fp \in Pages \cup {Nil} /\ wild \in BOOLEAN
  BY <1>1, InvIdle
<1>3. PICK p \in Pages, s \in Slots : loc[h] = <<p, s>>
  BY <1>1, <1>2 DEF HandlesOK, LocType
<1>4. s \in pool.pg[p].use
  BY <1>2, <1>3 DEF HandlesOK
<1>5. FreeOnRank(h, p, s) \/ FreeInDonor(h, p, s) \/ FreeEmptyDonor(h, p, s) \/ FreeByDonor(h, p, s)
  BY <1>3 DEF Free
<1>6. ASSUME NEW q \in Pages, PoolOK(pool', Nil, setup.faults), HandlesOK(pool'.pg, cell', loc'),
             Fragmented(pool', q) => q \in ToSet(pool'.free), FillIfFragmented(q)
      PROVE  ObjInv'
  <2>1. rank' = rank /\ adapt' = adapt /\ wild' = wild
    BY <1>6 DEF FillIfFragmented
  <2>2. CASE Fragmented(pool', q)
    <3>1. pc' = Entry(pool'.pg[q]) /\ fp' = q /\ gc' = FALSE
      BY <1>6, <2>2 DEF FillIfFragmented
    <3> QED
      BY <1>1, <1>2, <1>6, <2>1, <2>2, <3>1, InvBetween
  <2>3. CASE ~Fragmented(pool', q)
    <3>1. pc' = pc /\ fp' = fp /\ gc' = gc
      BY <1>6, <2>3 DEF FillIfFragmented
    <3> QED
      BY <1>1, <1>2, <1>6, <2>1, <3>1, InvBetween
  <2> QED
    BY <2>2, <2>3
<1>7. CASE FreeOnRank(h, p, s) \/ FreeInDonor(h, p, s)
  <2>1. pool' = Released(pool, p, s) /\ Unbind(h, p, s) /\ FillIfFragmented(p)
    BY <1>7 DEF FreeOnRank, FreeInDonor
  <2>2. /\ PoolOK(pool', Nil, setup.faults)
        /\ pool'.pg[p].use = pool.pg[p].use \ {s}
        /\ \A q \in Pages : q # p => pool'.pg[q] = pool.pg[q]
        /\ Fragmented(pool', p) => p \in ToSet(pool'.free)
    BY <1>2, <1>4, <2>1, ReleasedOK
  <2>3. \A q \in Pages : q # p => pool'.pg[q].use = pool.pg[q].use
    BY <2>2
  <2>4. HandlesOK(pool'.pg, [cell EXCEPT ![p][s] = Nil], [loc EXCEPT ![h] = Nil])
    BY <1>2, <1>3, <2>2, <2>3, UnbindOK
  <2>5. HandlesOK(pool'.pg, cell', loc')
    BY <2>1, <2>4 DEF Unbind
  <2> QED
    BY <1>6, <2>1, <2>2, <2>5
<1>8. CASE FreeEmptyDonor(h, p, s)
  <2>1. /\ pool' = Released(Deleted(pool, Donor), p, s) /\ Unbind(h, p, s) /\ FillIfFragmented(p)
        /\ p # Donor /\ pool.pg[Donor].use = {}
    BY <1>8 DEF FreeEmptyDonor
  <2>2. PICK P : P = Deleted(pool, Donor)
    OBVIOUS
  <2>3. Donor \in ToSet(pool.list) /\ Donor \in Pages /\ pool.pg \in [Pages -> PageType]
    BY <1>2, <1>4, DonorIs, PoolFields DEF PoolOK
  <2>4. PoolOK(P, Nil, setup.faults) /\ P.pg = [pool.pg EXCEPT ![Donor] = NoPage]
    BY <1>2, <2>2, <2>3, DeletedOK
  <2>5. \A q \in Pages : P.pg[q].use = pool.pg[q].use
    BY <2>1, <2>3, <2>4, EmptyPage
  <2>6. /\ PoolOK(pool', Nil, setup.faults)
        /\ pool'.pg[p].use = P.pg[p].use \ {s}
        /\ \A q \in Pages : q # p => pool'.pg[q] = P.pg[q]
        /\ Fragmented(pool', p) => p \in ToSet(pool'.free)
    <3>0. PoolOK(P, Nil, setup.faults)
      BY <2>4
    <3>1. s \in P.pg[p].use /\ pool' = Released(P, p, s)
      BY <1>4, <2>1, <2>2, <2>5
    <3>2. /\ PoolOK(Released(P, p, s), Nil, setup.faults)
          /\ Released(P, p, s).pg[p].use = P.pg[p].use \ {s}
          /\ \A q \in Pages : q # p => Released(P, p, s).pg[q] = P.pg[q]
          /\ Fragmented(Released(P, p, s), p) => p \in ToSet(Released(P, p, s).free)
      BY <3>0, <3>1, ReleasedOK
    <3> QED
      BY <3>1, <3>2
  <2>7. /\ pool'.pg[p].use = pool.pg[p].use \ {s}
        /\ \A q \in Pages : q # p => pool'.pg[q].use = pool.pg[q].use
    BY <2>5, <2>6
  <2>8. HandlesOK(pool'.pg, [cell EXCEPT ![p][s] = Nil], [loc EXCEPT ![h] = Nil])
    BY <1>2, <1>3, <2>7, UnbindOK
  <2>9. HandlesOK(pool'.pg, cell', loc')
    BY <2>1, <2>8 DEF Unbind
  <2> QED
    BY <1>6, <2>1, <2>6, <2>9
<1>9. CASE FreeByDonor(h, p, s)
  <2>1. PICK t \in pool.pg[Donor].use :
          /\ pool' = Released(pool, Donor, t)
          /\ cell' = [cell EXCEPT ![p][s] = cell[Donor][t], ![Donor][t] = Nil]
          /\ loc' = [loc EXCEPT ![h] = Nil, ![cell[Donor][t]] = <<p, s>>]
    BY <1>9 DEF FreeByDonor
  <2>2. p # Donor /\ FillIfFragmented(Donor)
    BY <1>9 DEF FreeByDonor
  <2>3. PICK d \in Pages : d = Donor
    BY <1>2, <1>4, DonorIs
  <2>4. /\ PoolOK(pool', Nil, setup.faults)
        /\ pool'.pg[d].use = pool.pg[d].use \ {t}
        /\ \A q \in Pages : q # d => pool'.pg[q] = pool.pg[q]
        /\ Fragmented(pool', d) => d \in ToSet(pool'.free)
    BY <1>2, <2>1, <2>3, ReleasedOK
  <2>5. \A q \in Pages : q # d => pool'.pg[q].use = pool.pg[q].use
    BY <2>4
  <2>6. HandlesOK(pool'.pg, CellMoved(cell, p, s, d, t), LocMoved([loc EXCEPT ![h] = Nil], cell[d][t], p, s))
    <3>1. t \in pool.pg[d].use /\ p # d /\ HandlesOK(pool.pg, cell, loc)
      BY <1>2, <2>1, <2>2, <2>3
    <3>2. pool'.pg[d].use = pool.pg[d].use \ {t}
      BY <2>4
    <3> QED
      BY <1>3, <2>5, <3>1, <3>2, ReplaceOK
  <2>7. cell' = CellMoved(cell, p, s, d, t)
    BY <2>1, <2>3 DEF CellMoved
  <2>8. loc' = LocMoved([loc EXCEPT ![h] = Nil], cell[d][t], p, s)
    <3>1. loc \in LocType /\ cell[d][t] \in Handles
      BY <1>2, <2>1, <2>3 DEF HandlesOK
    <3>2. PICK g \in Handles : g = cell[d][t]
      BY <3>1
    <3>3. /\ DOMAIN loc' = Handles /\ loc' = [k \in Handles |-> loc'[k]]
          /\ \A k \in Handles : loc'[k] = IF k = g THEN <<p, s>> ELSE IF k = h THEN Nil ELSE loc[k]
      BY <2>1, <2>3, <3>1, <3>2 DEF LocType
    <3>4. PICK L : L = LocMoved([loc EXCEPT ![h] = Nil], g, p, s)
      OBVIOUS
    <3>5. /\ L = [k \in Handles |-> L[k]]
          /\ \A k \in Handles : L[k] = IF k = g THEN <<p, s>> ELSE IF k = h THEN Nil ELSE loc[k]
      BY <3>1, <3>4 DEF LocMoved, LocType
    <3>6. loc' = L
      BY <3>3, <3>5
    <3> QED
      BY <3>2, <3>4, <3>6
  <2> QED
    BY <1>6, <2>2, <2>3, <2>4, <2>6, <2>7, <2>8
<1> QED
  BY <1>5, <1>7, <1>8, <1>9

LEMMA CollectInv ==
    ASSUME ObjInv, NEW short \in BOOLEAN, Collect(short), setup' = setup
    PROVE  ObjInv'
<1>1. /\ pc = "idle" /\ pc # "move" /\ ~wild /\ pool.free # <<>>
      /\ pc' = Entry(pool.pg[Head(pool.free)]) /\ fp' = Head(pool.free) /\ gc' = short
      /\ UNCHANGED <<pool, cell, loc, rank, adapt, wild>>
  BY DEF Collect, Begin, Idle
<1>2. /\ PoolOK(pool, Nil, setup.faults) /\ HandlesOK(pool.pg, cell, loc)
      /\ setup \in Setups /\ rank \in Bytewide /\ adapt \in BOOLEAN /\ gc \in BOOLEAN
      /\ fp \in Pages \cup {Nil} /\ wild \in BOOLEAN
  BY <1>1, InvIdle
<1>3. fp' \in ToSet(pool'.free)
  BY <1>1, <1>2, PoolFields, InChain DEF PoolOK
<1> QED
  BY <1>1, <1>2, <1>3, InvBetween

----------------------------------------------------------------------------
(* The steps of czl_mm_fill_page.                                          *)

\* Freed slots are finitely many, on a page and on all of them.
LEMMA FreedFinite ==
    ASSUME NEW P, NEW e, NEW faults, PoolOK(P, e, faults), NEW f
    PROVE  /\ \A p \in Pages : /\ IsFiniteSet(P.pg[p].fl) /\ Cardinality(P.pg[p].fl) \in 0..HeapMax
                               /\ IsFiniteSet(P.pg[p].use) /\ Cardinality(P.pg[p].use) \in 0..HeapMax
           /\ IsFiniteSet(Bytes(Freed(P.pg, f))) /\ Cardinality(Bytes(Freed(P.pg, f))) \in Nat
<1>1. P.pg \in [Pages -> PageType] /\ P.free \in Seq(Pages) /\ HeapMax \in Nat
  BY PoolFields, Widths DEF PoolOK
<1>2. \A p \in Pages : /\ IsFiniteSet(P.pg[p].fl) /\ Cardinality(P.pg[p].fl) \in 0..HeapMax
                       /\ IsFiniteSet(P.pg[p].use) /\ Cardinality(P.pg[p].use) \in 0..HeapMax
  <2> SUFFICES ASSUME NEW p \in Pages
               PROVE  /\ IsFiniteSet(P.pg[p].fl) /\ Cardinality(P.pg[p].fl) \in 0..HeapMax
                      /\ IsFiniteSet(P.pg[p].use) /\ Cardinality(P.pg[p].use) \in 0..HeapMax
    OBVIOUS
  <2>1. P.pg[p].fl \subseteq Slots /\ P.pg[p].use \subseteq Slots
    BY <1>1, HeaderFields
  <2> QED
    BY <2>1, SlotsFinite
<1>3. IsFiniteSet(ToSet(P.free) \X (1..HeapMax))
  <2>1. IsFiniteSet(ToSet(P.free))
    BY <1>1, ChainCount DEF PoolOK, ListsOK
  <2>2. IsFiniteSet(1..HeapMax)
    BY <1>1, FS_Interval
  <2> QED
    BY <2>1, <2>2, FS_Product
<1>4. Bytes(Freed(P.pg, f)) \subseteq ToSet(P.free) \X (1..HeapMax)
  <2> SUFFICES ASSUME NEW q \in Pages, NEW i \in 1..Cardinality(P.pg[q].fl)
               PROVE  <<q, i>> \in ToSet(P.free) \X (1..HeapMax)
    BY DEF Bytes, Freed
  <2>1. i \in 1..HeapMax /\ Cardinality(P.pg[q].fl) # 0
    BY <1>1, <1>2
  <2>2. P.pg[q].fl # {}
    BY <2>1, FS_EmptySet
  <2> QED
    BY <2>1, <2>2 DEF PoolOK, ListsOK
<1>5. IsFiniteSet(Bytes(Freed(P.pg, f)))
  BY <1>3, <1>4, FS_Subset
<1> QED
  BY <1>2, <1>5, FS_CardinalityType

\* What is counted of a page are natural numbers.
LEMMA PageNumbers ==
    ASSUME NEW P, NEW e, NEW faults, PoolOK(P, e, faults), NEW p \in Pages
    PROVE  /\ P.pg[p].n \in Nat /\ P.pg[p].fn \in Nat
           /\ IsFiniteSet(P.pg[p].use) /\ Cardinality(P.pg[p].use) \in Nat
           /\ IsFiniteSet(P.pg[p].fl) /\ Cardinality(P.pg[p].fl) \in Nat
           /\ P.pg[p].use \cup P.pg[p].fl \subseteq 1..P.pg[p].n /\ P.pg[p].use \cap P.pg[p].fl = {}
<1>1. P.pg[p] \in PageType /\ PageOK(P.pg[p], p, e, faults)
  BY PoolFields DEF PoolOK
<1>2. P.pg[p].n \in Nat /\ P.pg[p].fn \in Nat
  BY <1>1, HeaderFields, Widths DEF Bytewide
<1>3. /\ IsFiniteSet(P.pg[p].use) /\ Cardinality(P.pg[p].use) \in 0..HeapMax
      /\ IsFiniteSet(P.pg[p].fl) /\ Cardinality(P.pg[p].fl) \in 0..HeapMax
  BY FreedFinite
<1>4. P.pg[p].use \cup P.pg[p].fl \subseteq 1..P.pg[p].n /\ P.pg[p].use \cap P.pg[p].fl = {}
  BY <1>1 DEF PageOK
<1> QED
  BY <1>2, <1>3, <1>4, Widths

\* The pages a pass looks at are on both chains, and are not the page itself.
LEMMA OthersListed ==
    ASSUME NEW e, NEW faults, PoolOK(pool, e, faults), fp \in ToSet(pool.free)
    PROVE  /\ fp \in Pages /\ fp \in ToSet(pool.list) /\ Len(Others) \in Nat
           /\ ToSet(Others) \subseteq ToSet(pool.free) \ {fp}
           /\ \A i \in 1..Len(Others) : Others[i] \in ToSet(pool.free) \ {fp} /\ Others[i] \in ToSet(pool.list)
<1>1. pool.free \in Seq(Pages) /\ IsInjective(pool.free)
  BY PoolFields DEF PoolOK, ListsOK
<1>2. \A p \in ToSet(pool.free) : p \in Pages /\ p \in ToSet(pool.list)
  <2> SUFFICES ASSUME NEW p \in ToSet(pool.free) PROVE p \in Pages /\ p \in ToSet(pool.list)
    OBVIOUS
  <2>1. p \in Pages /\ pool.pg[p].fl # {}
    BY DEF PoolOK, ListsOK
  <2> QED
    BY <2>1, PageListed
<1>3. Others \in Seq(ToSet(pool.free) \ {fp})
  BY <1>1, OthersAre
<1>4. /\ Len(Others) \in Nat /\ DOMAIN Others = 1..Len(Others)
      /\ \A i \in 1..Len(Others) : Others[i] \in ToSet(pool.free) \ {fp}
  BY <1>3, LenProperties, ElementOfSeq
<1> QED
  BY <1>2, <1>4 DEF ToSet

\* A freeNum that is too large comes from handles that were refused.
LEMMA WrappedByRefusal ==
    ASSUME NEW P, NEW e, NEW faults, PoolOK(P, e, faults), Wrapped(P.pg)
    PROVE  "handle" \in faults
<1>1. PICK p \in Pages : P.pg[p].fn > Cardinality(P.pg[p].fl)
  BY DEF Wrapped
<1>2. Cardinality(P.pg[p].fl) \in Nat
  BY PageNumbers
<1> QED
  BY <1>1, <1>2 DEF PoolOK, PageOK

\* A page that counts as free has objects only after a wrap around.
LEMMA FreeWholeInv ==
    ASSUME ObjInv, FreeWhole, setup' = setup
    PROVE  (wild' => Wrapped(pool.pg)) /\ ObjInv'
<1>1. /\ pc = "free" /\ pc # "move" /\ pc # "idle" /\ ~wild /\ wild' = (pool.pg[fp].use # {})
      /\ pool' = Deleted(pool, fp) /\ pc' = "idle" /\ fp' = Nil
      /\ UNCHANGED <<cell, loc, rank, adapt, gc>>
      /\ fp \in ToSet(pool.free) /\ pool.pg[fp].n = pool.pg[fp].fn
  BY DEF FreeWhole, Done, ObjInv, Filling
<1>2. /\ PoolOK(pool, Nil, setup.faults) /\ HandlesOK(pool.pg, cell, loc)
      /\ setup \in Setups /\ rank \in Bytewide /\ adapt \in BOOLEAN /\ gc \in BOOLEAN
  BY <1>1, InvIdle
<1>3. PICK faults : faults = setup.faults
  OBVIOUS
<1>4. fp \in Pages /\ fp \in ToSet(pool.list)
  BY <1>1, <1>2, <1>3, OthersListed
<1>5. PoolOK(Deleted(pool, fp), Nil, faults) /\ Deleted(pool, fp).pg = [pool.pg EXCEPT ![fp] = NoPage]
  BY <1>2, <1>3, <1>4, DeletedOK
<1>6. pool.pg \in [Pages -> PageType] /\ PoolOK(pool', Nil, setup.faults)
  BY <1>1, <1>2, <1>3, <1>5, PoolFields DEF PoolOK
<1>7. /\ pool'.pg[fp].use = {} /\ pool'.pg[fp].n = 0
      /\ \A q \in Pages : q # fp => pool'.pg[q] = pool.pg[q]
  BY <1>1, <1>4, <1>5, <1>6, EmptyPage
<1>8. wild' => Wrapped(pool.pg)
  <2> SUFFICES ASSUME pool.pg[fp].use # {} PROVE pool.pg[fp].fn > Cardinality(pool.pg[fp].fl)
    BY <1>1, <1>4 DEF Wrapped
  <2>1. PICK U, F, n : U = pool.pg[fp].use /\ F = pool.pg[fp].fl /\ n = pool.pg[fp].n
    OBVIOUS
  <2>2. /\ n \in Nat /\ IsFiniteSet(F) /\ Cardinality(F) \in Nat /\ U \cup F \subseteq 1..n
        /\ U \cap F = {} /\ U # {}
    BY <1>2, <1>3, <1>4, <2>1, PageNumbers
  <2>3. PICK u \in U : u \notin F /\ u \in 1..n
    BY <2>2
  <2>4. Cardinality(F \cup {u}) = Cardinality(F) + 1
    BY <2>2, <2>3, FS_AddElement
  <2>5. IsFiniteSet(1..n) /\ Cardinality(1..n) = n
    <3>1. CASE n = 0
      BY <2>2, <2>3, <3>1
    <3>2. CASE n # 0
      BY <2>2, <3>2, FS_Interval
    <3> QED
      BY <3>1, <3>2
  <2>6. Cardinality(F \cup {u}) <= n
    BY <2>2, <2>3, <2>5, FS_Subset
  <2> QED
    BY <1>1, <2>1, <2>2, <2>4, <2>6
<1>9. CASE ~wild'
  <2>1. \A q \in Pages : pool'.pg[q].use = pool.pg[q].use
    BY <1>1, <1>7, <1>9
  <2>2. HandlesOK(pool'.pg, cell', loc')
    BY <1>1, <1>2, <2>1, UseStays
  <2> QED
    BY <1>1, <1>2, <1>6, <1>8, <1>9, <2>2, InvBetween
<1>10. CASE wild'
  <2>1. HandlesLeft(pool.pg, cell, loc)
    BY <1>2, AllAreLeft
  <2>2. HandlesLeft(pool'.pg, cell', loc')
    <3>1. ASSUME NEW p \in Pages, NEW s \in Slots, NEW k \in Handles, loc[k] = <<p, s>>
          PROVE  (s \in pool'.pg[p].use /\ cell[p][s] = k) \/ pool'.pg[p].n = 0
      BY <1>7, <2>1, <3>1 DEF HandlesLeft
    <3>2. ASSUME NEW p \in Pages, NEW s \in pool'.pg[p].use
          PROVE  s \in Slots /\ cell[p][s] \in Handles /\ loc[cell[p][s]] = <<p, s>>
      BY <1>7, <2>1, <3>2 DEF HandlesLeft
    <3> QED
      BY <1>1, <2>1, <3>1, <3>2 DEF HandlesLeft
  <2>3. "handle" \in setup.faults
    BY <1>2, <1>3, <1>8, <1>10, WrappedByRefusal
  <2>4. Settings' /\ Filling' /\ Emptied' = Nil
    BY <1>1, <1>2, <1>10, <2>3 DEF Settings, Filling, Emptied
  <2> QED
    BY <1>1, <1>6, <1>8, <1>10, <2>2, <2>4 DEF ObjInv, HandlesInv
<1> QED
  BY <1>8, <1>9, <1>10

LEMMA ScanAgainInv ==
    ASSUME ObjInv, ScanAgain, setup' = setup
    PROVE  ObjInv'
<1>1. /\ pc = "scan" /\ pc # "idle" /\ pc # "move" /\ Freer # {} /\ ~wild
      /\ UNCHANGED <<cell, loc, rank, adapt, pc, gc, wild>>
  BY DEF ScanAgain, ObjInv, Filling
<1>2. /\ PoolOK(pool, Nil, setup.faults) /\ HandlesOK(pool.pg, cell, loc)
      /\ setup \in Setups /\ rank \in Bytewide /\ adapt \in BOOLEAN /\ gc \in BOOLEAN
      /\ wild \in BOOLEAN
  BY <1>1, InvIdle
<1>3. fp \in ToSet(pool.free)
  BY <1>1 DEF ObjInv, Filling
<1>4. PICK i \in 1..Len(Others) : i = Min(Freer)
  <2>1. Freer \subseteq 1..Len(Others) /\ Freer \subseteq Nat
    BY <1>2, <1>3, OthersListed DEF Freer, Looked
  <2> QED
    BY <1>1, <2>1, MinInSet
<1>5. PICK Q : Q = {Others[j] : j \in 1..(i - 1)}
  OBVIOUS
<1>6. fp' = Others[i] /\ pool' = Adapted(Q)
  BY <1>4, <1>5 DEF ScanAgain
<1>7. Others[i] \in ToSet(pool.free) /\ Q \subseteq ToSet(pool.list)
  <2>1. \A j \in 1..(i - 1) : j \in 1..Len(Others)
    BY <1>2, <1>3, OthersListed
  <2> QED
    BY <1>2, <1>3, <1>5, <2>1, OthersListed
<1>8. /\ PoolOK(pool', Nil, setup.faults) /\ pool'.free = pool.free
      /\ \A p \in Pages : pool'.pg[p].use = pool.pg[p].use
  BY <1>2, <1>6, <1>7, AdaptedOK
<1>9. HandlesOK(pool'.pg, cell', loc')
  BY <1>1, <1>2, <1>8, UseStays
<1> QED
  BY <1>1, <1>2, <1>6, <1>7, <1>8, <1>9, InvBetween

\* Enough slots are promised by the others; without a wrap around they have them.
LEMMA RoomFound ==
    ASSUME NEW faults, PoolOK(pool, Nil, faults), fp \in ToSet(pool.free),
           Enough(Len(Others)), NEW pg,
           \A p \in Pages : /\ pg[p].use = pool.pg[p].use /\ pg[p].fl = pool.pg[p].fl
                            /\ pg[p].fn = pool.pg[p].fn,
           pg[fp].use # {}
    PROVE  RoomLeft(pg, fp)
<1> SUFFICES ASSUME ~Wrapped(pool.pg)
             PROVE  Cardinality(pg[fp].use) <= Cardinality(Bytes(Freed(pg, fp)))
  BY DEF RoomLeft, Wrapped
<1>1. /\ fp \in Pages /\ pool.pg \in [Pages -> PageType] /\ Len(Others) \in Nat
      /\ ToSet(Others) \subseteq Pages \ {fp} /\ Others \in Seq(ToSet(pool.free) \ {fp})
  BY OthersListed, OthersAre, PoolFields, InChain DEF PoolOK, ListsOK
<1>2. \A p \in Pages : pool.pg[p].fn \in Nat /\ pool.pg[p].fn <= Cardinality(pool.pg[p].fl)
  <2> SUFFICES ASSUME NEW p \in Pages
               PROVE  pool.pg[p].fn \in Nat /\ pool.pg[p].fn <= Cardinality(pool.pg[p].fl)
    OBVIOUS
  <2>1. pool.pg[p].fn \in Nat /\ Cardinality(pool.pg[p].fl) \in Nat
    BY PageNumbers
  <2>2. ~(pool.pg[p].fn > Cardinality(pool.pg[p].fl))
    BY DEF Wrapped
  <2> QED
    BY <2>1, <2>2
<1>3. Freed(pg, fp) = Freed(pool.pg, fp)
  BY DEF Freed
<1> DEFINE f == [p \in ToSet(SubSeq(Others, 1, Len(Others))) |-> pool.pg[p].fn]
           g == Freed(pool.pg, fp)
<1>4. RoomIn(Len(Others)) <= Cardinality(Bytes(g)) /\ RoomIn(Len(Others)) \in Nat
  <2>1. DOMAIN f = ToSet(Others)
    BY <1>1, SubSeqFull
  <2>2. DOMAIN g = Pages \ {fp}
    BY DEF Freed
  <2>3. \A x \in DOMAIN f : f[x] \in Nat /\ g[x] \in Nat /\ f[x] <= g[x]
    <3> SUFFICES ASSUME NEW x \in ToSet(Others) PROVE f[x] \in Nat /\ g[x] \in Nat /\ f[x] <= g[x]
      BY <2>1
    <3>1. x \in Pages \ {fp} /\ x \in DOMAIN f
      BY <1>1, <2>1
    <3>2. f[x] = pool.pg[x].fn /\ g[x] = Cardinality(pool.pg[x].fl)
      BY <3>1 DEF Freed
    <3>3. Cardinality(pool.pg[x].fl) \in Nat
      BY <3>1, PageNumbers
    <3> HIDE DEF f, g
    <3> QED
      BY <1>2, <3>1, <3>2, <3>3
  <2>4. IsFiniteSet(Bytes(g))
    BY FreedFinite
  <2>5. RoomIn(Len(Others)) = Cardinality(Bytes(f))
    BY DEF RoomIn
  <2> HIDE DEF f, g
  <2> QED
    BY <1>1, <2>1, <2>2, <2>3, <2>4, <2>5, BytesWithin, FS_CardinalityType
<1>5. Cardinality(pool.pg[fp].use) + Cardinality(pool.pg[fp].fl) <= pool.pg[fp].n
  <2>1. PICK A, B, n : A = pool.pg[fp].use /\ B = pool.pg[fp].fl /\ n = pool.pg[fp].n
    OBVIOUS
  <2>2. n \in Nat /\ A \cup B \subseteq 1..n /\ A \cap B = {}
    BY <1>1, <2>1, PageNumbers
  <2>3. IsFiniteSet(A) /\ IsFiniteSet(B)
    BY <1>1, <2>1, PageNumbers
  <2>4. /\ IsFiniteSet(A \cup B)
        /\ Cardinality(A \cup B) = Cardinality(A) + Cardinality(B) - Cardinality(A \cap B)
    BY <2>3, FS_Union
  <2>5. IsFiniteSet(1..n) /\ Cardinality(1..n) = n
    BY <2>2, FS_Interval
  <2>6. Cardinality(A \cup B) <= n
    BY <2>2, <2>5, FS_Subset
  <2>7. Cardinality(A \cap B) = 0 /\ Cardinality(A) \in Nat /\ Cardinality(B) \in Nat
    BY <2>2, <2>3, FS_EmptySet, FS_CardinalityType
  <2> QED
    BY <2>1, <2>2, <2>4, <2>6, <2>7
<1>6. pool.pg[fp].n >= pool.pg[fp].fn /\ RoomIn(Len(Others)) >= pool.pg[fp].n - pool.pg[fp].fn
  BY DEF Enough
<1>7. /\ Cardinality(pool.pg[fp].use) \in Nat /\ Cardinality(pool.pg[fp].fl) \in Nat
      /\ pool.pg[fp].n \in Nat /\ Cardinality(Bytes(g)) \in Nat
  BY <1>1, PageNumbers, FreedFinite
<1>8. pg[fp].use = pool.pg[fp].use /\ pool.pg[fp].fn \in Nat /\ pool.pg[fp].fn <= Cardinality(pool.pg[fp].fl)
  BY <1>1, <1>2
<1> HIDE DEF f, g
<1>9. Cardinality(pool.pg[fp].use) <= Cardinality(Bytes(g))
  BY <1>4, <1>5, <1>6, <1>7, <1>8
<1> QED
  BY <1>3, <1>8, <1>9 DEF g

LEMMA ScanEndsInv ==
    ASSUME ObjInv, ScanEnds, setup' = setup
    PROVE  ObjInv'
<1>1. /\ pc = "scan" /\ pc # "idle" /\ pc # "move" /\ ~wild
      /\ UNCHANGED <<cell, loc, rank, adapt, gc, wild>>
  BY DEF ScanEnds, ObjInv, Filling
<1>2. /\ PoolOK(pool, Nil, setup.faults) /\ HandlesOK(pool.pg, cell, loc)
      /\ setup \in Setups /\ rank \in Bytewide /\ adapt \in BOOLEAN /\ gc \in BOOLEAN
      /\ wild \in BOOLEAN
  BY <1>1, InvIdle
<1>3. fp \in ToSet(pool.free) /\ fp \in Pages /\ fp \in ToSet(pool.list) /\ fp # Nil
  BY <1>1, <1>2, OthersListed, NilIsNoSlot DEF ObjInv, Filling
<1>4. PICK P : P = Adapted({Others[i] : i \in Looked})
  OBVIOUS
<1>5. {Others[i] : i \in Looked} \subseteq ToSet(pool.list)
  BY <1>2, <1>3, OthersListed DEF Looked
<1>6. /\ PoolOK(P, Nil, setup.faults) /\ P.free = pool.free /\ P.list = pool.list
      /\ \A p \in Pages : /\ P.pg[p].use = pool.pg[p].use /\ P.pg[p].fl = pool.pg[p].fl
                          /\ P.pg[p].fn = pool.pg[p].fn
  BY <1>2, <1>4, <1>5, AdaptedOK
<1>7. HandlesOK(P.pg, cell', loc')
  BY <1>1, <1>2, <1>6, UseStays
<1>8. CASE pool' = P /\ Done
  <2>1. pc' = "idle" /\ fp' = Nil
    BY <1>8 DEF Done
  <2> QED
    BY <1>1, <1>2, <1>6, <1>7, <1>8, <2>1, InvBetween
<1>9. CASE P.pg[fp].use = {} /\ pool' = Deleted(P, fp) /\ Done
  <2>1. pc' = "idle" /\ fp' = Nil
    BY <1>9 DEF Done
  <2>2. fp \in ToSet(P.list)
    BY <1>3, <1>6
  <2>3. PoolOK(Deleted(P, fp), Nil, setup.faults) /\ Deleted(P, fp).pg = [P.pg EXCEPT ![fp] = NoPage]
    BY <1>6, <2>2, DeletedOK
  <2>4. P.pg \in [Pages -> PageType]
    BY <1>6, PoolFields DEF PoolOK
  <2>5. \A q \in Pages : pool'.pg[q].use = P.pg[q].use
    BY <1>3, <1>9, <2>3, <2>4, EmptyPage
  <2>6. HandlesOK(pool'.pg, cell', loc')
    BY <1>7, <2>5, UseStays
  <2>7. PoolOK(pool', Nil, setup.faults)
    BY <1>9, <2>3
  <2> QED
    BY <1>1, <1>2, <2>1, <2>6, <2>7, InvBetween
<1>10. CASE Enough(Len(Others)) /\ P.pg[fp].use # {} /\ pool' = P /\ pc' = "move" /\ fp' = fp
  <2>1. RoomLeft(P.pg, fp)
    BY <1>2, <1>3, <1>6, <1>10, RoomFound
  <2>2. PoolOK(P, fp, setup.faults)
    <3>1. \A p \in Pages : PageOK(P.pg[p], p, Nil, setup.faults)
      BY <1>6 DEF PoolOK
    <3>2. \A p \in Pages : PageOK(P.pg[p], p, fp, setup.faults)
      BY <3>1, NilIsNoSlot DEF PageOK
    <3> QED
      BY <1>6, <3>2 DEF PoolOK
  <2>3. PoolOK(pool', Emptied', setup'.faults)
    BY <1>10, <2>2 DEF Emptied
  <2>4. Filling'
    BY <1>1, <1>2, <1>3, <1>6, <1>10, <2>1 DEF Filling
  <2>5. Settings'
    BY <1>1, <1>2, <1>3, <1>10 DEF Settings
  <2> QED
    BY <1>7, <1>10, <2>3, <2>4, <2>5 DEF ObjInv, HandlesInv
<1> QED
  BY <1>4, <1>8, <1>9, <1>10 DEF ScanEnds

\* One object less has to move, and one slot less is free where it went.
LEMMA RoomMoved ==
    ASSUME NEW faults, PoolOK(pool, fp, faults), RoomLeft(pool.pg, fp), fp \in Pages,
           NEW d \in Pages, d # fp, NEW t \in pool.pg[fp].use, NEW s \in pool.pg[d].fl,
           NEW pg, pg[fp].use = pool.pg[fp].use \ {t}, pg[fp].use # {},
           pg[d].fl = pool.pg[d].fl \ {s}, pg[d].fn = (pool.pg[d].fn - 1) % ByteRange,
           \A q \in Pages : q # d => pg[q].fl = pool.pg[q].fl /\ pg[q].fn = pool.pg[q].fn
    PROVE  RoomLeft(pg, fp) /\ (Wrapped(pool.pg) => Wrapped(pg))
<1>1. /\ IsFiniteSet(pool.pg[fp].use) /\ Cardinality(pool.pg[fp].use) \in Nat
      /\ IsFiniteSet(pool.pg[d].fl) /\ Cardinality(pool.pg[d].fl) \in Nat /\ pool.pg[d].fn \in Bytewide
  <2>1. pool.pg \in [Pages -> PageType]
    BY PoolFields DEF PoolOK
  <2>2. pool.pg[d].fn \in Bytewide
    BY <2>1, HeaderFields
  <2>3. IsFiniteSet(pool.pg[fp].use) /\ Cardinality(pool.pg[fp].use) \in Nat
    BY PageNumbers
  <2>4. IsFiniteSet(pool.pg[d].fl) /\ Cardinality(pool.pg[d].fl) \in Nat
    BY PageNumbers
  <2> QED
    BY <2>2, <2>3, <2>4
<1>2. /\ Cardinality(pg[d].fl) = Cardinality(pool.pg[d].fl) - 1 /\ Cardinality(pg[d].fl) \in Nat
      /\ Cardinality(pg[fp].use) = Cardinality(pool.pg[fp].use) - 1
  <2>0. \A A : IsFiniteSet(A) =>
           \A x \in A : IsFiniteSet(A \ {x}) /\ Cardinality(A \ {x}) = Cardinality(A) - 1
    BY FS_RemoveElement
  <2>1. IsFiniteSet(pg[d].fl) /\ Cardinality(pg[d].fl) = Cardinality(pool.pg[d].fl) - 1
    BY <1>1, <2>0
  <2>2. Cardinality(pg[fp].use) = Cardinality(pool.pg[fp].use) - 1
    BY <1>1, <2>0
  <2>3. Cardinality(pg[d].fl) \in Nat
    BY <2>1, FS_CardinalityType
  <2> QED
    BY <2>1, <2>2, <2>3
<1>3. ASSUME Wrapped(pool.pg) PROVE Wrapped(pg)
  <2>1. PICK q \in Pages : pool.pg[q].fn > Cardinality(pool.pg[q].fl)
    BY <1>3 DEF Wrapped
  <2>2. CASE q # d
    BY <2>1, <2>2 DEF Wrapped
  <2>3. CASE q = d
    <3>1. PICK n, c : n = pool.pg[d].fn /\ c = Cardinality(pool.pg[d].fl)
      OBVIOUS
    <3>2. n \in Bytewide /\ c \in Nat /\ c - 1 \in Nat /\ n > c
      BY <1>1, <1>2, <2>1, <2>3, <3>1
    <3>3. n - 1 \in Bytewide
      BY <3>2, Widths DEF Bytewide
    <3>4. (n - 1) % ByteRange = n - 1
      BY <3>3, Widths
    <3>5. pg[d].fn = n - 1 /\ Cardinality(pg[d].fl) = c - 1
      BY <1>2, <3>1, <3>4
    <3>6. pg[d].fn > Cardinality(pg[d].fl)
      BY <3>2, <3>5 DEF Bytewide
    <3> QED
      BY <3>6 DEF Wrapped
  <2> QED
    BY <2>2, <2>3
<1>4. ASSUME Cardinality(pool.pg[fp].use) <= Cardinality(Bytes(Freed(pool.pg, fp)))
      PROVE  Cardinality(pg[fp].use) <= Cardinality(Bytes(Freed(pg, fp)))
  <2> DEFINE f == Freed(pool.pg, fp)
             g == Freed(pg, fp)
  <2>1. DOMAIN f = Pages \ {fp} /\ DOMAIN g = Pages \ {fp} /\ d \in DOMAIN f
    BY DEF Freed
  <2>2. f[d] = Cardinality(pool.pg[d].fl) /\ g[d] = Cardinality(pg[d].fl)
    BY DEF Freed
  <2>3. \A x \in DOMAIN f \ {d} : g[x] = f[x]
    BY DEF Freed
  <2>4. IsFiniteSet(Bytes(f)) /\ Cardinality(Bytes(f)) \in Nat
    BY FreedFinite
  <2> HIDE DEF f, g
  <2>5. Cardinality(Bytes(g)) = Cardinality(Bytes(f)) - f[d] + g[d]
    BY <1>1, <1>2, <2>1, <2>2, <2>3, <2>4, BytesResize
  <2>6. Cardinality(Bytes(g)) = Cardinality(Bytes(f)) - 1
    BY <1>1, <1>2, <2>2, <2>4, <2>5
  <2> QED
    BY <1>1, <1>2, <1>4, <2>4, <2>6 DEF f, g
<1> QED
  BY <1>3, <1>4 DEF RoomLeft

\* The pool when an object has left a slot of page p.
SlotGivenUp(P, p, t) == [P EXCEPT !.pg[p] = GivenUp(@, t)]

LEMMA SlotGivenUpOK ==
    ASSUME NEW P, NEW p \in Pages, NEW faults, PoolOK(P, p, faults), NEW t
    PROVE  /\ PoolOK(SlotGivenUp(P, p, t), p, faults)
           /\ SlotGivenUp(P, p, t).pg = [P.pg EXCEPT ![p] = GivenUp(P.pg[p], t)]
           /\ SlotGivenUp(P, p, t).free = P.free /\ SlotGivenUp(P, p, t).list = P.list
<1>1. P \in PoolType /\ P.pg \in [Pages -> PageType] /\ P.free \in Seq(Pages)
  BY PoolFields DEF PoolOK
<1>2. PICK q : q = P.pg[p]
  OBVIOUS
<1>3. q \in PageType /\ PageOK(q, p, p, faults)
  BY <1>1, <1>2 DEF PoolOK
<1> DEFINE r == GivenUp(q, t)
<1>4. /\ r \in PageType /\ PageOK(r, p, p, faults)
      /\ r.n = P.pg[p].n /\ r.fl = P.pg[p].fl /\ r.rank = P.pg[p].rank /\ r.rest = P.pg[p].rest
  BY <1>2, <1>3, GiveUp
<1> HIDE DEF r
<1>5. Replaces(P, p, r, P.free)
  <2>1. IsInjective(P.free) /\ (p \in ToSet(P.free) <=> P.pg[p].fl # {})
    BY <1>1 DEF PoolOK, ListsOK
  <2>2. ToSet(P.free) = IF r.fl = {} THEN ToSet(P.free) \ {p} ELSE ToSet(P.free) \cup {p}
    BY <1>4, <2>1
  <2> QED
    BY <1>1, <1>4, <2>1, <2>2 DEF Replaces
<1>6. PICK R : R = Replaced(P, p, r, P.free)
  OBVIOUS
<1>7. PoolOK(R, p, faults) /\ R.pg = [P.pg EXCEPT ![p] = r] /\ R.list = P.list /\ R.free = P.free
  BY <1>4, <1>5, <1>6, PageReplaced
<1>8. SlotGivenUp(P, p, t) = R
  <2>1. P = [list |-> P.list, free |-> P.free, num |-> P.num, pg |-> P.pg, cnt |-> P.cnt, sum |-> P.sum]
    BY <1>1 DEF PoolType
  <2>2. R = [list |-> P.list, free |-> P.free, num |-> P.num, pg |-> [P.pg EXCEPT ![p] = r],
             cnt |-> P.cnt, sum |-> P.sum]
    BY <1>6, <2>1 DEF Replaced
  <2>3. SlotGivenUp(P, p, t) = [P EXCEPT !.pg[p] = r]
    BY <1>1, <1>2 DEF SlotGivenUp, r
  <2>4. [P EXCEPT !.pg[p] = r]
           = [list |-> P.list, free |-> P.free, num |-> P.num, pg |-> [P.pg EXCEPT ![p] = r],
              cnt |-> P.cnt, sum |-> P.sum]
    BY <2>1
  <2> QED
    BY <2>2, <2>3, <2>4
<1> QED
  BY <1>1, <1>2, <1>7, <1>8 DEF r

\* An object leaves the page that is emptied: the page it goes to, the slot it leaves
\* and the slot it takes, and the pool after it.
MovesTo(d, t, s, P) ==
    /\ d = Target /\ t \in pool.pg[fp].use /\ s \in pool.pg[d].fl
    /\ P = [Taken(pool, d, s) EXCEPT !.pg[fp] = GivenUp(@, t)]
    /\ cell' = [cell EXCEPT ![d][s] = cell[fp][t], ![fp][t] = Nil]
    /\ loc' = [loc EXCEPT ![cell[fp][t]] = <<d, s>>]
    /\ \/ P.pg[fp].use = {} /\ pool' = Deleted(P, fp) /\ Done
       \/ P.pg[fp].use # {} /\ pool' = P /\ UNCHANGED <<pc, fp>>

\* The pages and the free chain after a move.
LEMMA AfterMove ==
    ASSUME NEW faults, PoolOK(pool, fp, faults), fp \in ToSet(pool.free), HasTarget,
           NEW d, NEW t, NEW s, NEW P, MovesTo(d, t, s, P)
    PROVE  /\ fp \in Pages /\ d \in Pages /\ d # fp /\ s \in Slots /\ s \notin pool.pg[d].use
           /\ PoolOK(P, fp, faults) /\ fp \in ToSet(P.free) /\ fp \in ToSet(P.list)
           /\ P.pg[d].use = pool.pg[d].use \cup {s} /\ P.pg[d].fl = pool.pg[d].fl \ {s}
           /\ P.pg[d].fn = (pool.pg[d].fn - 1) % ByteRange
           /\ P.pg[fp].use = pool.pg[fp].use \ {t}
           /\ P.pg[fp].fl = pool.pg[fp].fl /\ P.pg[fp].fn = pool.pg[fp].fn
           /\ \A q \in Pages : q # d /\ q # fp => P.pg[q] = pool.pg[q]
<1>1. /\ pool.pg \in [Pages -> PageType] /\ pool.free \in Seq(Pages) /\ IsInjective(pool.free)
  BY PoolFields DEF PoolOK, ListsOK
<1>2. d \in ToSet(pool.free) /\ d # fp
  BY <1>1, TargetIs DEF MovesTo
<1>3. fp \in Pages /\ d \in Pages /\ fp \in ToSet(pool.list)
  BY <1>1, <1>2, InChain, OthersListed
<1>4. s \in pool.pg[d].fl
  BY DEF MovesTo
<1>5. PICK P0 : P0 = Taken(pool, d, s)
  OBVIOUS
<1>6. /\ PoolOK(P0, fp, faults) /\ s \in Slots /\ s \notin pool.pg[d].use
      /\ P0.list = pool.list /\ P0.pg = [pool.pg EXCEPT ![d] = FreedTaken(pool.pg[d], s)]
      /\ ToSet(pool.free) \ {d} \subseteq ToSet(P0.free)
  BY <1>3, <1>4, <1>5, TakenOK
<1>7. P = SlotGivenUp(P0, fp, t)
  BY <1>5 DEF MovesTo, SlotGivenUp
<1>8. /\ PoolOK(P, fp, faults) /\ P.pg = [P0.pg EXCEPT ![fp] = GivenUp(P0.pg[fp], t)]
      /\ P.free = P0.free /\ P.list = P0.list
  BY <1>3, <1>6, <1>7, SlotGivenUpOK
<1>9. P0.pg[fp] = pool.pg[fp] /\ P0.pg[d] = FreedTaken(pool.pg[d], s)
  BY <1>1, <1>2, <1>3, <1>6
<1>10. P.pg[fp] = GivenUp(pool.pg[fp], t) /\ P.pg[d] = FreedTaken(pool.pg[d], s)
  BY <1>1, <1>2, <1>3, <1>6, <1>8, <1>9
<1>11. \A q \in Pages : q # d /\ q # fp => P.pg[q] = pool.pg[q]
  BY <1>1, <1>6, <1>8
<1>12. /\ GivenUp(pool.pg[fp], t).use = pool.pg[fp].use \ {t}
       /\ GivenUp(pool.pg[fp], t).fl = pool.pg[fp].fl /\ GivenUp(pool.pg[fp], t).fn = pool.pg[fp].fn
  BY <1>1, <1>3, HeaderFields DEF GivenUp
<1>13. /\ FreedTaken(pool.pg[d], s).use = pool.pg[d].use \cup {s}
       /\ FreedTaken(pool.pg[d], s).fl = pool.pg[d].fl \ {s}
       /\ FreedTaken(pool.pg[d], s).fn = (pool.pg[d].fn - 1) % ByteRange
  BY <1>1, <1>3, HeaderFields DEF FreedTaken
<1>14. fp \in ToSet(P.free) /\ fp \in ToSet(P.list)
  BY <1>2, <1>3, <1>6, <1>8
<1> QED
  BY <1>2, <1>3, <1>6, <1>8, <1>10, <1>11, <1>12, <1>13, <1>14

LEMMA MoveInv ==
    ASSUME ObjInv, Move, setup' = setup
    PROVE  ObjInv'
<1>1. /\ pc = "move" /\ ~wild /\ wild' = wild /\ HasTarget /\ UNCHANGED <<rank, adapt, gc>>
  BY DEF Move
<1>2. /\ Settings /\ PoolOK(pool, fp, setup.faults) /\ HandlesOK(pool.pg, cell, loc)
      /\ fp \in ToSet(pool.free) /\ RoomLeft(pool.pg, fp)
  BY <1>1 DEF ObjInv, HandlesInv, Emptied, Filling
<1>3. PICK d, t, s, P : MovesTo(d, t, s, P)
  BY DEF Move, MovesTo
<1>4. PICK faults : faults = setup.faults
  OBVIOUS
<1>5. /\ fp \in Pages /\ d \in Pages /\ d # fp /\ s \in Slots /\ s \notin pool.pg[d].use
      /\ PoolOK(P, fp, faults) /\ fp \in ToSet(P.free) /\ fp \in ToSet(P.list)
      /\ P.pg[d].use = pool.pg[d].use \cup {s} /\ P.pg[d].fl = pool.pg[d].fl \ {s}
      /\ P.pg[d].fn = (pool.pg[d].fn - 1) % ByteRange
      /\ P.pg[fp].use = pool.pg[fp].use \ {t}
      /\ P.pg[fp].fl = pool.pg[fp].fl /\ P.pg[fp].fn = pool.pg[fp].fn
      /\ \A q \in Pages : q # d /\ q # fp => P.pg[q] = pool.pg[q]
  BY <1>1, <1>2, <1>3, <1>4, AfterMove
<1>6. t \in pool.pg[fp].use /\ s \in pool.pg[d].fl
  BY <1>3 DEF MovesTo
<1>7. /\ cell' = CellMoved(cell, d, s, fp, t) /\ loc' = LocMoved(loc, cell[fp][t], d, s)
  BY <1>3 DEF MovesTo, CellMoved, LocMoved
<1>8. HandlesOK(P.pg, cell', loc')
  <2>1. HandlesOK(P.pg, CellMoved(cell, d, s, fp, t), LocMoved(loc, cell[fp][t], d, s))
    BY <1>2, <1>5, <1>6, MoveOK
  <2> QED
    BY <1>7, <2>1
<1>9. /\ setup \in Setups /\ rank' \in Bytewide /\ adapt' \in BOOLEAN /\ gc' \in BOOLEAN
      /\ ~wild' /\ wild' \in BOOLEAN
  BY <1>1, <1>2 DEF Settings
<1>10. CASE P.pg[fp].use = {} /\ pool' = Deleted(P, fp) /\ Done
  <2>1. pc' = "idle" /\ fp' = Nil
    BY <1>10 DEF Done
  <2>2. PoolOK(Deleted(P, fp), Nil, faults) /\ Deleted(P, fp).pg = [P.pg EXCEPT ![fp] = NoPage]
    BY <1>5, DeletedOK
  <2>3. P.pg \in [Pages -> PageType]
    BY <1>5, PoolFields DEF PoolOK
  <2>4. \A q \in Pages : pool'.pg[q].use = P.pg[q].use
    BY <1>5, <1>10, <2>2, <2>3, EmptyPage
  <2>5. HandlesOK(pool'.pg, cell', loc')
    BY <1>8, <2>4, UseStays
  <2>6. PoolOK(pool', Nil, setup.faults)
    BY <1>4, <1>10, <2>2
  <2> QED
    BY <1>1, <1>9, <2>1, <2>5, <2>6, InvBetween
<1>11. CASE P.pg[fp].use # {} /\ pool' = P /\ UNCHANGED <<pc, fp>>
  <2>1. \A q \in Pages : q # d => P.pg[q].fl = pool.pg[q].fl /\ P.pg[q].fn = pool.pg[q].fn
    BY <1>5
  <2>2. RoomLeft(P.pg, fp)
    BY <1>2, <1>5, <1>6, <1>11, <2>1, RoomMoved
  <2>3. PoolOK(pool', Emptied', setup'.faults)
    BY <1>1, <1>4, <1>5, <1>11 DEF Emptied
  <2>4. Filling'
    BY <1>1, <1>5, <1>11, <2>2 DEF Filling
  <2>5. Settings'
    BY <1>1, <1>2, <1>11 DEF Settings
  <2> QED
    BY <1>1, <1>8, <1>11, <2>3, <2>4, <2>5 DEF ObjInv, HandlesInv
<1> QED
  BY <1>3, <1>10, <1>11 DEF MovesTo

\* Without a page to move to, only a wrap around can have promised the room.
LEMMA MoveWildInv ==
    ASSUME ObjInv, MoveWild, setup' = setup
    PROVE  Wrapped(pool.pg) /\ ObjInv'
<1>1. /\ pc = "move" /\ ~HasTarget /\ wild' = TRUE
      /\ UNCHANGED <<pool, cell, loc, rank, adapt, pc, fp, gc>>
  BY DEF MoveWild
<1>2. /\ Settings /\ PoolOK(pool, fp, setup.faults) /\ HandlesOK(pool.pg, cell, loc)
      /\ fp \in ToSet(pool.free) /\ RoomLeft(pool.pg, fp)
  BY <1>1 DEF ObjInv, HandlesInv, Emptied, Filling
<1>3. PICK faults : faults = setup.faults
  OBVIOUS
<1>4. pool.free \in Seq(Pages) /\ ToSet(pool.free) = {q \in Pages : pool.pg[q].fl # {}}
  BY <1>2, PoolFields DEF PoolOK, ListsOK
<1>5. fp \in Pages
  BY <1>2, <1>4
<1>6. ASSUME NEW q \in Pages, q # fp PROVE pool.pg[q].fl = {}
  <2>1. Len(pool.free) \in Nat /\ DOMAIN pool.free = 1..Len(pool.free) /\ ~(Len(pool.free) > 1)
    BY <1>1, <1>4, LenProperties DEF HasTarget
  <2>2. PICK i \in 1..Len(pool.free) : pool.free[i] = fp
    BY <1>2, <2>1 DEF ToSet
  <2>3. \A j \in 1..Len(pool.free) : j = i
    BY <2>1
  <2>4. q \notin ToSet(pool.free)
    BY <1>6, <2>1, <2>2, <2>3 DEF ToSet
  <2> QED
    BY <1>4, <1>6, <2>4
<1>7. Cardinality(Bytes(Freed(pool.pg, fp))) = 0
  <2>1. \A q \in Pages \ {fp} : Cardinality(pool.pg[q].fl) = 0
    BY <1>6, FS_EmptySet
  <2>2. Bytes(Freed(pool.pg, fp)) = {}
    BY <2>1 DEF Bytes, Freed
  <2> QED
    BY <2>2, FS_EmptySet
<1>8. Wrapped(pool.pg)
  <2>1. /\ IsFiniteSet(pool.pg[fp].use) /\ Cardinality(pool.pg[fp].use) \in Nat
    BY <1>2, <1>3, <1>5, PageNumbers
  <2>2. Cardinality(pool.pg[fp].use) # 0
    BY <1>2, <2>1, FS_EmptySet DEF RoomLeft
  <2> QED
    BY <1>2, <1>7, <2>1, <2>2 DEF RoomLeft
<1>9. PoolOK(pool', Emptied', setup'.faults)
  BY <1>1, <1>2 DEF Emptied
<1>10. Filling'
  BY <1>1, <1>2, <1>3, <1>8, WrappedByRefusal DEF Filling
<1>11. Settings'
  BY <1>1, <1>2 DEF Settings
<1> QED
  BY <1>1, <1>2, <1>8, <1>9, <1>10, <1>11 DEF ObjInv, HandlesInv

----------------------------------------------------------------------------
(* The theorems.                                                           *)

LEMMA ObjNext == ObjInv /\ [Next]_vars => ObjInv'
<1> SUFFICES ASSUME ObjInv, [Next]_vars PROVE ObjInv'
  OBVIOUS
<1>1. CASE UNCHANGED vars
  BY <1>1 DEF vars, ObjInv, HandlesInv, Settings, Emptied, Filling
<1>2. ASSUME NEW h \in Handles, Malloc(h) \/ Free(h), setup' = setup PROVE ObjInv'
  BY <1>2, MallocInv, FreeInv
<1>3. CASE MallocFails /\ setup' = setup
  BY <1>3, MallocFailsInv
<1>4. ASSUME NEW short \in BOOLEAN, Collect(short), setup' = setup PROVE ObjInv'
  BY <1>4, CollectInv
<1>5. CASE Fill /\ setup' = setup
  BY <1>5, FreeWholeInv, ScanAgainInv, ScanEndsInv, MoveInv, MoveWildInv DEF Fill
<1>6. CASE /\ (\E r \in setup.ranks : SetRank(r)) \/ (\E a \in setup.adapts : SetSa(a))
           /\ setup' = setup
  BY <1>6, SettingInv
<1> QED
  BY <1>1, <1>2, <1>3, <1>4, <1>5, <1>6 DEF Next

\* Through every call, failed call, pass and move: the pool, the handles and the pages
\* promised to be emptied are as they should be (czl_mm.c:786-1185).
THEOREM ObjInvHolds == Spec => []ObjInv
<1>1. Init => ObjInv
  BY ObjInit
<1>2. ObjInv /\ [Next]_vars => ObjInv'
  BY ObjNext
<1> QED
  BY <1>1, <1>2, PTL DEF Spec

\* Objects move between pages under the script's hands, and pages go: every handle still
\* points to the slot that points back to it, no slot is lost or in two places, and both
\* chains hold exactly the pages they should (czl_mm_malloc_heap, czl_mm_free_ov,
\* czl_mm_fill_heap, czl_mm_fill_page).  Handles dangle only of a page freed with objects,
\* which takes handles refused before.
THEOREM PoolExactHolds == Spec => []PoolExact
<1>1. ObjInv => PoolExact
  BY ObjFacts
<1> QED
  BY <1>1, ObjInvHolds, PTL

\* The counters kept by hand are right, and a page is emptied into slots that are there,
\* and freed without objects, unless a freeNum has wrapped around (czl_mm_fill_page).
THEOREM CountersExactHolds == Spec => CountersExact
<1> DEFINE Wraps == ~wild /\ wild' => \E p \in Pages : pool.pg[p].fn > Cardinality(pool.pg[p].fl)
<1>1. ObjInv => FreeNumExact /\ SumExact
  BY ObjFacts
<1>2. ASSUME ObjInv, Next PROVE Wraps
  <2>1. CASE FreeWhole
    BY <1>2, <2>1, FreeWholeInv DEF Next, Wrapped
  <2>2. CASE MoveWild
    BY <1>2, <2>2, MoveWildInv DEF Next, Wrapped
  <2>3. CASE ~FreeWhole /\ ~MoveWild
    <3>1. wild' = wild
      BY <1>2, <2>3 DEF Next, Malloc, Free, FreeOnRank, FreeInDonor, FreeEmptyDonor, FreeByDonor,
                        FillIfFragmented, MallocFails, Collect, Begin, Fill, ScanAgain, ScanEnds,
                        Move, SetRank, SetSa
    <3> QED
      BY <3>1
  <2> QED
    BY <2>1, <2>2, <2>3
<1>3. [][Next]_vars /\ []ObjInv => [][Wraps]_vars
  BY <1>2, PTL
<1> QED
  BY <1>1, <1>3, ObjInvHolds, PTL DEF Spec, CountersExact, WildOnlyAfterWrap

\* Every step of czl_mm_fill_page brings it nearer its end: a pass that starts again has
\* found a freer page, and every move leaves an object less to move.
THEOREM FillDescendsHolds == Spec => FillDescends
<1> DEFINE Descends ==
      (pc # "idle" /\ pc' # "idle" /\ ~wild') =>
        \/ pc = "scan" /\ pc' = "scan" /\ pool.pg[fp'].fn > pool.pg[fp].fn
        \/ pc = "scan" /\ pc' = "move" /\ fp' = fp
        \/ /\ pc = "move" /\ pc' = "move" /\ fp' = fp
           /\ Cardinality(pool'.pg[fp].use) < Cardinality(pool.pg[fp].use)
<1>1. ASSUME ObjInv, Next PROVE Descends
  <2> SUFFICES ASSUME pc # "idle", pc' # "idle", ~wild' PROVE Descends
    OBVIOUS
  <2>1. CASE ScanAgain
    <3>1. pc = "scan" /\ pc' = "scan" /\ fp' = Others[Min(Freer)] /\ Freer # {}
      BY <2>1 DEF ScanAgain
    <3>2. PoolOK(pool, Nil, setup.faults) /\ fp \in ToSet(pool.free)
      BY <1>1, <3>1 DEF ObjInv, Emptied, Filling
    <3>3. Freer \subseteq Nat
      BY <3>2, OthersListed DEF Freer, Looked
    <3>4. Min(Freer) \in Freer
      BY <3>1, <3>3, MinInSet
    <3>5. FreeNum(Min(Freer)) > pool.pg[fp].fn
      BY <3>4 DEF Freer
    <3> QED
      BY <3>1, <3>5 DEF FreeNum
  <2>2. CASE ScanEnds
    BY <2>2 DEF ScanEnds, Done
  <2>3. CASE Move
    <3>1. pc = "move" /\ HasTarget
      BY <2>3 DEF Move
    <3>2. PoolOK(pool, fp, setup.faults) /\ fp \in ToSet(pool.free)
      BY <1>1, <3>1 DEF ObjInv, Emptied, Filling
    <3>3. PICK d, t, s, P : MovesTo(d, t, s, P)
      BY <2>3 DEF Move, MovesTo
    <3>4. pool' = P /\ pc' = pc /\ fp' = fp /\ t \in pool.pg[fp].use
      BY <3>3 DEF MovesTo, Done
    <3>5. PICK faults : faults = setup.faults
      OBVIOUS
    <3>6. fp \in Pages /\ P.pg[fp].use = pool.pg[fp].use \ {t}
      BY <3>1, <3>2, <3>3, <3>5, AfterMove
    <3>7. PICK U : U = pool.pg[fp].use
      OBVIOUS
    <3>8. IsFiniteSet(U) /\ Cardinality(U) \in Nat
      BY <3>2, <3>5, <3>6, <3>7, PageNumbers
    <3>9. Cardinality(U \ {t}) = Cardinality(U) - 1
      BY <3>4, <3>7, <3>8, FS_RemoveElement
    <3>10. Cardinality(pool'.pg[fp].use) < Cardinality(pool.pg[fp].use)
      BY <3>4, <3>6, <3>7, <3>8, <3>9
    <3> QED
      BY <3>1, <3>4, <3>10
  <2>4. CASE MoveWild \/ FreeWhole
    BY <2>4 DEF MoveWild, FreeWhole, Done
  <2>5. ~Idle
    BY DEF Idle
  <2>6. Fill
    BY <1>1, <2>5 DEF Next, Malloc, Free, MallocFails, Collect, Begin, SetRank, SetSa
  <2> QED
    BY <2>1, <2>2, <2>3, <2>4, <2>6 DEF Fill
<1>2. [][Next]_vars /\ []ObjInv => [][Descends]_vars
  BY <1>1, PTL
<1> QED
  BY <1>2, ObjInvHolds, PTL DEF Spec, FillDescends

=============================================================================
