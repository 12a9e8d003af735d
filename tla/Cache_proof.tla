------------------------------ MODULE Cache_proof ------------------------------
(***************************************************************************)
(* Proofs about Cache, for any blocks, sizes, size classes and limits.     *)
(***************************************************************************)
EXTENDS Cache, ChainLemmas

\* The class of a size is one of the cache, and the size is in its range.
LEMMA IndexInRange ==
    ASSUME NEW size \in Nat, Cacheable(size)
    PROVE  /\ Index(size) \in Classed
           /\ Index(size) * Gap < size /\ size <= Room(Index(size))
<1>1. Gap \in Nat /\ Gap > 0 /\ Classes \in Nat /\ size \in Nat /\ size > 0 /\ size <= Classes * Gap
  BY SizeAssumption DEF Cacheable
<1> DEFINE q == (size - 1) \div Gap
           r == (size - 1) % Gap
<1>2. q \in Int /\ r \in Int /\ 0 <= r /\ r < Gap /\ size - 1 = Gap * q + r
  BY <1>1
<1> HIDE DEF q, r
<1>3. q * Gap < size /\ size <= (q + 1) * Gap
  BY <1>1, <1>2
<1>4. \A m, n, k \in Int : k > 0 /\ m >= n => m * k >= n * k
  OBVIOUS
<1>5. q >= 0
  <2>1. SUFFICES ASSUME 0 >= q + 1
                 PROVE  FALSE
    BY <1>2
  <2>2. 0 * Gap >= (q + 1) * Gap
    BY <1>1, <1>2, <1>4, <2>1
  <2> QED
    BY <1>1, <1>2, <1>3, <2>2
<1>6. q < Classes
  <2>1. SUFFICES ASSUME q >= Classes
                 PROVE  FALSE
    BY <1>1, <1>2
  <2>2. q * Gap >= Classes * Gap
    BY <1>1, <1>2, <1>4, <2>1
  <2> QED
    BY <1>1, <1>2, <1>3, <2>2
<1> QED
  BY <1>1, <1>2, <1>3, <1>5, <1>6 DEF Index, q, Room, Classed

----------------------------------------------------------------------------
(* The inductive invariant.                                                *)

\* A node is on the chain of its class only, and once.
Separate == \A i \in Classed : /\ IsInjective(chain[i])
                               /\ \A b \in ToSet(chain[i]) : class[b] = i

\* Busy nodes are those the interpreter holds; they are on the chains, and what it
\* holds elsewhere is not.
BusyHeld == /\ busy = {b \in Nodes : held[b].in = "cache"}
            /\ busy \subseteq Resident
            /\ \A b \in Resident : held[b].in \in {"none", "cache"}

\* Behind a busy node are busy ones.  That a free node has no busy one right
\* before it, which is all czl_mm_cache_free looks at, is not enough to take a
\* node out of the middle.
BusyLast == \A i \in Classed : \A x, y :
    Before(chain[i], x, y) /\ x \in busy => y \in busy

\* The counts, of what occupies finitely many bytes.
CountInv == /\ IsFiniteSet(Bytes(NodeSizes)) /\ IsFiniteSet(Bytes(SysSizes))
            /\ CountsExact

NodesInv == TypeOK /\ Separate /\ BusyHeld /\ BusyLast /\ RoomEnough
CacheInv == NodesInv /\ CountInv

----------------------------------------------------------------------------
(* Chains one at a time.                                                   *)

\* What is on a chain is a node.
LEMMA OnChain ==
    ASSUME TypeOK, NEW i \in Classed
    PROVE  /\ chain[i] \in Seq(Nodes) /\ ToSet(chain[i]) \subseteq Nodes
           /\ ToSet(chain[i]) \subseteq Resident /\ Resident \subseteq Nodes
<1>1. \A j \in Classed : chain[j] \in Seq(Nodes)
  BY DEF TypeOK
<1>2. \A j \in Classed : ToSet(chain[j]) \subseteq Nodes
  BY <1>1, ElementOfSeq, LenProperties DEF ToSet
<1> QED
  BY <1>1, <1>2 DEF Resident

\* A call that changes one chain at most.
LEMMA OneChain ==
    ASSUME TypeOK, NEW i \in Classed, NEW c \in Seq(Nodes), chain' = [chain EXCEPT ![i] = c]
    PROVE  /\ chain' \in [Classed -> Seq(Nodes)]
           /\ chain'[i] = c /\ \A j \in Classed : j # i => chain'[j] = chain[j]
           /\ Resident' = ToSet(c) \cup UNION {ToSet(chain[j]) : j \in Classed \ {i}}
           /\ Resident = ToSet(chain[i]) \cup UNION {ToSet(chain[j]) : j \in Classed \ {i}}
<1>1. /\ chain' \in [Classed -> Seq(Nodes)]
      /\ chain'[i] = c /\ \A j \in Classed : j # i => chain'[j] = chain[j]
  BY DEF TypeOK
<1>2. Resident = ToSet(chain[i]) \cup UNION {ToSet(chain[j]) : j \in Classed \ {i}}
  BY DEF Resident
<1>3. Resident' = ToSet(chain'[i]) \cup UNION {ToSet(chain'[j]) : j \in Classed \ {i}}
  BY DEF Resident
<1>4. Resident' = ToSet(c) \cup UNION {ToSet(chain[j]) : j \in Classed \ {i}}
  BY <1>1, <1>3
<1> QED
  BY <1>1, <1>2, <1>4

\* The node at the head of a chain with a free one.
LEMMA FreeHead ==
    ASSUME NodesInv, NEW i \in Classed, HasFree(i)
    PROVE  /\ chain[i] # <<>> /\ Head(chain[i]) \in ToSet(chain[i])
           /\ Head(chain[i]) \in Nodes \ busy /\ held[Head(chain[i])].in = "none"
           /\ class[Head(chain[i])] = i
<1>1. chain[i] \in Seq(Nodes) /\ chain[i] # <<>> /\ Head(chain[i]) \notin busy
  BY OnChain DEF HasFree, NodesInv
<1>2. Head(chain[i]) \in ToSet(chain[i])
  BY <1>1, HeadIsFirst
<1>3. ToSet(chain[i]) \subseteq Nodes /\ ToSet(chain[i]) \subseteq Resident
  BY OnChain DEF NodesInv
<1>4. held[Head(chain[i])].in = "none"
  BY <1>1, <1>2, <1>3 DEF NodesInv, BusyHeld
<1> QED
  BY <1>1, <1>2, <1>3, <1>4 DEF NodesInv, Separate

\* The same chains with the same nodes busy.
LEMMA ChainsKept ==
    ASSUME Separate, BusyLast, UNCHANGED <<chain, busy, class>>
    PROVE  Separate' /\ BusyLast'
BY DEF Separate, BusyLast

\* What the nodes occupy stays if the chains hold the same nodes.
LEMMA NodeSizesKept ==
    ASSUME Resident' = Resident, class' = class
    PROVE  NodeSizes' = NodeSizes
BY DEF NodeSizes, NodeSize, Room

\* What the system blocks occupy stays if the same ones are held.
LEMMA SysSizesKept ==
    ASSUME \A b \in Nodes : held'[b].in = "sys" <=> held[b].in = "sys",
           \A b \in Nodes : held[b].in = "sys" => held'[b].size = held[b].size
    PROVE  SysSizes' = SysSizes
BY DEF SysSizes

\* The sizes in the counts are natural numbers.
LEMMA SizesNat ==
    /\ NodeHead \in Nat /\ PoolsSize \in Nat /\ Limit \in Nat
    /\ \A i \in Classed : NodeSize(i) \in Nat /\ Room(i) \in Nat
<1>1. Gap \in Nat /\ NodeHead \in Nat /\ PoolsSize \in Nat /\ Limit \in Nat /\ Classed \subseteq Nat
  BY SizeAssumption DEF Classed
<1>2. \A i \in Nat : (i + 1) * Gap \in Nat
  BY <1>1
<1> QED
  BY <1>1, <1>2 DEF NodeSize, Room

\* What is held, and how a block comes to be held otherwise.
Holding == [in : {"none", "cache", "sys", "page"}, size : Nat]

LEMMA HeldBecomes ==
    ASSUME TypeOK, NEW b \in Nodes, NEW w \in {"none", "cache", "sys", "page"}, NEW size \in Nat,
           held' = [held EXCEPT ![b] = [in |-> w, size |-> size]]
    PROVE  /\ held' \in [Nodes -> Holding]
           /\ held'[b].in = w /\ held'[b].size = size
           /\ \A c \in Nodes : c # b => held'[c] = held[c]
<1>1. held \in [Nodes -> Holding]
  BY DEF TypeOK, Holding
<1>2. [in |-> w, size |-> size] \in Holding
  BY DEF Holding
<1> QED
  BY <1>1, <1>2

\* A block that is given another size is held where it was.
LEMMA HeldResized ==
    ASSUME TypeOK, NEW b \in Nodes, NEW size \in Nat, held' = [held EXCEPT ![b].size = size]
    PROVE  /\ held' \in [Nodes -> Holding]
           /\ held'[b].in = held[b].in /\ held'[b].size = size
           /\ \A c \in Nodes : c # b => held'[c] = held[c]
<1>1. held \in [Nodes -> Holding]
  BY DEF TypeOK, Holding
<1>2. held[b] \in Holding
  BY <1>1
<1>3. [held[b] EXCEPT !.size = size] = [in |-> held[b].in, size |-> size]
  BY <1>2 DEF Holding
<1>4. held' = [held EXCEPT ![b] = [in |-> held[b].in, size |-> size]]
  BY <1>1, <1>3
<1>5. held[b].in \in {"none", "cache", "sys", "page"}
  BY <1>2 DEF Holding
<1> QED
  BY <1>4, <1>5, HeldBecomes

\* A block that is not used is neither held nor on a chain.
LEMMA UnusedBlock ==
    ASSUME NEW b \in Unused
    PROVE  b \in Nodes /\ held[b].in = "none" /\ b \notin Resident
BY DEF Unused, NoBlock, Resident

\* Counts that are right are natural numbers.
LEMMA CountsNat ==
    ASSUME CountInv
    PROVE  /\ count \in Nat /\ cnt \in Nat
           /\ Cardinality(Bytes(NodeSizes)) \in Nat /\ Cardinality(Bytes(SysSizes)) \in Nat
<1>1. Cardinality(Bytes(NodeSizes)) \in Nat /\ Cardinality(Bytes(SysSizes)) \in Nat
  BY FS_CardinalityType DEF CountInv
<1>2. (IF ready THEN PoolsSize ELSE 0) \in Nat
  BY SizesNat
<1> QED
  BY <1>1, <1>2 DEF CountInv, CountsExact

\* The types, when the counts are right.
LEMMA TypesNext ==
    ASSUME chain' \in [Classed -> Seq(Nodes)], busy' \subseteq Nodes, class' \in [Nodes -> Classed],
           held' \in [Nodes -> Holding], ready' \in BOOLEAN, wild' \in BOOLEAN,
           cacheSize' \in Nat, CountInv'
    PROVE  TypeOK'
<1>1. count' \in Nat /\ cnt' \in Nat
  BY SizesNat, FS_CardinalityType DEF CountInv, CountsExact
<1> QED
  BY <1>1 DEF TypeOK, Holding

----------------------------------------------------------------------------
(* The calls that leave the chains alone.                                  *)

\* The nodes, when no chain changes and what is held elsewhere is on none.
LEMMA NodesStay ==
    ASSUME CacheInv, UNCHANGED <<chain, busy, class>>,
           held' \in [Nodes -> Holding], ready' \in BOOLEAN, wild' \in BOOLEAN,
           cacheSize' \in Nat, CountInv',
           \A b \in Nodes : held'[b].in = "cache" <=> held[b].in = "cache",
           \A b \in Resident : held[b].in = "none" => held'[b].in = "none",
           \A b \in Nodes : held'[b].in = "cache" => held'[b].size <= (class[b] + 1) * Gap
    PROVE  NodesInv'
<1>1. Separate' /\ BusyLast' /\ Resident' = Resident
  BY ChainsKept DEF CacheInv, NodesInv, Resident
<1>2. TypeOK'
  BY TypesNext DEF CacheInv, NodesInv, TypeOK
<1>3. BusyHeld'
  <2>1. Resident \subseteq Nodes
    BY OnChain DEF CacheInv, NodesInv, Resident
  <2> QED
    BY <1>1, <2>1 DEF CacheInv, NodesInv, BusyHeld
<1>4. RoomEnough'
  BY DEF RoomEnough
<1> QED
  BY <1>1, <1>2, <1>3, <1>4 DEF NodesInv

\* A system block more; the array of size classes may be made with it.
LEMMA SysAllocInv ==
    ASSUME CacheInv, NEW size \in Nat, NEW b \in Nodes, SysAlloc(size, b)
    PROVE  CacheInv'
<1>0. TypeOK /\ NodesInv /\ CountInv
  BY DEF CacheInv, NodesInv
<1>1. /\ b \in Unused /\ held' = [held EXCEPT ![b] = [in |-> "sys", size |-> size]]
      /\ UNCHANGED <<chain, busy, class, count, cacheSize, wild>>
      /\ ready' \in BOOLEAN
      /\ cnt' = cnt + (IF ready' /\ ~ready THEN PoolsSize ELSE 0) + NodeHead + size
  <2>1. ready \in BOOLEAN /\ cnt \in Nat
    BY <1>0 DEF TypeOK
  <2>2. PICK cached \in BOOLEAN :
            /\ ready' = (ready \/ cached)
            /\ cnt' = cnt + (IF cached THEN PoolsCost ELSE 0) + NodeHead + size
    BY DEF SysAlloc
  <2>3. (IF cached THEN PoolsCost ELSE 0) = IF ready' /\ ~ready THEN PoolsSize ELSE 0
    BY <2>1, <2>2 DEF PoolsCost
  <2> QED
    BY <2>1, <2>2, <2>3 DEF SysAlloc
<1>2. held[b].in = "none" /\ b \notin Resident
  BY <1>1, UnusedBlock
<1>3. /\ held' \in [Nodes -> Holding] /\ held'[b].in = "sys" /\ held'[b].size = size
      /\ \A c \in Nodes : c # b => held'[c] = held[c]
  BY <1>0, <1>1, HeldBecomes
<1>4. Grown(SysSizes, SysSizes', b) /\ SysSizes'[b] = NodeHead + size
  BY <1>2, <1>3, SizesNat DEF SysSizes, Grown
<1>5. /\ IsFiniteSet(Bytes(SysSizes'))
      /\ Cardinality(Bytes(SysSizes')) = Cardinality(Bytes(SysSizes)) + (NodeHead + size)
  BY <1>0, <1>4, BytesGrow DEF CountInv
<1>6. NodeSizes' = NodeSizes
  BY <1>1, NodeSizesKept DEF Resident
<1>7. CountInv'
  <2> DEFINE old == IF ready THEN PoolsSize ELSE 0
             new == IF ready' THEN PoolsSize ELSE 0
             made == IF ready' /\ ~ready THEN PoolsSize ELSE 0
  <2>1. cnt = count + old + Cardinality(Bytes(SysSizes)) /\ cnt' = cnt + made + NodeHead + size
    BY <1>0, <1>1 DEF CountInv, CountsExact
  <2>2. old + made = new /\ old \in Nat /\ made \in Nat
    <3>1. ready => ready'
      BY DEF SysAlloc
    <3> QED
      BY <3>1, SizesNat
  <2>3. cnt' = count' + new + Cardinality(Bytes(SysSizes'))
    <3> HIDE DEF old, new, made
    <3>1. count \in Nat /\ Cardinality(Bytes(SysSizes)) \in Nat /\ NodeHead \in Nat /\ count' = count
      BY <1>0, <1>1, CountsNat, SizesNat
    <3> QED
      BY <1>5, <2>1, <2>2, <3>1
  <2> QED
    BY <1>0, <1>1, <1>5, <1>6, <2>3 DEF CountInv, CountsExact
<1>8. NodesInv'
  BY <1>0, <1>1, <1>2, <1>3, <1>7, NodesStay DEF TypeOK, NodesInv, RoomEnough
<1> QED
  BY <1>7, <1>8 DEF CacheInv

\* The counts, when no node and no system block changes.
LEMMA CountsStay ==
    ASSUME CountInv, Resident' = Resident, class' = class, SysSizes' = SysSizes,
           UNCHANGED <<count, ready, cnt>>
    PROVE  CountInv'
BY NodeSizesKept DEF CountInv, CountsExact

\* The array of size classes may have been made when the block was refused.
LEMMA AllocFailsInv ==
    ASSUME CacheInv, NEW size \in Nat, AllocFails(size)
    PROVE  CacheInv'
<1>0. TypeOK /\ NodesInv /\ CountInv
  BY DEF CacheInv, NodesInv
<1>1. /\ UNCHANGED <<chain, busy, class, held, count, cacheSize, wild>>
      /\ \/ ready' = TRUE /\ cnt' = cnt + PoolsCost
         \/ UNCHANGED <<ready, cnt>>
  BY DEF AllocFails
<1>2. NodeSizes' = NodeSizes /\ SysSizes' = SysSizes
  BY <1>1, NodeSizesKept DEF Resident, SysSizes
<1>3. CountInv'
  <2>1. cnt = count + (IF ready THEN PoolsSize ELSE 0) + Cardinality(Bytes(SysSizes))
    BY <1>0 DEF CountInv, CountsExact
  <2>2. cnt' = count + (IF ready' THEN PoolsSize ELSE 0) + Cardinality(Bytes(SysSizes))
    <3>1. CASE ready
      <4>1. ready' /\ cnt' = cnt
        <5>1. PoolsCost = 0 /\ cnt \in Nat
          BY <1>0, <3>1, CountsNat DEF PoolsCost
        <5>2. ready'
          BY <1>1, <3>1, Zenon
        <5>3. cnt' = cnt
          <6>1. cnt + 0 = cnt
            BY <5>1
          <6> QED
            BY <1>1, <5>1, <6>1
        <5> QED
          BY <5>2, <5>3
      <4> QED
        BY <2>1, <3>1, <4>1
    <3>2. CASE ~ready
      <4>1. /\ count \in Nat /\ Cardinality(Bytes(SysSizes)) \in Nat
            /\ cnt = count + Cardinality(Bytes(SysSizes)) /\ PoolsSize \in Nat /\ PoolsCost = PoolsSize
        BY <1>0, <2>1, <3>2, CountsNat, SizesNat DEF PoolsCost
      <4>2. CASE ready' = TRUE /\ cnt' = cnt + PoolsCost
        BY <4>1, <4>2
      <4>3. CASE UNCHANGED <<ready, cnt>>
        BY <3>2, <4>1, <4>3
      <4> QED
        BY <1>1, <4>2, <4>3
    <3> QED
      BY <3>1, <3>2
  <2> QED
    BY <1>0, <1>1, <1>2, <2>2 DEF CountInv, CountsExact
<1>4. NodesInv'
  BY <1>0, <1>1, <1>3, NodesStay DEF TypeOK, Holding, NodesInv, RoomEnough
<1> QED
  BY <1>3, <1>4 DEF CacheInv

\* A page slot is no node and no system block.
LEMMA PageAllocInv ==
    ASSUME CacheInv, NEW b \in Nodes, PageAlloc(b)
    PROVE  CacheInv'
<1>0. TypeOK /\ NodesInv /\ CountInv
  BY DEF CacheInv, NodesInv
<1>1. /\ b \in Unused /\ held' = [held EXCEPT ![b] = [in |-> "page", size |-> 0]]
      /\ UNCHANGED <<chain, busy, class, ready, count, cnt, cacheSize, wild>>
  BY DEF PageAlloc
<1>2. held[b].in = "none" /\ b \notin Resident
  BY <1>1, UnusedBlock
<1>3. /\ held' \in [Nodes -> Holding] /\ held'[b].in = "page"
      /\ \A c \in Nodes : c # b => held'[c] = held[c]
  BY <1>0, <1>1, HeldBecomes
<1>4. SysSizes' = SysSizes
  BY <1>2, <1>3, SysSizesKept
<1>5. CountInv'
  BY <1>0, <1>1, <1>4, CountsStay DEF Resident
<1>6. NodesInv'
  BY <1>0, <1>1, <1>2, <1>3, <1>5, NodesStay DEF TypeOK, NodesInv, RoomEnough
<1> QED
  BY <1>5, <1>6 DEF CacheInv

\* A node that is kept has room for the size it is given.
LEMMA KeepBlockInv ==
    ASSUME CacheInv, NEW size \in Nat, NEW b \in Nodes, KeepBlock(b, size)
    PROVE  CacheInv'
<1>0. TypeOK /\ NodesInv /\ CountInv
  BY DEF CacheInv, NodesInv
<1>1. /\ held[b].in = "cache" /\ size <= (class[b] + 1) * Gap
      /\ held' = [held EXCEPT ![b].size = size]
      /\ UNCHANGED <<chain, busy, class, ready, count, cnt, cacheSize, wild>>
  BY DEF KeepBlock, Kept, Room
<1>2. /\ held' \in [Nodes -> Holding] /\ held'[b].in = held[b].in /\ held'[b].size = size
      /\ \A c \in Nodes : c # b => held'[c] = held[c]
  BY <1>0, <1>1, HeldResized
<1>3. \A c \in Nodes : held'[c].in = held[c].in
  BY <1>2
<1>4. \A c \in Nodes : held[c].in = "sys" => held'[c].size = held[c].size
  BY <1>1, <1>2
<1>5. CountInv'
  BY <1>0, <1>1, <1>3, <1>4, SysSizesKept, CountsStay DEF Resident
<1>6. \A c \in Nodes : held'[c].in = "cache" => held'[c].size <= (class[c] + 1) * Gap
  BY <1>0, <1>1, <1>2 DEF NodesInv, RoomEnough
<1>7. Resident \subseteq Nodes
  BY <1>0, OnChain DEF Resident
<1>8. NodesInv'
  BY <1>0, <1>1, <1>2, <1>3, <1>5, <1>6, <1>7, NodesStay DEF TypeOK
<1> QED
  BY <1>5, <1>8 DEF CacheInv

\* A system block that is resized occupies its new size instead of the old one.
LEMMA SysReallocInv ==
    ASSUME CacheInv, NEW size \in Nat, NEW b \in Nodes, SysRealloc(b, size)
    PROVE  CacheInv'
<1>0. TypeOK /\ NodesInv /\ CountInv
  BY DEF CacheInv, NodesInv
<1>1. /\ held[b].in = "sys" /\ cnt' = cnt + (size - held[b].size)
      /\ held' = [held EXCEPT ![b].size = size]
      /\ UNCHANGED <<chain, busy, class, ready, count, cacheSize, wild>>
  BY DEF SysRealloc
<1>2. /\ held' \in [Nodes -> Holding] /\ held'[b].in = held[b].in /\ held'[b].size = size
      /\ \A c \in Nodes : c # b => held'[c] = held[c]
  BY <1>0, <1>1, HeldResized
<1>3. \A c \in Nodes : held'[c].in = held[c].in
  BY <1>2
<1>4. held[b].size \in Nat
  BY <1>0 DEF TypeOK
<1>5. /\ b \in DOMAIN SysSizes /\ DOMAIN SysSizes' = DOMAIN SysSizes
      /\ SysSizes[b] = NodeHead + held[b].size /\ SysSizes'[b] = NodeHead + size
      /\ \A c \in DOMAIN SysSizes \ {b} : SysSizes'[c] = SysSizes[c]
  BY <1>1, <1>2, <1>3 DEF SysSizes
<1>6. /\ IsFiniteSet(Bytes(SysSizes'))
      /\ Cardinality(Bytes(SysSizes'))
            = Cardinality(Bytes(SysSizes)) - (NodeHead + held[b].size) + (NodeHead + size)
  <2>1. SysSizes[b] \in Nat /\ SysSizes'[b] \in Nat
    BY <1>4, <1>5, SizesNat
  <2>2. IsFiniteSet(Bytes(SysSizes))
    BY <1>0 DEF CountInv
  <2>3. PICK g : g = SysSizes'
    OBVIOUS
  <2>4. /\ IsFiniteSet(Bytes(g))
        /\ Cardinality(Bytes(g)) = Cardinality(Bytes(SysSizes)) - SysSizes[b] + g[b]
    BY <1>5, <2>1, <2>2, <2>3, BytesResize
  <2> QED
    BY <1>5, <2>3, <2>4
<1>7. NodeSizes' = NodeSizes
  BY <1>1, NodeSizesKept DEF Resident
<1>8. CountInv'
  <2> DEFINE pools == IF ready THEN PoolsSize ELSE 0
  <2>1. cnt = count + pools + Cardinality(Bytes(SysSizes)) /\ pools \in Nat
    BY <1>0, SizesNat DEF CountInv, CountsExact
  <2>2. cnt' = count + pools + Cardinality(Bytes(SysSizes'))
    <3> HIDE DEF pools
    <3>1. count \in Nat /\ Cardinality(Bytes(SysSizes)) \in Nat /\ NodeHead \in Nat
      BY <1>0, CountsNat, SizesNat
    <3> QED
      BY <1>1, <1>4, <1>6, <2>1, <3>1
  <2> QED
    BY <1>0, <1>1, <1>6, <1>7, <2>2 DEF CountInv, CountsExact
<1>9. NodesInv'
  <2>1. Resident \subseteq Nodes
    BY <1>0, OnChain DEF Resident
  <2>2. \A c \in Nodes : held'[c].in = "cache" => held'[c].size <= (class[c] + 1) * Gap
    BY <1>0, <1>1, <1>2 DEF NodesInv, RoomEnough
  <2> QED
    BY <1>0, <1>1, <1>2, <1>3, <1>8, <2>1, <2>2, NodesStay DEF TypeOK
<1> QED
  BY <1>8, <1>9 DEF CacheInv

\* A slot that is kept too small, the size of the cache, and a step of others.
LEMMA OthersInv ==
    ASSUME CacheInv, UNCHANGED <<chain, busy, class, held, ready, count, cnt>>,
           wild' \in BOOLEAN, cacheSize' \in Nat
    PROVE  CacheInv'
<1>0. TypeOK /\ NodesInv /\ CountInv
  BY DEF CacheInv, NodesInv
<1>1. CountInv'
  BY <1>0, CountsStay DEF Resident, SysSizes
<1>2. NodesInv'
  BY <1>0, <1>1, NodesStay DEF TypeOK, Holding, NodesInv, RoomEnough
<1> QED
  BY <1>1, <1>2 DEF CacheInv

----------------------------------------------------------------------------
(* The calls that change a chain.                                          *)

\* A chain whose nodes stay, in whatever order, keeps the nodes apart.
LEMMA SeparateStays ==
    ASSUME NodesInv, NEW i \in Classed, NEW c \in Seq(Nodes), IsInjective(c),
           ToSet(c) = ToSet(chain[i]), chain' = [chain EXCEPT ![i] = c], class' = class
    PROVE  /\ chain' \in [Classed -> Seq(Nodes)] /\ Separate' /\ Resident' = Resident
           /\ chain'[i] = c /\ \A j \in Classed : j # i => chain'[j] = chain[j]
<1>1. /\ chain' \in [Classed -> Seq(Nodes)] /\ Resident' = Resident
      /\ chain'[i] = c /\ \A j \in Classed : j # i => chain'[j] = chain[j]
  <2>1. TypeOK
    BY DEF NodesInv
  <2>2. /\ chain' \in [Classed -> Seq(Nodes)]
        /\ chain'[i] = c /\ \A j \in Classed : j # i => chain'[j] = chain[j]
    BY <2>1, OneChain
  <2>3. Resident' = Resident
    <3>1. /\ Resident' = ToSet(c) \cup UNION {ToSet(chain[j]) : j \in Classed \ {i}}
          /\ Resident = ToSet(chain[i]) \cup UNION {ToSet(chain[j]) : j \in Classed \ {i}}
      BY <2>1, OneChain
    <3>2. Resident' = ToSet(chain[i]) \cup UNION {ToSet(chain[j]) : j \in Classed \ {i}}
      BY <3>1
    <3> QED
      BY <3>1, <3>2
  <2> QED
    BY <2>2, <2>3
<1>2. Separate'
  <2>0. ToSet(chain[i]) = ToSet(c) /\ Separate
    BY DEF NodesInv
  <2> SUFFICES ASSUME NEW j \in Classed
               PROVE  IsInjective(chain'[j]) /\ \A d \in ToSet(chain'[j]) : class'[d] = j
    BY DEF Separate
  <2>1. CASE j = i
    BY <1>1, <2>0, <2>1 DEF Separate
  <2>2. CASE j # i
    BY <1>1, <2>0, <2>2 DEF Separate
  <2> QED
    BY <2>1, <2>2
<1> QED
  BY <1>1, <1>2

\* The node is taken from the head and put behind the others, which as a busy one
\* it may be behind.
LEMMA TakeNodeInv ==
    ASSUME CacheInv, NEW size \in Nat, TakeNode(size)
    PROVE  CacheInv'
<1>0. TypeOK /\ NodesInv /\ CountInv /\ Separate /\ BusyHeld /\ BusyLast
  BY DEF CacheInv, NodesInv
<1>1. PICK i \in Classed : i = Index(size) /\ size <= (i + 1) * Gap /\ HasFree(i)
  BY IndexInRange DEF TakeNode, Room
<1>2. PICK b \in Nodes : /\ b = Head(chain[i]) /\ b \in ToSet(chain[i]) /\ b \notin busy
                         /\ held[b].in = "none" /\ class[b] = i /\ chain[i] # <<>>
  BY <1>0, <1>1, FreeHead
<1>3. PICK c : c = Append(Tail(chain[i]), b)
  OBVIOUS
<1>4. /\ chain' = [chain EXCEPT ![i] = c] /\ busy' = busy \cup {b}
      /\ held' = [held EXCEPT ![b] = [in |-> "cache", size |-> size]]
      /\ UNCHANGED <<class, ready, count, cnt, cacheSize, wild>>
  BY <1>1, <1>2, <1>3 DEF TakeNode, TakenFrom
<1>5. /\ c \in Seq(Nodes) /\ IsInjective(c) /\ ToSet(c) = ToSet(chain[i])
      /\ \A x, y : Before(c, x, y) => y = b \/ (x # b /\ Before(chain[i], x, y))
  <2>1. chain[i] \in Seq(Nodes) /\ IsInjective(chain[i])
    BY <1>0 DEF TypeOK, Separate
  <2>2. /\ Tail(chain[i]) \in Seq(Nodes) /\ IsInjective(Tail(chain[i]))
        /\ ToSet(Tail(chain[i])) = ToSet(chain[i]) \ {b}
    BY <1>2, <2>1, TailProperties
  <2>3. \A x, y : Before(Tail(chain[i]), x, y) => x # b /\ Before(chain[i], x, y)
    BY <1>2, <2>1, <2>2, TailOrder, OrderIsTotal
  <2>4. /\ c \in Seq(Nodes) /\ ToSet(c) = ToSet(Tail(chain[i])) \cup {b}
        /\ IsInjective(c)
        /\ \A x, y : Before(c, x, y) => Before(Tail(chain[i]), x, y) \/ y = b
    <3>1. PICK r : r = Tail(chain[i])
      OBVIOUS
    <3>2. r \in Seq(Nodes) /\ IsInjective(r) /\ b \notin ToSet(r)
      BY <2>2, <3>1
    <3>3. c = Append(r, b)
      BY <1>3, <3>1
    <3>4. /\ Append(r, b) \in Seq(Nodes) /\ ToSet(Append(r, b)) = ToSet(r) \cup {b}
          /\ IsInjective(Append(r, b))
          /\ \A x, y : Before(Append(r, b), x, y) => Before(r, x, y) \/ y = b
      BY <3>2, AppendChain
    <3> QED
      BY <3>1, <3>3, <3>4
  <2> QED
    BY <1>2, <2>2, <2>3, <2>4
<1>6. /\ chain' \in [Classed -> Seq(Nodes)] /\ Separate' /\ Resident' = Resident
      /\ chain'[i] = c /\ \A j \in Classed : j # i => chain'[j] = chain[j]
  BY <1>0, <1>4, <1>5, SeparateStays
<1>7. /\ held' \in [Nodes -> Holding] /\ held'[b].in = "cache" /\ held'[b].size = size
      /\ \A d \in Nodes : d # b => held'[d] = held[d]
  BY <1>0, <1>4, HeldBecomes
<1>8. CountInv'
  <2>1. SysSizes' = SysSizes
    BY <1>2, <1>7, SysSizesKept
  <2> QED
    BY <1>0, <1>4, <1>6, <2>1, CountsStay
<1>9. BusyHeld'
  <2>1. busy' = {d \in Nodes : held'[d].in = "cache"}
    BY <1>0, <1>4, <1>7 DEF BusyHeld
  <2>2. b \in Resident /\ Resident \subseteq Nodes
    BY <1>0, <1>2, OnChain DEF Resident
  <2>3. busy' \subseteq Resident /\ \A d \in Resident : held'[d].in \in {"none", "cache"}
    BY <1>0, <1>4, <1>7, <2>2 DEF BusyHeld
  <2> QED
    BY <1>6, <2>1, <2>3 DEF BusyHeld
<1>10. BusyLast'
  <2> SUFFICES ASSUME NEW j \in Classed, NEW x, NEW y, Before(chain'[j], x, y), x \in busy'
               PROVE  y \in busy'
    BY DEF BusyLast
  <2>1. CASE j = i
    <3>1. y = b \/ (x # b /\ Before(chain[i], x, y))
      BY <1>5, <1>6, <2>1
    <3> QED
      BY <1>0, <1>4, <3>1 DEF BusyLast
  <2>2. CASE j # i
    <3>1. Before(chain[j], x, y)
      BY <1>6, <2>2
    <3>2. x \in ToSet(chain[j])
      BY <1>0, <3>1, OrderIsTotal DEF TypeOK, Separate
    <3>3. x # b
      BY <1>0, <1>2, <2>2, <3>2 DEF Separate
    <3> QED
      BY <1>0, <1>4, <3>1, <3>3 DEF BusyLast
  <2> QED
    BY <2>1, <2>2
<1>11. RoomEnough'
  BY <1>0, <1>1, <1>2, <1>4, <1>7 DEF RoomEnough, NodesInv
<1>12. TypeOK'
  BY <1>0, <1>4, <1>6, <1>7, <1>8, TypesNext DEF TypeOK
<1> QED
  BY <1>6, <1>8, <1>9, <1>10, <1>11, <1>12 DEF CacheInv, NodesInv

\* A new node goes behind the others of its class; it was on no chain.
LEMMA CreateNodeInv ==
    ASSUME CacheInv, NEW size \in Nat, NEW b \in Nodes, CreateNode(size, b)
    PROVE  CacheInv'
<1>0. TypeOK /\ NodesInv /\ CountInv /\ Separate /\ BusyHeld /\ BusyLast
  BY DEF CacheInv, NodesInv
<1>1. PICK i \in Classed : i = Index(size) /\ size <= (i + 1) * Gap
  BY IndexInRange DEF CreateNode, Room
<1>2. PICK c : c = Append(chain[i], b)
  OBVIOUS
<1>3. /\ b \in Unused
      /\ chain' = [chain EXCEPT ![i] = c] /\ busy' = busy \cup {b}
      /\ class' = [class EXCEPT ![b] = i]
      /\ held' = [held EXCEPT ![b] = [in |-> "cache", size |-> size]]
      /\ ready' = TRUE /\ count' = count + NodeSize(i) /\ cnt' = cnt + NodeSize(i) + PoolsCost
      /\ UNCHANGED <<cacheSize, wild>>
  BY <1>0, <1>1, <1>2 DEF CreateNode, TypeOK
<1>4. held[b].in = "none" /\ b \notin Resident /\ \A j \in Classed : b \notin ToSet(chain[j])
  BY <1>3, UnusedBlock DEF Resident
<1>5. /\ c \in Seq(Nodes) /\ IsInjective(c) /\ ToSet(c) = ToSet(chain[i]) \cup {b}
      /\ \A x, y : Before(c, x, y) => Before(chain[i], x, y) \/ y = b
  <2>1. chain[i] \in Seq(Nodes) /\ IsInjective(chain[i]) /\ b \notin ToSet(chain[i])
    BY <1>0, <1>4 DEF TypeOK, Separate
  <2> QED
    BY <1>2, <2>1, AppendChain
<1>6. /\ chain' \in [Classed -> Seq(Nodes)]
      /\ chain'[i] = c /\ \A j \in Classed : j # i => chain'[j] = chain[j]
  BY <1>0, <1>3, <1>5, OneChain
<1>7. Resident' = Resident \cup {b}
  <2>1. /\ Resident' = ToSet(c) \cup UNION {ToSet(chain[j]) : j \in Classed \ {i}}
        /\ Resident = ToSet(chain[i]) \cup UNION {ToSet(chain[j]) : j \in Classed \ {i}}
    BY <1>0, <1>3, <1>5, OneChain
  <2> QED
    BY <1>5, <2>1
<1>8. /\ held' \in [Nodes -> Holding] /\ held'[b].in = "cache" /\ held'[b].size = size
      /\ \A d \in Nodes : d # b => held'[d] = held[d]
  BY <1>0, <1>3, HeldBecomes
<1>9. /\ class' \in [Nodes -> Classed] /\ class'[b] = i
      /\ \A d \in Nodes : d # b => class'[d] = class[d]
  BY <1>0, <1>3 DEF TypeOK
<1>10. Separate'
  <2> SUFFICES ASSUME NEW j \in Classed
               PROVE  IsInjective(chain'[j]) /\ \A d \in ToSet(chain'[j]) : class'[d] = j
    BY DEF Separate
  <2>0. ToSet(chain[j]) \subseteq Nodes \ {b} /\ \A d \in ToSet(chain[j]) : class[d] = j
    BY <1>0, <1>4, OnChain DEF Separate
  <2>1. CASE j = i
    BY <1>5, <1>6, <1>9, <2>0, <2>1
  <2>2. CASE j # i
    BY <1>0, <1>6, <1>9, <2>0, <2>2 DEF Separate
  <2> QED
    BY <2>1, <2>2
<1>11. BusyHeld'
  <2>1. busy' = {d \in Nodes : held'[d].in = "cache"}
    BY <1>0, <1>3, <1>8 DEF BusyHeld
  <2>2. Resident \subseteq Nodes
    BY <1>0, OnChain, <1>1 DEF Resident
  <2>3. busy' \subseteq Resident' /\ \A d \in Resident' : held'[d].in \in {"none", "cache"}
    BY <1>0, <1>3, <1>7, <1>8, <2>2 DEF BusyHeld
  <2> QED
    BY <2>1, <2>3 DEF BusyHeld
<1>12. BusyLast'
  <2> SUFFICES ASSUME NEW j \in Classed, NEW x, NEW y, Before(chain'[j], x, y), x \in busy'
               PROVE  y \in busy'
    BY DEF BusyLast
  <2>1. Before(chain[j], x, y) \/ y = b
    BY <1>5, <1>6
  <2>2. Before(chain[j], x, y) => x # b
    BY <1>0, <1>4, OrderIsTotal DEF TypeOK, Separate
  <2> QED
    BY <1>0, <1>3, <2>1, <2>2 DEF BusyLast
<1>13. RoomEnough'
  BY <1>0, <1>1, <1>8, <1>9 DEF RoomEnough, NodesInv
<1>14. CountInv'
  <2>1. SysSizes' = SysSizes
    BY <1>4, <1>8, SysSizesKept
  <2>2. Grown(NodeSizes, NodeSizes', b) /\ NodeSizes'[b] = NodeSize(i)
    <3>1. Resident \subseteq Nodes /\ NodeSize(i) \in Nat
      BY <1>0, <1>1, OnChain, SizesNat
    <3>2. DOMAIN NodeSizes = Resident /\ DOMAIN NodeSizes' = Resident \cup {b}
      BY <1>7 DEF NodeSizes
    <3>3. NodeSizes'[b] = NodeSize(i) /\ \A d \in Resident : NodeSizes'[d] = NodeSizes[d]
      BY <1>4, <1>7, <1>9, <3>1 DEF NodeSizes, NodeSize, Room
    <3> QED
      BY <1>4, <3>1, <3>2, <3>3 DEF Grown
  <2>3. /\ IsFiniteSet(Bytes(NodeSizes'))
        /\ Cardinality(Bytes(NodeSizes')) = Cardinality(Bytes(NodeSizes)) + NodeSize(i)
    BY <1>0, <2>2, BytesGrow DEF CountInv
  <2>4. count' = Cardinality(Bytes(NodeSizes'))
    BY <1>0, <1>3, <2>3 DEF CountInv, CountsExact
  <2>5. cnt' = count' + PoolsSize + Cardinality(Bytes(SysSizes))
    <3> DEFINE pools == IF ready THEN PoolsSize ELSE 0
    <3>1. cnt = count + pools + Cardinality(Bytes(SysSizes)) /\ pools + PoolsCost = PoolsSize
      BY <1>0, SizesNat DEF CountInv, CountsExact, PoolsCost
    <3>2. pools \in Nat /\ PoolsCost \in Nat /\ NodeSize(i) \in Nat /\ PoolsSize \in Nat
          /\ count \in Nat /\ Cardinality(Bytes(SysSizes)) \in Nat
      BY <1>0, SizesNat, CountsNat DEF PoolsCost
    <3> HIDE DEF pools
    <3>3. cnt' = cnt + NodeSize(i) + PoolsCost /\ count' = count + NodeSize(i)
      BY <1>3
    <3> QED
      BY <3>1, <3>2, <3>3
  <2>6. ready'
    BY <1>3
  <2> QED
    BY <1>0, <2>1, <2>3, <2>4, <2>5, <2>6 DEF CountInv, CountsExact
<1>15. TypeOK'
  BY <1>0, <1>3, <1>6, <1>8, <1>9, <1>14, TypesNext DEF TypeOK
<1> QED
  BY <1>10, <1>11, <1>12, <1>13, <1>14, <1>15 DEF CacheInv, NodesInv

\* The free node at the head of a class leaves it.
LEMMA DropInv ==
    ASSUME CacheInv, NEW i \in Classed, Drop(i)
    PROVE  CacheInv'
<1>0. TypeOK /\ NodesInv /\ CountInv /\ Separate /\ BusyHeld /\ BusyLast
  BY DEF CacheInv, NodesInv
<1>1. PICK b \in Nodes : /\ b = Head(chain[i]) /\ b \in ToSet(chain[i]) /\ b \notin busy
                         /\ class[b] = i /\ chain[i] # <<>>
  BY <1>0, FreeHead DEF Drop
<1>2. PICK c : c = Tail(chain[i])
  OBVIOUS
<1>3. /\ chain' = [chain EXCEPT ![i] = c]
      /\ count' = count - NodeSize(i) /\ cnt' = cnt - NodeSize(i)
      /\ UNCHANGED <<busy, class, held, ready, cacheSize, wild>>
  BY <1>0, <1>2 DEF Drop, TypeOK
<1>4. /\ c \in Seq(Nodes) /\ IsInjective(c) /\ ToSet(c) = ToSet(chain[i]) \ {b}
      /\ \A x, y : Before(c, x, y) => Before(chain[i], x, y)
  <2>1. chain[i] \in Seq(Nodes) /\ IsInjective(chain[i])
    BY <1>0 DEF TypeOK, Separate
  <2> QED
    BY <1>1, <1>2, <2>1, TailProperties, TailOrder
<1>5. /\ chain' \in [Classed -> Seq(Nodes)]
      /\ chain'[i] = c /\ \A j \in Classed : j # i => chain'[j] = chain[j]
  BY <1>0, <1>3, <1>4, OneChain
<1>6. Resident' = Resident \ {b} /\ b \in Resident
  <2>1. /\ Resident' = ToSet(c) \cup UNION {ToSet(chain[j]) : j \in Classed \ {i}}
        /\ Resident = ToSet(chain[i]) \cup UNION {ToSet(chain[j]) : j \in Classed \ {i}}
    BY <1>0, <1>3, <1>4, OneChain
  <2>2. \A j \in Classed \ {i} : b \notin ToSet(chain[j])
    BY <1>0, <1>1 DEF Separate
  <2>3. b \notin UNION {ToSet(chain[j]) : j \in Classed \ {i}}
    BY <2>2
  <2> QED
    BY <1>1, <1>4, <2>1, <2>3
<1>7. Separate'
  <2> SUFFICES ASSUME NEW j \in Classed
               PROVE  IsInjective(chain'[j]) /\ \A d \in ToSet(chain'[j]) : class'[d] = j
    BY DEF Separate
  <2>1. CASE j = i
    BY <1>0, <1>3, <1>4, <1>5, <2>1 DEF Separate
  <2>2. CASE j # i
    BY <1>0, <1>3, <1>5, <2>2 DEF Separate
  <2> QED
    BY <2>1, <2>2
<1>8. BusyHeld'
  <2>1. busy' \subseteq Resident' /\ \A d \in Resident' : held'[d].in \in {"none", "cache"}
    BY <1>0, <1>1, <1>3, <1>6 DEF BusyHeld
  <2> QED
    BY <1>0, <1>3, <2>1 DEF BusyHeld
<1>9. BusyLast'
  <2> SUFFICES ASSUME NEW j \in Classed, NEW x, NEW y, Before(chain'[j], x, y), x \in busy'
               PROVE  y \in busy'
    BY DEF BusyLast
  <2>1. Before(chain[j], x, y)
    BY <1>4, <1>5
  <2> QED
    BY <1>0, <1>3, <2>1 DEF BusyLast
<1>10. RoomEnough'
  BY <1>0, <1>3 DEF RoomEnough, NodesInv
<1>11. CountInv'
  <2>1. SysSizes' = SysSizes
    BY <1>3 DEF SysSizes
  <2>2. Grown(NodeSizes', NodeSizes, b) /\ NodeSizes[b] = NodeSize(i)
    <3>1. NodeSize(i) \in Nat
      BY SizesNat
    <3>2. DOMAIN NodeSizes = Resident /\ DOMAIN NodeSizes' = Resident \ {b}
      BY <1>6 DEF NodeSizes
    <3>3. NodeSizes[b] = NodeSize(i) /\ \A d \in Resident \ {b} : NodeSizes'[d] = NodeSizes[d]
      BY <1>1, <1>3, <1>6 DEF NodeSizes, NodeSize, Room
    <3> QED
      BY <1>6, <3>1, <3>2, <3>3 DEF Grown
  <2>3. PICK f : f = NodeSizes'
    OBVIOUS
  <2>4. /\ IsFiniteSet(Bytes(f))
        /\ Cardinality(Bytes(NodeSizes)) = Cardinality(Bytes(f)) + NodeSize(i)
    BY <1>0, <2>2, <2>3, BytesGrow DEF CountInv
  <2>5. Cardinality(Bytes(f)) \in Nat /\ NodeSize(i) \in Nat
    BY <2>4, FS_CardinalityType, SizesNat
  <2>6. count' = Cardinality(Bytes(f))
    BY <1>0, <1>3, <2>4, <2>5 DEF CountInv, CountsExact
  <2>7. cnt' = count' + (IF ready THEN PoolsSize ELSE 0) + Cardinality(Bytes(SysSizes))
    <3> DEFINE pools == IF ready THEN PoolsSize ELSE 0
    <3>1. cnt = count + pools + Cardinality(Bytes(SysSizes)) /\ pools \in Nat
      BY <1>0, SizesNat DEF CountInv, CountsExact
    <3>2. count \in Nat /\ Cardinality(Bytes(SysSizes)) \in Nat
      BY <1>0, CountsNat
    <3> HIDE DEF pools
    <3> QED
      BY <1>3, <2>5, <3>1, <3>2 DEF pools
  <2> QED
    BY <1>0, <1>3, <2>1, <2>3, <2>4, <2>6, <2>7 DEF CountInv, CountsExact
<1>12. TypeOK'
  BY <1>0, <1>3, <1>5, <1>11, TypesNext DEF TypeOK, Holding
<1> QED
  BY <1>7, <1>8, <1>9, <1>10, <1>11, <1>12 DEF CacheInv, NodesInv

----------------------------------------------------------------------------
(* A block that is given back.                                             *)

\* Where czl_mm_cache_free puts a node.  If the node right before it is free or
\* it has none, no busy one is before it at all and it stays; else it goes to the
\* head.  Either way the nodes behind a busy one are busy again.
LEMMA FreedChain ==
    ASSUME NodesInv, NEW b \in busy, NEW i \in Classed, i = class[b], NEW c, c = FreedIn(b)
    PROVE  /\ c \in Seq(Nodes) /\ IsInjective(c) /\ ToSet(c) = ToSet(chain[i])
           /\ \A x, y : Before(c, x, y) /\ x \in busy \ {b} => y \in busy \ {b}
<1>0. /\ Separate /\ BusyHeld /\ BusyLast /\ chain[i] \in Seq(Nodes) /\ IsInjective(chain[i])
      /\ b \in Nodes /\ b \in ToSet(chain[i])
  <2>1. TypeOK /\ Separate /\ BusyHeld /\ BusyLast
    BY DEF NodesInv
  <2>2. PICK j \in Classed : b \in ToSet(chain[j])
    BY <2>1 DEF BusyHeld, Resident
  <2>3. j = i
    BY <2>1, <2>2 DEF Separate
  <2> QED
    BY <2>1, <2>2, <2>3 DEF TypeOK, Separate, BusyHeld
<1> DEFINE s == chain[i]
<1>1. /\ Len(s) \in Nat /\ DOMAIN s = 1..Len(s)
      /\ \A j, k \in 1..Len(s) : s[j] = s[k] => j = k
  BY <1>0, LenProperties DEF IsInjective
<1>2. PICK n \in 1..Len(s) : n = CHOOSE j \in 1..Len(s) : s[j] = b
  <2>1. \E j \in 1..Len(s) : s[j] = b
    BY <1>0, <1>1 DEF ToSet
  <2> QED
    BY <2>1
<1>3. s[n] = b
  <2>1. \E j \in 1..Len(s) : s[j] = b
    BY <1>0, <1>1 DEF ToSet
  <2> QED
    BY <1>2, <2>1
<1>4. c = IF n > 1 /\ s[n - 1] \in busy THEN <<b>> \o RemoveAt(s, n) ELSE s
  BY <1>2 DEF FreedIn
<1> HIDE DEF s
<1>5. s \in Seq(Nodes) /\ IsInjective(s) /\ b \in ToSet(s) /\ ToSet(s) = ToSet(chain[i])
      /\ \A x, y : Before(s, x, y) /\ x \in busy => y \in busy
  BY <1>0 DEF s, BusyLast
<1>6. CASE n > 1 /\ s[n - 1] \in busy
  <2>1. RemoveAt(s, n) = RemoveFirst(s, b)
    <3>1. \E k \in 1..Len(s) : s[k] = b /\ RemoveFirst(s, b) = RemoveAt(s, k)
      BY <1>3, <1>5, RemoveFirstIs
    <3> QED
      BY <1>1, <1>3, <3>1
  <2>2. PICK r : r = RemoveFirst(s, b)
    OBVIOUS
  <2>3. /\ r \in Seq(Nodes) /\ IsInjective(r) /\ ToSet(r) = ToSet(s) \ {b}
        /\ \A x, y : Before(r, x, y) => Before(s, x, y) /\ x # b /\ y # b
    BY <1>5, <2>2, RemoveFirstProperties, RemoveFirstOrder
  <2>4. c = <<b>> \o r
    BY <1>4, <1>6, <2>1, <2>2
  <2>5. c \in Seq(Nodes) /\ IsInjective(c) /\ ToSet(c) = {b} \cup ToSet(r)
    BY <1>0, <2>3, <2>4, ConsProperties
  <2>6. \A x, y : Before(c, x, y) => x = b \/ Before(r, x, y)
    BY <1>0, <2>3, <2>4, ConsOrder
  <2>7. \A x, y : Before(c, x, y) /\ x \in busy \ {b} => y \in busy \ {b}
    BY <1>5, <2>3, <2>6
  <2> QED
    BY <1>5, <2>3, <2>5, <2>7
<1>7. CASE ~(n > 1 /\ s[n - 1] \in busy)
  <2>1. c = s
    BY <1>4, <1>7
  <2>2. ASSUME NEW x \in busy, Before(s, x, b) PROVE FALSE
    <3>1. PICK j \in 1..Len(s), k \in 1..Len(s) : j < k /\ s[j] = x /\ s[k] = b
      BY <2>2 DEF Before
    <3>2. k = n
      BY <1>1, <1>3, <3>1
    <3>3. n > 1 /\ n - 1 \in 1..Len(s) /\ (j = n - 1 \/ j < n - 1)
      BY <1>1, <3>1, <3>2
    <3>4. j = n - 1 \/ Before(s, x, s[n - 1])
      BY <3>1, <3>3 DEF Before
    <3>5. s[n - 1] \in busy
      BY <1>5, <2>2, <3>1, <3>4
    <3> QED
      BY <1>7, <3>3, <3>5
  <2> QED
    BY <1>5, <2>1, <2>2
<1> QED
  BY <1>6, <1>7

\* A node that is given back.
LEMMA FreeNodeInv ==
    ASSUME CacheInv, NEW b \in Nodes, Free(b), held[b].in = "cache"
    PROVE  CacheInv'
<1>0. TypeOK /\ NodesInv /\ CountInv /\ Separate /\ BusyHeld /\ BusyLast
  BY DEF CacheInv, NodesInv
<1>1. PICK i \in Classed : i = class[b]
  BY <1>0 DEF TypeOK
<1>2. b \in busy
  BY <1>0 DEF BusyHeld
<1>3. PICK c : c = FreedIn(b)
  OBVIOUS
<1>4. /\ chain' = [chain EXCEPT ![i] = c] /\ busy' = busy \ {b}
      /\ held' = [held EXCEPT ![b] = [in |-> "none", size |-> 0]]
      /\ UNCHANGED <<class, ready, count, cnt, cacheSize, wild>>
  BY <1>1, <1>3 DEF Free, NoBlock
<1>5. /\ c \in Seq(Nodes) /\ IsInjective(c) /\ ToSet(c) = ToSet(chain[i])
      /\ \A x, y : Before(c, x, y) /\ x \in busy \ {b} => y \in busy \ {b}
  BY <1>0, <1>1, <1>2, <1>3, FreedChain
<1>6. /\ chain' \in [Classed -> Seq(Nodes)] /\ Separate' /\ Resident' = Resident
      /\ chain'[i] = c /\ \A j \in Classed : j # i => chain'[j] = chain[j]
  BY <1>0, <1>4, <1>5, SeparateStays
<1>7. /\ held' \in [Nodes -> Holding] /\ held'[b].in = "none"
      /\ \A d \in Nodes : d # b => held'[d] = held[d]
  BY <1>0, <1>4, HeldBecomes
<1>8. CountInv'
  <2>1. SysSizes' = SysSizes
    BY <1>7, SysSizesKept
  <2> QED
    BY <1>0, <1>4, <1>6, <2>1, CountsStay
<1>9. BusyHeld'
  <2>1. busy' = {d \in Nodes : held'[d].in = "cache"}
    BY <1>0, <1>4, <1>7 DEF BusyHeld
  <2>2. Resident \subseteq Nodes
    BY <1>0, <1>1, OnChain
  <2>3. busy' \subseteq Resident /\ \A d \in Resident : held'[d].in \in {"none", "cache"}
    BY <1>0, <1>4, <1>7, <2>2 DEF BusyHeld
  <2> QED
    BY <1>6, <2>1, <2>3 DEF BusyHeld
<1>10. BusyLast'
  <2> SUFFICES ASSUME NEW j \in Classed, NEW x, NEW y, Before(chain'[j], x, y), x \in busy'
               PROVE  y \in busy'
    BY DEF BusyLast
  <2>1. CASE j = i
    BY <1>4, <1>5, <1>6, <2>1
  <2>2. CASE j # i
    <3>1. Before(chain[j], x, y)
      BY <1>6, <2>2
    <3>2. y \in ToSet(chain[j])
      BY <1>0, <3>1, OrderIsTotal DEF TypeOK, Separate
    <3>3. y # b
      BY <1>0, <1>1, <2>2, <3>2 DEF Separate
    <3> QED
      BY <1>0, <1>4, <3>1, <3>3 DEF BusyLast
  <2> QED
    BY <2>1, <2>2
<1>11. RoomEnough'
  BY <1>0, <1>4, <1>7 DEF RoomEnough, NodesInv
<1>12. TypeOK'
  BY <1>0, <1>4, <1>6, <1>7, <1>8, TypesNext DEF TypeOK
<1> QED
  BY <1>6, <1>8, <1>9, <1>10, <1>11, <1>12 DEF CacheInv, NodesInv

\* A system block or a page slot that is given back.
LEMMA FreeOtherInv ==
    ASSUME CacheInv, NEW b \in Nodes, Free(b), held[b].in # "cache"
    PROVE  CacheInv'
<1>0. TypeOK /\ NodesInv /\ CountInv
  BY DEF CacheInv, NodesInv
<1>1. /\ held' = [held EXCEPT ![b] = [in |-> "none", size |-> 0]]
      /\ \/ held[b].in = "sys" /\ cnt' = cnt - SysSize(b)
         \/ held[b].in = "page" /\ cnt' = cnt
      /\ UNCHANGED <<chain, busy, class, ready, count, cacheSize, wild>>
  BY DEF Free, NoBlock
<1>2. /\ held' \in [Nodes -> Holding] /\ held'[b].in = "none"
      /\ \A c \in Nodes : c # b => held'[c] = held[c]
  BY <1>0, <1>1, HeldBecomes
<1>3. CountInv'
  <2>1. CASE held[b].in = "sys" /\ cnt' = cnt - SysSize(b)
    <3>1. held[b].size \in Nat /\ SysSize(b) = NodeHead + held[b].size /\ SysSize(b) \in Nat
      BY <1>0, SizesNat DEF TypeOK, SysSize
    <3>2. PICK f : f = SysSizes'
      OBVIOUS
    <3>3. Grown(f, SysSizes, b) /\ SysSizes[b] = SysSize(b)
      BY <1>2, <2>1, <3>1, <3>2 DEF SysSizes, Grown
    <3>4. /\ IsFiniteSet(Bytes(f))
          /\ Cardinality(Bytes(SysSizes)) = Cardinality(Bytes(f)) + SysSize(b)
      BY <1>0, <3>3, BytesGrow DEF CountInv
    <3>5. NodeSizes' = NodeSizes
      BY <1>1, NodeSizesKept DEF Resident
    <3>6. cnt' = count + (IF ready THEN PoolsSize ELSE 0) + Cardinality(Bytes(f))
      <4> DEFINE pools == IF ready THEN PoolsSize ELSE 0
      <4>1. cnt = count + pools + Cardinality(Bytes(SysSizes)) /\ pools \in Nat
        BY <1>0, SizesNat DEF CountInv, CountsExact
      <4>2. count \in Nat /\ Cardinality(Bytes(f)) \in Nat
        BY <1>0, <3>4, CountsNat, FS_CardinalityType
      <4> HIDE DEF pools
      <4> QED
        BY <2>1, <3>1, <3>4, <4>1, <4>2 DEF pools
    <3> QED
      BY <1>0, <1>1, <3>2, <3>4, <3>5, <3>6 DEF CountInv, CountsExact
  <2>2. CASE held[b].in = "page" /\ cnt' = cnt
    <3>1. SysSizes' = SysSizes
      BY <1>2, <2>2, SysSizesKept
    <3> QED
      BY <1>0, <1>1, <2>2, <3>1, CountsStay DEF Resident
  <2> QED
    BY <1>1, <2>1, <2>2
<1>4. \A c \in Nodes : held'[c].in = "cache" <=> held[c].in = "cache"
  BY <1>1, <1>2
<1>5. \A c \in Nodes : held'[c].in = "cache" => held'[c].size <= (class[c] + 1) * Gap
  BY <1>0, <1>2 DEF NodesInv, RoomEnough
<1>6. \A c \in Resident : held[c].in = "none" => held'[c].in = "none"
  <2>1. Resident \subseteq Nodes
    BY <1>0, OnChain DEF Resident
  <2> QED
    BY <1>2, <2>1
<1>7. NodesInv'
  BY <1>0, <1>1, <1>2, <1>3, <1>4, <1>5, <1>6, NodesStay DEF TypeOK
<1> QED
  BY <1>3, <1>7 DEF CacheInv

----------------------------------------------------------------------------
(* The theorems.                                                           *)

\* The cache starts without nodes.
LEMMA CacheInit == Init => CacheInv
<1> SUFFICES ASSUME Init PROVE CacheInv
  OBVIOUS
<1>1. /\ \A i \in Classed : chain[i] = <<>>
      /\ chain \in [Classed -> Seq(Nodes)] /\ busy = {} /\ held \in [Nodes -> Holding]
      /\ \A b \in Nodes : held[b].in = "none"
      /\ count = 0 /\ cnt = 0 /\ ready = FALSE /\ wild = FALSE /\ cacheSize \in Nat
  BY SizeAssumption DEF Init, NoBlock, Holding
<1>2. class \in [Nodes -> Classed]
  BY SizeAssumption DEF Init, Classed
<1>3. TypeOK
  BY <1>1, <1>2 DEF TypeOK, Holding
<1>4. Resident = {}
  BY <1>1 DEF Resident, ToSet
<1>5. Separate /\ BusyLast
  <2>1. IsInjective(<<>>) /\ ToSet(<<>>) = {} /\ \A x, y : ~Before(<<>>, x, y)
    BY DEF IsInjective, ToSet, Before
  <2> QED
    BY <1>1, <2>1 DEF Separate, BusyLast
<1>6. BusyHeld /\ RoomEnough
  BY <1>1, <1>4 DEF BusyHeld, RoomEnough
<1>7. CountInv
  <2>1. DOMAIN NodeSizes = {} /\ DOMAIN SysSizes = {}
    BY <1>1, <1>4 DEF NodeSizes, SysSizes
  <2>2. /\ IsFiniteSet(Bytes(NodeSizes)) /\ Cardinality(Bytes(NodeSizes)) = 0
        /\ IsFiniteSet(Bytes(SysSizes)) /\ Cardinality(Bytes(SysSizes)) = 0
    BY <2>1, BytesNone
  <2> QED
    BY <1>1, <2>2 DEF CountInv, CountsExact
<1> QED
  BY <1>3, <1>5, <1>6, <1>7 DEF CacheInv, NodesInv

\* Every call preserves the invariant.
LEMMA CacheNext == CacheInv /\ [Next]_vars => CacheInv'
<1> SUFFICES ASSUME CacheInv, [Next]_vars PROVE CacheInv'
  OBVIOUS
<1>0. wild \in BOOLEAN /\ cacheSize \in Nat /\ Sizes \subseteq Nat /\ CacheSizes \subseteq Nat
  BY SizeAssumption DEF CacheInv, NodesInv, TypeOK
<1>1. ASSUME NEW size \in Sizes, TakeNode(size) PROVE CacheInv'
  BY <1>0, <1>1, TakeNodeInv
<1>2. ASSUME NEW size \in Sizes, AllocFails(size) PROVE CacheInv'
  BY <1>0, <1>2, AllocFailsInv
<1>3. ASSUME NEW size \in Sizes, Scan(size) PROVE CacheInv'
  BY <1>3, DropInv DEF Scan
<1>4. ASSUME NEW size \in Sizes, NEW b \in Nodes, CreateNode(size, b) PROVE CacheInv'
  BY <1>0, <1>4, CreateNodeInv
<1>5. ASSUME NEW size \in Sizes, NEW b \in Nodes, SysAlloc(size, b) PROVE CacheInv'
  BY <1>0, <1>5, SysAllocInv
<1>6. ASSUME NEW size \in Sizes, NEW b \in Nodes, KeepBlock(b, size) PROVE CacheInv'
  BY <1>0, <1>6, KeepBlockInv
<1>7. ASSUME NEW size \in Sizes, NEW b \in Nodes, KeepSlot(b, size) PROVE CacheInv'
  BY <1>0, <1>7, OthersInv DEF KeepSlot
<1>8. ASSUME NEW size \in Sizes, NEW b \in Nodes, SysRealloc(b, size) PROVE CacheInv'
  BY <1>0, <1>8, SysReallocInv
<1>9. ASSUME NEW b \in Nodes, PageAlloc(b) PROVE CacheInv'
  BY <1>9, PageAllocInv
<1>10. ASSUME NEW b \in Nodes, Free(b) PROVE CacheInv'
  BY <1>10, FreeNodeInv, FreeOtherInv
<1>11. CASE Collect
  BY <1>11, DropInv DEF Collect
<1>12. ASSUME NEW size \in CacheSizes, SetCache(size) PROVE CacheInv'
  BY <1>0, <1>12, OthersInv DEF SetCache
<1>13. CASE UNCHANGED vars
  BY <1>0, <1>13, OthersInv DEF vars
<1> QED
  BY <1>1, <1>2, <1>3, <1>4, <1>5, <1>6, <1>7, <1>8, <1>9, <1>10, <1>11, <1>12, <1>13 DEF Next

\* The nodes, their chains and the counts together.
THEOREM CacheInvHolds == Spec => []CacheInv
<1>1. CacheInv /\ [Next]_vars => CacheInv'
  BY CacheNext
<1> QED
  BY <1>1, CacheInit, PTL DEF Spec

\* Every node is on the chain of its class, once, and busy exactly while it is
\* held, the free ones first: no block is handed out twice, none is overlooked, and
\* each has room for what its holder was last given.
THEOREM NodesExactHolds == Spec => []NodesExact
<1>1. CacheInv => NodesExact
  <2> SUFFICES ASSUME CacheInv PROVE NodesExact
    OBVIOUS
  <2>1. TypeOK /\ Separate /\ BusyHeld /\ BusyLast /\ RoomEnough
    BY DEF CacheInv, NodesInv
  <2>2. FreeFirst
    <3> SUFFICES ASSUME NEW i \in Classed, NEW j \in 1..Len(chain[i]), j > 1,
                        chain[i][j - 1] \in busy
                 PROVE  chain[i][j] \in busy
      BY DEF FreeFirst
    <3>1. Len(chain[i]) \in Nat
      BY <2>1, LenProperties DEF TypeOK
    <3>2. j - 1 \in 1..Len(chain[i]) /\ j - 1 < j
      BY <3>1
    <3>3. Before(chain[i], chain[i][j - 1], chain[i][j])
      BY <3>2 DEF Before
    <3> QED
      BY <2>1, <3>3 DEF BusyLast
  <2> QED
    BY <2>1, <2>2 DEF NodesExact, Separate, BusyHeld, Resident
<1> QED
  BY <1>1, CacheInvHolds, PTL

\* mm_cache.count is what the nodes occupy, and mm_cnt that, the array of classes
\* and the system blocks, whatever the size of the cache is set to meanwhile.
THEOREM CountsExactHolds == Spec => []CountsExact
<1>1. CacheInv => CountsExact
  BY DEF CacheInv, CountInv
<1> QED
  BY <1>1, CacheInvHolds, PTL

=============================================================================
