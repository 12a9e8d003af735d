-------------------------------- MODULE Cache --------------------------------
(***************************************************************************)
(* Blocks larger than a page slot: src/code/czl_mm.c, the cache (516 B to  *)
(* 1 MB: size classes, each a chain of resident nodes, the free ones       *)
(* first) and the system blocks (larger ones, or when the cache is full).  *)
(* czl_mm_malloc, czl_mm_free and czl_mm_realloc choose between them.      *)
(*                                                                         *)
(* Sizes are counted in units above 515 B: 0 is any size that fits a page. *)
(***************************************************************************)
EXTENDS Integers, Sequences, FiniteSets, SequencesExt, Memory

CONSTANTS
    Nodes,          \* bound: the blocks that exist at one time
    Sizes,          \* the sizes the interpreter asks for; 0 fits a page
    Gap,            \* CZL_MM_CACHE_GAP
    Classes,        \* CZL_MM_CACHE_RANGE
    NodeHead,       \* CZL_MM_CACHE_HEAD_SIZE, and CZL_MM_SH_HEAD_SIZE
    PoolsSize,      \* the array of size classes
    Limit,          \* gp->mm_limit
    CacheSizes,     \* the values of gp->mm_cache_size, see setCache
    Faults          \* {"os"} when the system's malloc may fail

ASSUME SizeAssumption == /\ Gap \in Nat \ {0} /\ Classes \in Nat \ {0}
                         /\ Sizes \subseteq Nat /\ CacheSizes \subseteq Nat
                         /\ {NodeHead, PoolsSize, Limit} \subseteq Nat
ASSUME FaultAssumption == Faults \subseteq {"os"}

VARIABLES
    chain,      \* the nodes of each size class, pool->head first
    busy,       \* the nodes whose state is 1
    class,      \* node->index
    held,       \* the blocks the interpreter holds: where and how large
    ready,      \* gp->mm_cache.flag
    count,      \* gp->mm_cache.count
    cnt,        \* gp->mm_cnt, the part of these blocks
    cacheSize,  \* gp->mm_cache_size
    wild        \* a page slot was kept for a size it has no room for

vars == <<chain, busy, class, held, ready, count, cnt, cacheSize, wild>>

Classed == 0..(Classes - 1)
NoBlock == [in |-> "none", size |-> 0]
Cacheable(size) == 0 < size /\ size <= Classes * Gap
Room(i) == (i + 1) * Gap                    \* pool->size
NodeSize(i) == NodeHead + Room(i)
Unused == {b \in Nodes : held[b] = NoBlock /\ \A i \in Classed : b \notin ToSet(chain[i])}

Init ==
    /\ chain = [i \in Classed |-> <<>>]
    /\ busy = {}
    /\ class = [b \in Nodes |-> 0]
    /\ held = [b \in Nodes |-> NoBlock]
    /\ ready = FALSE /\ count = 0 /\ cnt = 0
    /\ cacheSize \in CacheSizes /\ wild = FALSE

\* czl_mm_cache_index, a binary search: the class with size in (room - gap, room].
Index(size) == (size - 1) \div Gap

----------------------------------------------------------------------------
(* czl_mm_malloc, larger sizes.                                            *)

\* Mutant: the node that is taken keeps its place at the head.
TakenInPlace(i) == chain[i]
\* The free node at the head becomes the last, with the busy ones.
TakenFrom(i) == Append(Tail(chain[i]), Head(chain[i]))

HasFree(i) == chain[i] # <<>> /\ Head(chain[i]) \notin busy

\* The array of size classes, made at the first use of the cache.
PoolsCost == IF ready THEN 0 ELSE PoolsSize

TakeNode(size) ==
    /\ cacheSize > 0 /\ Cacheable(size)
    /\ HasFree(Index(size))
    /\ LET b == Head(chain[Index(size)]) IN
        /\ chain' = [chain EXCEPT ![Index(size)] = TakenFrom(Index(size))]
        /\ busy' = busy \cup {b}
        /\ held' = [held EXCEPT ![b] = [in |-> "cache", size |-> size]]
    /\ UNCHANGED <<class, ready, count, cnt, cacheSize, wild>>

\* The test uses the size asked for, not the room of the class.
Full(size) == cacheSize < count + NodeHead + size

\* czl_mm_cache_create: a new node at the end of the class; mm_limit is not looked at.
CreateNode(size, b) ==
    /\ cacheSize > 0 /\ Cacheable(size) /\ b \in Unused
    /\ ~HasFree(Index(size)) /\ ~Full(size)
    /\ chain' = [chain EXCEPT ![Index(size)] = Append(@, b)]
    /\ busy' = busy \cup {b}
    /\ class' = [class EXCEPT ![b] = Index(size)]
    /\ held' = [held EXCEPT ![b] = [in |-> "cache", size |-> size]]
    /\ ready' = TRUE
    /\ count' = count + NodeSize(Index(size))
    /\ cnt' = cnt + NodeSize(Index(size)) + PoolsCost
    /\ UNCHANGED <<cacheSize, wild>>

\* czl_mm_sys_alloc, also for a cacheable size when the cache is full.
SysAlloc(size, b) ==
    /\ size > 0 /\ b \in Unused
    /\ LET cached == cacheSize > 0 /\ Cacheable(size)
           cost == IF cached THEN PoolsCost ELSE 0 IN
        /\ cached => ~HasFree(Index(size)) /\ Full(size)
        /\ cnt + cost + NodeHead + size <= Limit
        /\ cnt' = cnt + cost + NodeHead + size
        /\ ready' = (ready \/ cached)
    /\ held' = [held EXCEPT ![b] = [in |-> "sys", size |-> size]]
    /\ UNCHANGED <<chain, busy, class, count, cacheSize, wild>>

\* NULL: the block does not fit the limit or the system refuses it; the array of
\* size classes may have been made all the same.
AllocFails(size) ==
    /\ size > 0
    /\ LET cached == cacheSize > 0 /\ Cacheable(size) IN
        /\ cached => ~HasFree(Index(size))
        /\ \/ "os" \in Faults
           \/ (cached => Full(size)) /\ cnt + PoolsCost + NodeHead + size > Limit
        /\ \/ cached /\ ready' = TRUE /\ cnt' = cnt + PoolsCost
           \/ (~cached \/ "os" \in Faults) /\ UNCHANGED <<ready, cnt>>
    /\ UNCHANGED <<chain, busy, class, held, count, cacheSize, wild>>

\* A page slot of BufPool or ObjPool, which the interpreter may have enlarged.
PageAlloc(b) ==
    /\ 0 \in Sizes /\ b \in Unused
    /\ held' = [held EXCEPT ![b] = [in |-> "page", size |-> 0]]
    /\ UNCHANGED <<chain, busy, class, ready, count, cnt, cacheSize, wild>>

----------------------------------------------------------------------------
(* czl_mm_free.                                                            *)

\* A freed node goes to the head unless the one before it is free as well.
FreedIn(b) ==
    LET c == chain[class[b]]
        i == CHOOSE j \in 1..Len(c) : c[j] = b
    IN IF i > 1 /\ c[i - 1] \in busy THEN <<b>> \o RemoveAt(c, i) ELSE c

\* Mutant: a system block is given back without its head.
SysSizeBare(b) == held[b].size
\* The size in the head of a system block.
SysSize(b) == NodeHead + held[b].size

\* The flag before the block tells a system block from a node, whatever the size
\* of the cache has become since.
Free(b) ==
    /\ held[b] # NoBlock
    /\ held' = [held EXCEPT ![b] = NoBlock]
    /\ \/ /\ held[b].in = "cache"
          /\ busy' = busy \ {b}
          /\ chain' = [chain EXCEPT ![class[b]] = FreedIn(b)]
          /\ UNCHANGED cnt
       \/ /\ held[b].in = "sys"
          /\ cnt' = cnt - SysSize(b)
          /\ UNCHANGED <<chain, busy>>
       \/ held[b].in = "page" /\ UNCHANGED <<chain, busy, cnt>>
    /\ UNCHANGED <<class, ready, count, cacheSize, wild>>

----------------------------------------------------------------------------
(* czl_mm_realloc.  When it has to move the block it allocates, copies and *)
(* frees: an allocation and a free, which are actions of their own here.   *)

\* The new size is of the class the block is in.
Kept(b, size) == class[b] * Gap < size /\ size <= Room(class[b])

\* czl_mm_cache_resize keeps the node.
KeepBlock(b, size) ==
    /\ cacheSize > 0 /\ Cacheable(size)
    /\ held[b].in = "cache" /\ Kept(b, size)
    /\ held' = [held EXCEPT ![b].size = size]
    /\ UNCHANGED <<chain, busy, class, ready, count, cnt, cacheSize, wild>>

\* It looks for a node's head before a page slot too: the class read there is any,
\* and when the new size is of that class the slot is kept, too small.
KeepSlot(b, size) ==
    /\ cacheSize > 0 /\ Cacheable(size)
    /\ held[b].in = "page"
    /\ wild' = TRUE
    /\ UNCHANGED <<chain, busy, class, held, ready, count, cnt, cacheSize>>

\* czl_mm_sys_realloc: both sizes are above those of the cache.
SysRealloc(b, size) ==
    /\ held[b].in = "sys" /\ held[b].size > Classes * Gap /\ size > Classes * Gap
    /\ size - held[b].size + cnt <= Limit
    /\ cnt' = cnt + (size - held[b].size)
    /\ held' = [held EXCEPT ![b].size = size]
    /\ UNCHANGED <<chain, busy, class, ready, count, cacheSize, wild>>

----------------------------------------------------------------------------
(* czl_mm_cache_scan and czl_mm_cache_gc, when memory is short.            *)

\* The free node at the head of a class goes back to the system.
Drop(i) ==
    /\ HasFree(i)
    /\ chain' = [chain EXCEPT ![i] = Tail(@)]
    /\ count' = count - NodeSize(i)
    /\ cnt' = cnt - NodeSize(i)
    /\ UNCHANGED <<busy, class, held, ready, cacheSize, wild>>

\* One node of the smallest class that has a free one and serves the request.
Scan(size) ==
    /\ Cacheable(size)
    /\ \E i \in Classed :
          /\ i >= Index(size) /\ Drop(i)
          /\ \A j \in Classed : Index(size) <= j /\ j < i => ~HasFree(j)

\* The nodes of every class in turn, until enough memory was given back.
Collect == \E i \in Classed : Drop(i) /\ \A j \in Classed : j < i => ~HasFree(j)

\* czl_sys_setCache.
SetCache(size) ==
    /\ cacheSize' = size
    /\ UNCHANGED <<chain, busy, class, held, ready, count, cnt, wild>>

Next ==
    /\ ~wild
    /\ \/ \E size \in Sizes :
             \/ TakeNode(size) \/ AllocFails(size) \/ Scan(size)
             \/ \E b \in Nodes : \/ CreateNode(size, b) \/ SysAlloc(size, b)
                                 \/ KeepBlock(b, size) \/ KeepSlot(b, size)
                                 \/ SysRealloc(b, size)
       \/ \E b \in Nodes : PageAlloc(b) \/ Free(b)
       \/ Collect
       \/ \E size \in CacheSizes : SetCache(size)

Spec == Init /\ [][Next]_vars

----------------------------------------------------------------------------
(* Properties.                                                             *)

\* Every variable has a value of its type.
TypeOK ==
    /\ chain \in [Classed -> Seq(Nodes)]
    /\ busy \subseteq Nodes
    /\ class \in [Nodes -> Classed]
    /\ held \in [Nodes -> [in : {"none", "cache", "sys", "page"}, size : Nat]]
    /\ ready \in BOOLEAN /\ wild \in BOOLEAN /\ count \in Nat /\ cnt \in Nat /\ cacheSize \in Nat

\* The free nodes of a class come before the busy ones: looking at the head alone
\* finds a free node whenever there is one.
FreeFirst == \A i \in Classed : \A j \in 1..Len(chain[i]) :
    j > 1 /\ chain[i][j] \notin busy => chain[i][j - 1] \notin busy

\* A node has room for the size its holder was last given.
RoomEnough == \A b \in Nodes :
    held[b].in = "cache" => held[b].size <= (class[b] + 1) * Gap

\* A node is on one chain, that of its class, once, and is busy exactly while the
\* interpreter holds it, the free ones first: no block is handed out twice, none
\* is lost or overlooked, and each has room for what its holder was last given.
NodesExact ==
    /\ TypeOK
    /\ \A i \in Classed : /\ IsInjective(chain[i])
                          /\ \A b \in ToSet(chain[i]) : class[b] = i
    /\ busy = {b \in Nodes : held[b].in = "cache"}
    /\ busy \subseteq UNION {ToSet(chain[i]) : i \in Classed}
    /\ FreeFirst
    /\ RoomEnough

\* mm_cache.count and mm_cnt are what the nodes and the blocks occupy.
Resident == UNION {ToSet(chain[i]) : i \in Classed}
NodeSizes == [b \in Resident |-> NodeSize(class[b])]
SysSizes == [b \in {c \in Nodes : held[c].in = "sys"} |-> NodeHead + held[b].size]
CountsExact ==
    /\ count = Cardinality(Bytes(NodeSizes))
    /\ cnt = count + (IF ready THEN PoolsSize ELSE 0) + Cardinality(Bytes(SysSizes))
=============================================================================
