------------------------------- MODULE BufPool -------------------------------
(***************************************************************************)
(* One page pool of type CZL_MM_BUF_SP: src/code/czl_mm.c, czl_mm_sp_create *)
(* to czl_mm_free_buf.  A pool cuts pages of heapNum equal slots out of the *)
(* system heap.  pool->head chains all its pages, newest first, and         *)
(* pool->freeHead the pages with freed slots.  mmp_tmp, mmp_rt, mmp_stack,  *)
(* mmp_obj (the handles of ObjPool), mmp_thread and mmp_timer are BUF pools.*)
(*                                                                         *)
(* The interpreter that owns the pool is one thread: an action is a call.  *)
(* The code takes the freed slot that heads the page's list; the list is a  *)
(* set here and the slot is any member.                                    *)
(***************************************************************************)
EXTENDS Integers, Sequences, FiniteSets, SequencesExt, Memory

CONSTANTS
    Pages,      \* bound: the pages that exist at one time
    HeapMax,    \* CZL_MM_SP_HEAP_NUM_MAX (200), the most slots of a page
    HeadSize,   \* CZL_MM_SP_HEAD_SIZE
    SlotSize,   \* CZL_MM_BUF_HEAP_MSG_SIZE + pool->max
    Limit,      \* gp->mm_limit
    Faults      \* {"os"} when the system's malloc may fail

ASSUME HeapMaxAssumption == HeapMax \in 1..255
ASSUME SizeAssumption == HeadSize \in Nat /\ SlotSize \in Nat \ {0} /\ Limit \in Nat
ASSUME FaultAssumption == Faults \subseteq {"os"}

VARIABLES
    list,       \* the chain from pool->head
    free,       \* the chain from pool->freeHead
    num,        \* pool->num: the slots the next page will have
    pg,         \* the page headers
    live,       \* the slots the callers hold
    cnt         \* gp->mm_cnt, this pool's part

vars == <<list, free, num, pg, live, cnt>>

\* CZL_MM_BUF_SP_SIZE.
PageSize(n) == HeadSize + SlotSize * n
NoPage == [n |-> 0, use |-> 0, fl |-> {}, rest |-> 0]

\* Mutant: the last slot of a page is compared one too late.
NextRestLate(r, n) == IF r > n THEN 0 ELSE r + 1

\* restHead after a slot is cut from the untouched end: 0 once it was the last.
NextRest(r, n) == IF r = n THEN 0 ELSE r + 1

Init ==
    /\ list = <<>> /\ free = <<>>
    /\ num = 1
    /\ pg = [p \in Pages |-> NoPage]
    /\ live = {} /\ cnt = 0

----------------------------------------------------------------------------
\* The slot counts czl_mm_sp_create tries: num, and its halvings down to 1.
Tries == {num \div d : d \in {1, 2, 4, 8, 16, 32, 64, 128}} \ {0}
Fits(n) == cnt + PageSize(n) <= Limit

\* Mutant: the next page may be one slot larger than the limit of a page.
NextNumTooFar(n) == IF n <= HeapMax THEN n + 1 ELSE n
\* The slots of the next page, after one of n.
NextNum(n) == IF n + 1 <= HeapMax THEN n + 1 ELSE n

\* Mutant: mm_cnt grows by the size asked for first, not the one obtained.
CountedAsked(n) == cnt + PageSize(num)
Counted(n) == cnt + PageSize(n)

\* The new page heads the chain of pages and its first slot is handed out.
Created(p, n) ==
    /\ pg' = [pg EXCEPT ![p] = [n |-> n, use |-> 1, fl |-> {},
                                rest |-> IF n > 1 THEN 2 ELSE 0]]
    /\ list' = <<p>> \o list
    /\ live' = live \cup {<<p, 1>>}
    /\ num' = NextNum(n)
    /\ cnt' = Counted(n)

\* Mutant: the oldest page is looked at instead of the newest.
HeadHasRestOldest == list # <<>> /\ pg[Last(list)].rest # 0

\* pool->head && pool->head->restHead: the newest page has an untouched end.
HeadHasRest == list # <<>> /\ pg[Head(list)].rest # 0

\* czl_mm_malloc_heap, no room in the pages: a page is created with as many
\* slots as the limit and the system allow.
MallocCreate ==
    /\ ~HeadHasRest /\ free = <<>>
    /\ \E p \in Pages \ ToSet(list), n \in Tries :
          /\ Fits(n)
          /\ \A m \in Tries : m > n => (~Fits(m) \/ "os" \in Faults)
          /\ Created(p, n)
    /\ UNCHANGED free

\* NULL: not even a page of one slot fits.
MallocFails ==
    /\ ~HeadHasRest /\ free = <<>>
    /\ \A n \in Tries : ~Fits(n) \/ "os" \in Faults
    /\ num' = 1
    /\ UNCHANGED <<list, free, pg, live, cnt>>

\* A slot from the untouched end of the newest page.
MallocRest ==
    /\ HeadHasRest
    /\ LET p == Head(list) IN
        /\ pg' = [pg EXCEPT ![p].use = @ + 1, ![p].rest = NextRest(@, pg[p].n)]
        /\ live' = live \cup {<<p, pg[p].rest>>}
    /\ UNCHANGED <<list, free, num, cnt>>

\* Mutant: a page whose last freed slot is taken stays on the free chain.
FreeAfterKept(p, s) == free
\* czl_mm_sp_break: a page without freed slots leaves the free chain.
FreeAfter(p, s) == IF pg[p].fl = {s} THEN RemoveFirst(free, p) ELSE free

\* A freed slot of the page that heads the free chain.
MallocFree ==
    /\ ~HeadHasRest /\ free # <<>>
    /\ LET p == Head(free) IN
        \E s \in pg[p].fl :
            /\ pg' = [pg EXCEPT ![p].use = @ + 1, ![p].fl = @ \ {s}]
            /\ live' = live \cup {<<p, s>>}
            /\ free' = FreeAfter(p, s)
    /\ UNCHANGED <<list, num, cnt>>

\* czl_mm_sp_break and czl_mm_sp_delete: the page goes back to the system.
Delete(p) ==
    /\ list' = RemoveFirst(list, p)
    /\ free' = RemoveFirst(free, p)
    /\ pg' = [pg EXCEPT ![p] = NoPage]
    /\ cnt' = cnt - PageSize(pg[p].n)
    /\ UNCHANGED num

\* pool->freeHead && pool->freeHead->next: next is the chain of all pages, so
\* the test is whether the first free page is the oldest one.
FreeHeadHasNext == free # <<>> /\ Head(free) # Last(list)

\* czl_mm_free_buf.
FreeSlot(p, s) ==
    /\ <<p, s>> \in live
    /\ live' = live \ {<<p, s>>}
    /\ \/ pg[p].use = 1 /\ FreeHeadHasNext /\ Delete(p)
       \/ /\ ~(pg[p].use = 1 /\ FreeHeadHasNext)
          /\ pg' = [pg EXCEPT ![p].use = @ - 1, ![p].fl = @ \cup {s}]
          /\ free' = IF pg[p].fl = {} THEN <<p>> \o free ELSE free
          /\ UNCHANGED <<list, num, cnt>>

Next == \/ MallocCreate \/ MallocFails \/ MallocRest \/ MallocFree
        \/ \E p \in Pages, s \in 1..HeapMax : FreeSlot(p, s)

Spec == Init /\ [][Next]_vars

----------------------------------------------------------------------------
(* Properties.                                                             *)

PageType == [n : 0..HeapMax, use : 0..HeapMax, fl : SUBSET (1..HeapMax), rest : 0..HeapMax]

\* The fields of a page header and of the pool have the C types' values; the
\* slot ids and counters of a page never exceed the page's one-byte range.
TypeOK ==
    /\ list \in Seq(Pages) /\ free \in Seq(Pages)
    /\ num \in 1..HeapMax
    /\ pg \in [Pages -> PageType]
    /\ live \subseteq (Pages \X (1..HeapMax))
    /\ cnt \in Int

Untouched(p) == IF pg[p].rest = 0 THEN {} ELSE pg[p].rest..pg[p].n
LiveIn(p) == {s \in 1..HeapMax : <<p, s>> \in live}

\* No slot is handed out twice and none is lost: the slots of a page are those
\* the callers hold, those freed and those never used, each in one place only,
\* and useNum counts the first.
Partition == \A p \in Pages :
    /\ pg[p].rest <= pg[p].n
    /\ LiveIn(p) \cup pg[p].fl \cup Untouched(p) = 1..pg[p].n
    /\ LiveIn(p) \cap pg[p].fl = {}
    /\ (LiveIn(p) \cup pg[p].fl) \cap Untouched(p) = {}
    /\ pg[p].use = Cardinality(LiveIn(p))

\* The two chains: every page is on the first once, and on the free chain exactly
\* the pages with freed slots, once, so that no freed slot is out of reach.
ChainsExact ==
    /\ IsInjective(list) /\ IsInjective(free)
    /\ ToSet(list) = {p \in Pages : pg[p].n > 0}
    /\ ToSet(free) = {p \in Pages : pg[p].fl # {}}

\* Untouched slots exist on the newest page only: czl_mm_malloc_heap, which looks
\* for them there and nowhere else, never makes a page while one has them.
OnlyHeadHasRest == \A i \in 2..Len(list) : pg[list[i]].rest = 0

\* mm_cnt is what the pages occupy, and never exceeds the limit.
PageSizes == [p \in ToSet(list) |-> PageSize(pg[p].n)]
CountExact == cnt = Cardinality(Bytes(PageSizes)) /\ cnt <= Limit
=============================================================================
