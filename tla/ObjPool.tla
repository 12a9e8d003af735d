------------------------------- MODULE ObjPool -------------------------------
(***************************************************************************)
(* One page pool of type CZL_MM_OBJ_SP: src/code/czl_mm.c, the second half *)
(* of czl_mm_malloc_heap, czl_mm_fill_page, czl_mm_free_ov and             *)
(* czl_mm_fill_heap.  The script never holds an object of such a pool but  *)
(* a handle, a slot of the BUF pool mmp_obj that points to it, because the *)
(* pool moves objects: when enough slots of a page are free its remaining  *)
(* objects go to other pages and the page is deleted.  Strings, tables,    *)
(* arrays, stacks, coroutines, files and class instances live here.        *)
(*                                                                         *)
(* A call is one action, but for czl_mm_fill_page: a pass over the free    *)
(* chain and the move of one object are steps of their own.  The code      *)
(* takes the slot that heads a page's list of used or of freed slots; the  *)
(* lists are sets here and the slot is any member.                         *)
(***************************************************************************)
EXTENDS Integers, Sequences, FiniteSets, SequencesExt, Memory

CONSTANTS
    Pages,          \* bound: the pages that exist at one time
    Handles,        \* bound: the handles that exist at one time
    Nil,            \* no handle
    HeapMax,        \* CZL_MM_SP_HEAP_NUM_MAX (200), also the highest rank
    ByteRange,      \* the values of an unsigned char (256)
    Setups          \* [first: gp->mmp_rank at start, ranks: what the script passes
                    \* to setRank, adapts: what gp->mmp_selfAdapt takes, faults:
                    \* "os", malloc of a page fails, "handle", of a handle]

ASSUME HeapMaxAssumption == /\ HeapMax \in Nat \ {0} /\ ByteRange \in Nat
                            /\ HeapMax < ByteRange
ASSUME NilAssumption == Nil \notin Handles \cup Pages \cup (Pages \X (1..HeapMax))
ASSUME SetupAssumption == \A u \in Setups :
    /\ u.first \in 0..(ByteRange - 1) /\ u.ranks \subseteq 0..(ByteRange - 1)
    /\ u.adapts \subseteq BOOLEAN /\ u.faults \subseteq {"os", "handle"}

VARIABLES
    setup,  \* one of Setups
    pool,   \* the czl_mm_sp_pool and its pages
    cell,   \* the handle each slot in use points back to
    loc,    \* where each handle points, or Nil
    rank,   \* gp->mmp_rank
    adapt,  \* gp->mmp_selfAdapt
    pc,     \* "idle", or the step czl_mm_fill_page is at
    fp,     \* its page
    gc,     \* size # 0: it is called for a request that failed
    wild    \* it took a slot of a page that has none free, or freed a page with
            \* objects: what memory holds from then on is not followed

vars == <<setup, pool, cell, loc, rank, adapt, pc, fp, gc, wild>>

Slots == 1..HeapMax
NoPage == [n |-> 0, use |-> {}, fl |-> {}, fn |-> 0, rest |-> 0, rank |-> 0]

\* CZL_MM_SP_THRESHOLD: 0.005 * rank * num, where 0.005 is 1 / 200.
Threshold(pg) == (pg.rank * pg.n) \div HeapMax

Init ==
    /\ setup \in Setups
    /\ pool = [list |-> <<>>, free |-> <<>>, num |-> 1,
               pg |-> [p \in Pages |-> NoPage], cnt |-> 0, sum |-> 0]
    /\ cell = [p \in Pages |-> [s \in Slots |-> Nil]]
    /\ loc = [h \in Handles |-> Nil]
    /\ rank = setup.first /\ adapt \in setup.adapts
    /\ pc = "idle" /\ fp = Nil /\ gc = FALSE /\ wild = FALSE

Live == {h \in Handles : loc[h] # Nil}
Idle == pc = "idle" /\ ~wild

----------------------------------------------------------------------------
(* czl_mm_malloc_heap.                                                     *)

HeadHasRest == pool.list # <<>> /\ pool.pg[Head(pool.list)].rest # 0
NoRoom == ~HeadHasRest /\ pool.free = <<>>
\* restHead after a slot is cut from the untouched end: 0 once it was the last.
NextRest(r, n) == IF r = n THEN 0 ELSE r + 1
\* The slots of the next page, after one of n.
NextNum(n) == IF n + 1 <= HeapMax THEN n + 1 ELSE n

\* A page just made, its first slot in use; one with a slot more, or a freed slot,
\* in use, where freeNum is one byte; one with a slot freed, or given up; one of
\* another rank.
Fresh(n, k) == [n |-> n, use |-> {1}, fl |-> {}, fn |-> 0, rest |-> IF n > 1 THEN 2 ELSE 0, rank |-> k]
RestTaken(r) == [r EXCEPT !.use = @ \cup {r.rest}, !.rest = NextRest(@, r.n)]
FreedTaken(r, s) == [r EXCEPT !.use = @ \cup {s}, !.fl = @ \ {s}, !.fn = (@ - 1) % ByteRange]
GivenBack(r, s) == [r EXCEPT !.use = @ \ {s}, !.fl = @ \cup {s}, !.fn = (@ + 1) % ByteRange]
GivenUp(r, s) == [r EXCEPT !.use = @ \ {s}]
Ranked(r, k) == [r EXCEPT !.rank = k]

\* The slot counts czl_mm_sp_create may end with: num, or a halving of it.
Tries == {pool.num \div d : d \in {1, 2, 4, 8, 16, 32, 64, 128}} \ {0}
Obtained == IF "os" \in setup.faults THEN Tries ELSE {pool.num}

\* The handle and the slot point to each other.
Bind(h, p, s) ==
    /\ cell' = [cell EXCEPT ![p][s] = h]
    /\ loc' = [loc EXCEPT ![h] = <<p, s>>]
Unbind(h, p, s) ==
    /\ cell' = [cell EXCEPT ![p][s] = Nil]
    /\ loc' = [loc EXCEPT ![h] = Nil]

\* The rank of a new page: the setting, or the average of the pool's pages.
NewRank == IF adapt /\ pool.cnt > 0 THEN pool.sum \div pool.cnt ELSE rank

MallocCreate(h) ==
    /\ NoRoom
    /\ \E p \in Pages \ ToSet(pool.list), n \in Obtained :
          /\ pool' = [pool EXCEPT
                !.list = <<p>> \o @, !.num = NextNum(n),
                !.cnt = @ + 1, !.sum = @ + NewRank,
                !.pg[p] = Fresh(n, NewRank)]
          /\ Bind(h, p, 1)

MallocRest(h) ==
    /\ HeadHasRest
    /\ LET p == Head(pool.list) IN
        /\ pool' = [pool EXCEPT !.pg[p] = RestTaken(pool.pg[p])]
        /\ Bind(h, p, pool.pg[p].rest)

\* A freed slot of p goes back into use; the last one takes p off the free chain.
Taken(P, p, s) ==
    [P EXCEPT !.pg[p] = FreedTaken(P.pg[p], s),
              !.free = IF P.pg[p].fl = {s} THEN RemoveFirst(@, p) ELSE @]

MallocFree(h) ==
    /\ ~HeadHasRest /\ pool.free # <<>>
    /\ LET p == Head(pool.free) IN
        \E s \in pool.pg[p].fl : pool' = Taken(pool, p, s) /\ Bind(h, p, s)

Malloc(h) ==
    /\ Idle /\ h \notin Live
    /\ MallocCreate(h) \/ MallocRest(h) \/ MallocFree(h)
    /\ UNCHANGED <<rank, adapt, pc, fp, gc, wild>>

\* NULL.  A page that cannot be had leaves num at 1; a handle that cannot be had
\* leaves num where the page was obtained, or freeNum counted down.
MallocFails ==
    /\ Idle
    /\ \/ /\ NoRoom /\ "os" \in setup.faults
          /\ pool' = [pool EXCEPT !.num = 1]
       \/ /\ NoRoom /\ "handle" \in setup.faults
          /\ \E n \in Obtained : pool' = [pool EXCEPT !.num = n]
       \/ /\ HeadHasRest /\ "handle" \in setup.faults
          /\ UNCHANGED pool
       \/ /\ ~HeadHasRest /\ pool.free # <<>> /\ "handle" \in setup.faults
          /\ pool' = [pool EXCEPT !.pg[Head(pool.free)].fn = (@ - 1) % ByteRange]
    /\ UNCHANGED <<cell, loc, rank, adapt, pc, fp, gc, wild>>

----------------------------------------------------------------------------
(* czl_mm_free_heap.                                                       *)

\* czl_mm_sp_break and czl_mm_sp_delete.
Deleted(P, p) ==
    [P EXCEPT !.list = RemoveFirst(@, p), !.free = RemoveFirst(@, p),
              !.pg[p] = NoPage, !.cnt = @ - 1, !.sum = @ - P.pg[p].rank]

SlotFreed(P, p, s) ==
    [P EXCEPT !.pg[p] = GivenBack(P.pg[p], s),
              !.free = IF P.pg[p].fl = {} THEN <<p>> \o @ ELSE @]

\* pool->freeHead && pool->freeHead->next, where next is the chain of all pages.
FreeHeadHasNext(P) == P.free # <<>> /\ Head(P.free) # Last(P.list)

\* czl_mm_free_ov up to the check of the fragmentation.
Released(P, p, s) ==
    IF P.pg[p].use = {s} /\ FreeHeadHasNext(P) THEN Deleted(P, p)
                                                 ELSE SlotFreed(P, p, s)

Fragmented(P, p) ==
    LET pg == P.pg[p] IN
        pg.n > 0 /\ pg.rank > 0 /\ pg.fn > Threshold(pg) /\ p # Head(P.list)

\* Where czl_mm_fill_page starts: at CZL_FREE when freeNum says all slots are free.
Entry(pg) == IF pg.n = pg.fn THEN "free" ELSE "scan"

\* The rest of czl_mm_free_ov: p is emptied if too many of its slots are free.
FillIfFragmented(p) ==
    /\ IF Fragmented(pool', p) THEN pc' = Entry(pool'.pg[p]) /\ fp' = p /\ gc' = FALSE
                               ELSE UNCHANGED <<pc, fp, gc>>
    /\ UNCHANGED <<rank, adapt, wild>>

\* A page with a rank: the slot is freed in place.
FreeOnRank(h, p, s) ==
    /\ pool.pg[p].rank > 0
    /\ pool' = Released(pool, p, s)
    /\ Unbind(h, p, s)
    /\ FillIfFragmented(p)

\* The page czl_mm_fill_heap takes an object from to fill the gap.
Donor == IF pool.free # <<>> THEN Head(pool.free) ELSE Head(pool.list)

\* czl_mm_fill_heap, a page of rank 0: the donor itself is freed in place; an
\* empty donor is deleted first; else one of its objects fills the gap.
FreeInDonor(h, p, s) ==
    /\ pool.pg[p].rank = 0 /\ p = Donor
    /\ pool' = Released(pool, p, s)
    /\ Unbind(h, p, s)
    /\ FillIfFragmented(p)

FreeEmptyDonor(h, p, s) ==
    /\ pool.pg[p].rank = 0 /\ p # Donor /\ pool.pg[Donor].use = {}
    /\ pool' = Released(Deleted(pool, Donor), p, s)
    /\ Unbind(h, p, s)
    /\ FillIfFragmented(p)

FreeByDonor(h, p, s) ==
    /\ pool.pg[p].rank = 0 /\ p # Donor /\ pool.pg[Donor].use # {}
    /\ \E t \in pool.pg[Donor].use :
        /\ pool' = Released(pool, Donor, t)
        /\ cell' = [cell EXCEPT ![p][s] = cell[Donor][t], ![Donor][t] = Nil]
        /\ loc' = [loc EXCEPT ![h] = Nil, ![cell[Donor][t]] = <<p, s>>]
    /\ FillIfFragmented(Donor)

Free(h) ==
    /\ Idle /\ h \in Live
    /\ LET p == loc[h][1]
           s == loc[h][2] IN
        FreeOnRank(h, p, s) \/ FreeInDonor(h, p, s)
            \/ FreeEmptyDonor(h, p, s) \/ FreeByDonor(h, p, s)

----------------------------------------------------------------------------
(* czl_mm_fill_page.                                                       *)

FpIndex == CHOOSE i \in 1..Len(pool.free) : pool.free[i] = fp

\* The pages one pass looks at: those after fp on the free chain, then those
\* before it, nearest first.
Others == SubSeq(pool.free, FpIndex + 1, Len(pool.free))
              \o Reverse(SubSeq(pool.free, 1, FpIndex - 1))
FreeNum(i) == pool.pg[Others[i]].fn
\* The sum of their freeNum: as many pairs of a page and a number up to its freeNum.
RoomIn(j) == Cardinality(Bytes([p \in ToSet(SubSeq(Others, 1, j)) |-> pool.pg[p].fn]))

\* Mutant: only the slots in use need a place, but the page's own are not counted.
EnoughEarly(j) == RoomIn(j) + 1 >= pool.pg[fp].n - pool.pg[fp].fn

\* Room for all slots of fp that are not free.  The difference is computed as an
\* unsigned long: when freeNum is too large nothing is ever enough.
Enough(j) == /\ pool.pg[fp].n >= pool.pg[fp].fn
             /\ RoomIn(j) >= pool.pg[fp].n - pool.pg[fp].fn

\* A pass stops at the first page with more free slots than fp, or with enough.
Looked == {i \in 1..Len(Others) : ~Enough(i - 1)}
\* Mutant: a page with as many free slots is taken for a better one.
FreerOrEqual == {i \in Looked : FreeNum(i) >= pool.pg[fp].fn}
Freer == {i \in Looked : FreeNum(i) > pool.pg[fp].fn}

\* CZL_MM_CMP: the ranks of the pages looked at fall when memory was short, and
\* rise when a page was emptied for its fragmentation.
Falling(Q) == {p \in Q : gc /\ pool.pg[p].rank > 1}
Rising(Q)  == {p \in Q : ~gc /\ pool.pg[p].rank < HeapMax}
NextRank(Q, p) == IF p \in Falling(Q) THEN pool.pg[p].rank - 1
                  ELSE IF p \in Rising(Q) THEN pool.pg[p].rank + 1 ELSE pool.pg[p].rank
Adapted(Q) ==
    IF ~adapt THEN pool
    ELSE [pool EXCEPT
            !.sum = @ - Cardinality(Falling(Q)) + Cardinality(Rising(Q)),
            !.pg = [p \in Pages |-> Ranked(pool.pg[p], NextRank(Q, p))]]

Begin(p, short) ==
    /\ Idle
    /\ pc' = Entry(pool.pg[p]) /\ fp' = p /\ gc' = short
    /\ UNCHANGED <<pool, cell, loc, rank, adapt, wild>>

\* czl_mm_scan_page and czl_mm_scan_pool: the pool's first free page.
Collect(short) == pool.free # <<>> /\ Begin(Head(pool.free), short)

Done == pc' = "idle" /\ fp' = Nil

\* CZL_FREE from the entry.  Once freeNum has wrapped around the page may have
\* objects, and their handles are left pointing to memory that is free.
FreeWhole ==
    /\ pc = "free"
    /\ pool' = Deleted(pool, fp) /\ Done
    /\ wild' = (pool.pg[fp].use # {})
    /\ UNCHANGED <<cell, loc, rank, adapt, gc>>

\* A page with more free slots becomes the one to empty, and a new pass begins.
ScanAgain ==
    /\ pc = "scan" /\ Freer # {}
    /\ LET i == Min(Freer) IN
        /\ fp' = Others[i]
        /\ pool' = Adapted({Others[j] : j \in 1..(i - 1)})
    /\ UNCHANGED <<cell, loc, rank, adapt, pc, gc, wild>>

\* The pass ends: not enough room, nothing to move, or the objects are moved.
ScanEnds ==
    /\ pc = "scan" /\ Freer = {}
    /\ LET P == Adapted({Others[i] : i \in Looked})
           enough == Enough(Len(Others)) IN
        \/ ~enough /\ pool' = P /\ Done
        \/ enough /\ P.pg[fp].use = {} /\ pool' = Deleted(P, fp) /\ Done
        \/ enough /\ P.pg[fp].use # {} /\ pool' = P /\ pc' = "move" /\ UNCHANGED fp
    /\ UNCHANGED <<cell, loc, rank, adapt, gc, wild>>

\* Where the next object goes: the page after fp on the free chain or, when
\* there is none any more, the one before it.
HasTarget == Len(pool.free) > 1
Target == IF FpIndex < Len(pool.free) THEN pool.free[FpIndex + 1]
                                      ELSE pool.free[FpIndex - 1]

\* Mutant: the handle of the moved object is not redirected.
MoveStale ==
    /\ pc = "move" /\ HasTarget /\ ~wild
    /\ \E t \in pool.pg[fp].use, s \in pool.pg[Target].fl :
        LET P == [Taken(pool, Target, s) EXCEPT !.pg[fp] = GivenUp(@, t)] IN
        /\ cell' = [cell EXCEPT ![Target][s] = cell[fp][t], ![fp][t] = Nil]
        /\ UNCHANGED loc
        /\ \/ P.pg[fp].use = {} /\ pool' = Deleted(P, fp) /\ Done
           \/ P.pg[fp].use # {} /\ pool' = P /\ UNCHANGED <<pc, fp>>
    /\ UNCHANGED <<rank, adapt, gc, wild>>

Move ==
    /\ pc = "move" /\ HasTarget /\ ~wild
    /\ \E t \in pool.pg[fp].use, s \in pool.pg[Target].fl :
        LET P == [Taken(pool, Target, s) EXCEPT !.pg[fp] = GivenUp(@, t)] IN
        /\ cell' = [cell EXCEPT ![Target][s] = cell[fp][t], ![fp][t] = Nil]
        /\ loc' = [loc EXCEPT ![cell[fp][t]] = <<Target, s>>]
        /\ \/ P.pg[fp].use = {} /\ pool' = Deleted(P, fp) /\ Done
           \/ P.pg[fp].use # {} /\ pool' = P /\ UNCHANGED <<pc, fp>>
    /\ UNCHANGED <<rank, adapt, gc, wild>>

\* freeNum promised more room than there was: a slot is taken through a null page.
MoveWild ==
    /\ pc = "move" /\ ~HasTarget /\ ~wild
    /\ wild' = TRUE
    /\ UNCHANGED <<pool, cell, loc, rank, adapt, pc, fp, gc>>

----------------------------------------------------------------------------
\* czl_sys_setRank: the setting in force is tested, not the new one.
SetRank(r) ==
    /\ Idle /\ rank <= HeapMax
    /\ rank' = r
    /\ UNCHANGED <<pool, cell, loc, adapt, pc, fp, gc, wild>>

\* czl_sys_setSa.
SetSa(a) ==
    /\ Idle
    /\ adapt' = a
    /\ UNCHANGED <<pool, cell, loc, rank, pc, fp, gc, wild>>

Fill == FreeWhole \/ ScanAgain \/ ScanEnds \/ Move \/ MoveWild

Next == /\ \/ \E h \in Handles : Malloc(h) \/ Free(h)
           \/ MallocFails
           \/ \E short \in BOOLEAN : Collect(short)
           \/ Fill
           \/ \E r \in setup.ranks : SetRank(r)
           \/ \E a \in setup.adapts : SetSa(a)
        /\ UNCHANGED setup

Spec == Init /\ [][Next]_vars

----------------------------------------------------------------------------
(* Properties.                                                             *)

PageType == [n : 0..HeapMax, use : SUBSET Slots, fl : SUBSET Slots, fn : 0..(ByteRange - 1),
             rest : 0..HeapMax, rank : 0..(ByteRange - 1)]

\* Every field has the values of its C type, and ids stay within the page.
TypeOK ==
    /\ setup \in Setups
    /\ pool.list \in Seq(Pages) /\ pool.free \in Seq(Pages)
    /\ pool.num \in Slots
    /\ pool.pg \in [Pages -> PageType]
    /\ pool.cnt \in Nat /\ pool.sum \in Nat
    /\ cell \in [Pages -> [Slots -> Handles \cup {Nil}]]
    /\ loc \in [Handles -> (Pages \X Slots) \cup {Nil}]
    /\ rank \in 0..(ByteRange - 1) /\ adapt \in BOOLEAN
    /\ pc \in {"idle", "free", "scan", "move"} /\ fp \in Pages \cup {Nil}
    /\ gc \in BOOLEAN /\ wild \in BOOLEAN

Untouched(pg) == IF pg.rest = 0 THEN {} ELSE pg.rest..pg.n

\* The slots of a page are those in use, freed and untouched, each in one place
\* once; while fp is being emptied the slots it has given up are in none.
SlotsExact == \A p \in Pages :
    LET pg == pool.pg[p] IN
        /\ pg.use \cap pg.fl = {}
        /\ (pg.use \cup pg.fl) \cap Untouched(pg) = {}
        /\ ~(pc = "move" /\ p = fp) =>
              pg.use \cup pg.fl \cup Untouched(pg) = 1..pg.n

\* A handle and the slot it points to point to each other, whatever was moved:
\* the script's reference stays the reference of the same object.  A handle dangles
\* only where its page was freed with it, and only after handles were refused.
HandlesExact ==
    /\ \A h \in Live : \/ /\ loc[h][2] \in pool.pg[loc[h][1]].use
                          /\ cell[loc[h][1]][loc[h][2]] = h
                       \/ wild /\ pool.pg[loc[h][1]].n = 0
    /\ \A p \in Pages : \A s \in pool.pg[p].use :
          cell[p][s] \in Live /\ loc[cell[p][s]] = <<p, s>>
    /\ wild => "handle" \in setup.faults

\* freeNum counts the free list of the page, unless a handle was refused:
\* czl_mm_fill_page relies on it to have room for every object before it moves
\* the first.
FreeNumExact == "handle" \notin setup.faults =>
    \A p \in Pages : pool.pg[p].fn = Cardinality(pool.pg[p].fl)

\* When a handle cannot be had freeNum drifts below the number of free slots: a
\* slot is taken where there is none, or a page freed with its objects, only when
\* some freeNum has wrapped around.
WildOnlyAfterWrap ==
    [][~wild /\ wild' => \E p \in Pages : pool.pg[p].fn > Cardinality(pool.pg[p].fl)]_vars

\* Every page is on the chain of pages once, and on the free chain exactly the
\* pages with freed slots, once; only the newest page has untouched slots.
ChainsExact ==
    /\ \A i \in 2..Len(pool.list) : pool.pg[pool.list[i]].rest = 0
    /\ IsInjective(pool.list) /\ IsInjective(pool.free)
    /\ ToSet(pool.list) = {p \in Pages : pool.pg[p].n > 0}
    /\ ToSet(pool.free) = {p \in Pages : pool.pg[p].fl # {}}

\* All of it: through every move and deletion the slots, the handles that point
\* to them and the chains that lead to them stay in step, but for the objects of a
\* page freed after a wrap around.
PoolExact == TypeOK /\ SlotsExact /\ HandlesExact /\ ChainsExact

\* The average rank of a new page is over the pages there are, at their ranks.
Ranks(P) == [p \in ToSet(P.list) |-> P.pg[p].rank]
SumExact == /\ pool.cnt = Len(pool.list)
            /\ pool.sum = Cardinality(Bytes(Ranks(pool)))

\* The counters kept by hand, freeNum per page and the sum of the ranks, are right,
\* and a page is emptied only when the others have as many slots as they promise.
CountersExact == [](FreeNumExact /\ SumExact) /\ WildOnlyAfterWrap

\* czl_mm_fill_page comes to an end: a pass that starts again has found a freer
\* page, and every move leaves one object less.
FillDescends == [][(pc # "idle" /\ pc' # "idle" /\ ~wild') =>
    \/ pc = "scan" /\ pc' = "scan" /\ pool.pg[fp'].fn > pool.pg[fp].fn
    \/ pc = "scan" /\ pc' = "move" /\ fp' = fp
    \/ pc = "move" /\ pc' = "move" /\ fp' = fp
         /\ Cardinality(pool'.pg[fp].use) < Cardinality(pool.pg[fp].use)]_vars
=============================================================================
