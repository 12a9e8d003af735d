------------------------------- MODULE Table -------------------------------
(* Tables (czl_table): one linked list of entries in the order the script  *)
(* sees, and a hash index over the same entries.  A bucket heads a chain    *)
(* linked both ways, whose first entry points back at the bucket itself.    *)
(* The index grows when it is full, shrinks when it is nearly empty, and is *)
(* rebuilt under a new hash key when one chain gets suspiciously long.      *)
EXTENDS Naturals, FiniteSets, Sequences, SequencesExt, FiniteSetsExt

CONSTANTS
    Slots,      \* addresses an entry can have: numbers above those of buckets
    Nums, Strs, \* keys that are numbers, and keys that are strings
    Nil,        \* the null pointer, and the key of a free slot
    HashOf,     \* HashOf[k][g + 1]: the hash of k under the g-th hash key
    LastGen,    \* bound: hash keys after the first
    FirstSizes, \* sizes a table can be created with
    MaxSize,    \* bound: an index with this many buckets has room for all keys
    IndexOf,    \* IndexOf[size][h]: the bucket of hash h, CZL_INDEX_CAC
    MaxChain    \* CZL_MAX_HASH_COLLISION_CNT

Keys == Nums \cup Strs

ASSUME SlotsAssumption ==
    IsFiniteSet(Slots) /\ Slots \subseteq Nat \ (0..MaxSize)
ASSUME KeysAssumption ==
    /\ IsFiniteSet(Keys)
    /\ Nums \cap Strs = {}
    /\ Nil \notin Slots \cup Keys
ASSUME SizesAssumption ==
    /\ MaxSize \in Nat \ {0, 1}
    /\ FirstSizes \subseteq 1..MaxSize
    /\ 2 * Cardinality(Keys) <= MaxSize
    /\ MaxChain \in Nat \ {0}
ASSUME HashAssumption ==
    /\ LastGen \in Nat
    /\ \A k \in Keys : HashOf[k] \in [1..(LastGen + 1) -> Nat]
\* A hash leads to a bucket of the table, whatever its size.
ASSUME IndexAssumption ==
    \A n \in 1..MaxSize : \A k \in Keys : \A g \in 1..(LastGen + 1) :
        IndexOf[n][HashOf[k][g]] \in 0..(n - 1)

VARIABLES
    tab,    \* the table the script's variable holds
    shared, \* another variable holds it too (rc > 1)
    loop,   \* a foreach over the variable is running
    todo,   \* keys that this loop still has to visit
    flaw,   \* what has gone wrong with this table, see the hazards
    order,  \* the keys in the order the script sees, read off tab at each step
    call    \* the call that made the last step: history, read by no action

vars == <<tab, shared, loop, todo, flaw, order, call>>
\* What the program has of it, for TLC's VIEW.
State == <<tab, shared, loop, todo, flaw, order>>

----------------------------------------------------------------------------
(* The index *)

Used(t) == {s \in Slots : t.key[s] # Nil}
Hash(t, k) == HashOf[k][t.gen + 1]
\* A string keeps its hash in the entry; a number is hashed again.
EntryHash(t, s) == IF t.key[s] \in Strs THEN t.hash[s] ELSE Hash(t, t.key[s])

\* The entries met from s on along link, at most all of them.
Follow(link, s) ==
    LET met[n \in 0..Cardinality(Slots)] ==
          IF n = 0 THEN <<>>
          ELSE LET m == met[n - 1]
                   e == IF m = <<>> THEN s ELSE link[Last(m)]
               IN IF e = Nil THEN m ELSE Append(m, e)
    IN met[Cardinality(Slots)]
Listed(t) == Follow(t.next, t.head)
Chain(t, i) == Follow(t.down, t.bucket[i])

\* An entry becomes the first of bucket i.
Push(t, s, i) ==
    LET first == t.bucket[i]
        up == [t.up EXCEPT ![s] = i]
    IN [t EXCEPT !.up = IF first = Nil THEN up ELSE [up EXCEPT ![first] = s],
                 !.down[s] = first, !.bucket[i] = s]

\* Every entry of the list goes into empty buckets, in the order of the list.
Rehash(t, size) ==
    LET l == Listed(t)
        put[n \in 0..Len(l)] ==
          IF n = 0 THEN [t EXCEPT !.bucket = [i \in 0..(size - 1) |-> Nil]]
          ELSE Push(put[n - 1], l[n], IndexOf[size][EntryHash(t, l[n])])
    IN put[Len(l)]

SizeOf(t) == Cardinality(DOMAIN t.bucket)

\* Mutant: the strings keep the hash they had.
KeyUpdateOldHash(t) ==
    Rehash([t EXCEPT !.gen = IF t.gen < LastGen THEN t.gen + 1 ELSE t.gen], SizeOf(t))

\* A new hash key: the strings of the list are hashed again.
NextGen(g) == IF g < LastGen THEN g + 1 ELSE g
HashesAt(t, g) ==
    [s \in Slots |-> IF s \in ToSet(Listed(t)) /\ t.key[s] \in Strs
                     THEN HashOf[t.key[s]][g + 1] ELSE t.hash[s]]
KeyUpdate(t) ==
    LET g == NextGen(t.gen) IN
    Rehash([t EXCEPT !.gen = g, !.hash = HashesAt(t, g)], SizeOf(t))

Crowded(t) == \E i \in DOMAIN t.bucket : Len(Chain(t, i)) >= MaxChain

\* A new size, and a new hash key if a chain is long even so.
Spread(t) == IF Crowded(t) THEN KeyUpdate(t) ELSE t
Resize(t, n) == Spread(Rehash(t, IF n = 0 THEN 1 ELSE n))

\* The entry of key k under hash h, and the chain that was searched.
Matches(t, s, k, h) == t.key[s] = k /\ (k \in Strs => t.hash[s] = h)
Lookup(t, k, h) ==
    LET c == Chain(t, IndexOf[SizeOf(t)][h])
        n == SelectInSeq(c, LAMBDA s : Matches(t, s, k, h))
    IN IF n = 0 THEN Nil ELSE c[n]
Find(t, k) == Lookup(t, k, Hash(t, k))

----------------------------------------------------------------------------
(* The list *)

SetNext(t, s, e) == IF s = Nil THEN [t EXCEPT !.head = e] ELSE [t EXCEPT !.next[s] = e]
SetLast(t, s, e) == IF s = Nil THEN [t EXCEPT !.tail = e] ELSE [t EXCEPT !.last[s] = e]

\* Mutant: the tail is forgotten.
UnlinkKeepsTail(t, s) ==
    LET u == SetNext(t, t.last[s], t.next[s]) IN
    IF t.next[s] = Nil THEN u ELSE SetLast(u, t.next[s], t.last[s])
Unlink(t, s) == SetLast(SetNext(t, t.last[s], t.next[s]), t.next[s], t.last[s])
\* Mutant: a new entry goes to the end, wherever it was to go.
LinkLast(t, s, a) ==
    LET z == t.tail IN
    [SetNext([t EXCEPT !.next[s] = Nil, !.last[s] = z], z, s) EXCEPT !.tail = s]
\* Behind a, or first when there is no a.
LinkBehind(t, s, a) ==
    LET e == IF a = Nil THEN t.head ELSE t.next[a]
        u == [t EXCEPT !.next[s] = e, !.last[s] = a]
        v == SetNext(u, a, s)
        f == v.next[s]
    IN SetLast(v, f, s)

First == 0
End == 1
Never == 2
\* czl_hash_tabkv_insert: ins is an entry, First or End (Never: do not
\* insert at all).
Insert(t, s, k, h, i, ins) ==
    LET new == [Push(t, s, i) EXCEPT !.key[s] = k, !.hash[s] = IF k \in Strs THEN h ELSE 0,
                                     !.count = t.count + 1]
    IN LinkBehind(new, s, IF ins = End THEN new.tail ELSE IF ins = First THEN Nil ELSE ins)

\* czl_delete_tabkv_node, up to the free of the entry.  The values are plain: the
\* deletion of others may start a collection that moves the table itself, whose
\* old place the code goes on with.
Unchain(t, s, i) ==
    LET u == IF t.up[s] \in DOMAIN t.bucket THEN [t EXCEPT !.bucket[i] = t.down[s]]
             ELSE [t EXCEPT !.down[t.up[s]] = t.down[s]]
    IN IF t.down[s] = Nil THEN u ELSE [u EXCEPT !.up[t.down[s]] = t.up[s]]
Cut(t, s, i) ==
    LET c == IF t.cursor = s THEN t.next[s] ELSE t.cursor
        u == Unchain(Unlink([t EXCEPT !.cursor = c], s), s, i)
    IN [u EXCEPT !.key[s] = Nil, !.hash[s] = 0, !.next[s] = Nil, !.last[s] = Nil,
                 !.up[s] = Nil, !.down[s] = Nil, !.count = t.count - 1]

\* Mutant: the copy starts without the place of a loop.
ForkNoCursor(t) == [Rehash(t, SizeOf(t)) EXCEPT !.cursor = Nil]

\* czl_table_fork: the entries in their order, with the hashes they had.
Fork(t) == Rehash(t, SizeOf(t))

Empty(size) ==
    LET none == [s \in Slots |-> Nil] IN
    [key |-> none, hash |-> [s \in Slots |-> 0], next |-> none, last |-> none,
     up |-> none, down |-> none, head |-> Nil, tail |-> Nil, cursor |-> Nil,
     bucket |-> [i \in 0..(size - 1) |-> Nil], count |-> 0, gen |-> 0]

----------------------------------------------------------------------------
(* What a script does with a table *)

OrderOf(t) == LET l == Listed(t) IN [n \in 1..Len(l) |-> t.key[l[n]]]
KeysOf(t) == {t.key[s] : s \in Used(t)}
KeysFrom(t, s) == {t.key[e] : e \in ToSet(Follow(t.next, s))}

Init ==
    /\ tab \in {Empty(n) : n \in FirstSizes}
    /\ shared = FALSE /\ loop = FALSE /\ todo = {} /\ flaw = {} /\ order = <<>>
    /\ call = <<>>

Becomes(t) == tab' = t /\ order' = OrderOf(t)

Unseen == <<"unseen">>

\* Once something is wrong the script only drops the table.
Sound == flaw = {}

\* An address for a new entry, or none when memory is refused.
Free == Slots \ Used(tab)
Place == {Nil} \cup (IF Free = {} THEN {} ELSE {Min(Free)})

\* czl_create_tabkv, after the search for k in t.  The search may have enlarged
\* the table to u, and the insertion may change its hash key; the bucket i was
\* computed before that, and the hash h of a string even before it grew.
Found(u, p, ins) ==
    LET moves == ins \in Slots /\ u.next[ins] # p IN
    /\ p # Nil
    /\ Becomes(IF moves THEN LinkBehind(Unlink(u, p), p, ins) ELSE u)
    /\ flaw' = IF ins = p THEN {"self"}
               ELSE IF moves /\ loop /\ p = u.cursor THEN {"cursor"} ELSE {}
Missed(u, k, p) ==
    /\ p = Nil
    /\ Becomes(u)
    /\ flaw' = IF Find(u, k) # Nil THEN {"stale"} ELSE {}
New(t, u, k, h, i, p, ins) ==
    /\ p = Nil
    /\ \E w \in {IF Len(Chain(u, i)) >= MaxChain THEN KeyUpdate(u) ELSE u}, s \in Place :
        IF s = Nil THEN Becomes(w) /\ flaw' = {}
        ELSE /\ Becomes(Insert(w, s, k, h, i, ins))
             /\ flaw' = IF Find(u, k) # Nil \/ (w.gen # t.gen /\ h # Hash(w, k))
                        THEN {"stale"} ELSE {}
Create(t, k, ins) ==
    \/ /\ t.count + 1 > SizeOf(t)       \* no memory for more buckets
       /\ Becomes(t) /\ flaw' = {}
    \/ \E u \in {IF t.count + 1 > SizeOf(t) THEN Resize(t, 2 * SizeOf(t)) ELSE t} :
       \E h \in {IF k \in Strs THEN Hash(t, k) ELSE Hash(u, k)} :
       \E i \in {IndexOf[SizeOf(u)][h]}, p \in {Lookup(u, k, h)} :
          Found(u, p, ins) \/ IF ins = Never THEN Missed(u, k, p)
                              ELSE New(t, u, k, h, i, p, ins)

\* The table that a write goes to: a copy if it is shared.
Own == IF shared THEN Fork(tab) ELSE tab

\* x = t[k]: never creates, but enlarges a full table, shared or not.
Read(k) ==
    /\ Sound
    /\ Create(tab, k, Never)
    /\ call' = <<"read", k>>
    /\ UNCHANGED <<shared, loop, todo>>

\* t[k] = v: the path to the entry is forked first if the table is shared.
Assign(k) ==
    /\ Sound
    /\ \E t \in {Own} : Create(t, k, End)
    /\ call' = <<"assign", k>>
    /\ shared' = FALSE
    /\ UNCHANGED <<loop, todo>>

\* ins(t, a, k, v): k goes behind a; first if there is no a.
Ins(a, k) ==
    /\ Sound
    /\ \E t \in {Own} : \E p \in {Find(t, a)} :
          Create(t, k, IF p = Nil THEN First ELSE p)
    /\ call' = <<"ins", a, k>>
    /\ todo' = IF order' = order THEN todo ELSE todo \ {k}
    /\ shared' = FALSE
    /\ UNCHANGED loop

\* k => t, or a step of t -= u: found first, then forked, then found again in
\* the bucket computed before.
Delete(k) ==
    /\ Sound
    /\ Find(tab, k) # Nil
    /\ \E t \in {Own} : \E p \in {Find(t, k)} :
       \E u \in {Cut(t, p, IndexOf[SizeOf(tab)][Hash(tab, k)])} :
          \/ Becomes(u)                  \* not so empty, or no memory to shrink
          \/ /\ u.count <= SizeOf(u) \div 4 /\ SizeOf(u) >= 16
             /\ Becomes(Resize(u, SizeOf(u) \div 2))
    /\ call' = <<"delete", k>>
    /\ shared' = FALSE
    /\ todo' = todo \ {k}
    /\ UNCHANGED <<loop, flaw>>

\* One entry of u in t += u: the entry of u is looked up as if it were a
\* variable, by its value.  If that is not a key of t, the key k of the entry
\* is added unseen, a string with the hash it has under the hash key g of u.
Unite(k, g) ==
    /\ Sound
    /\ \E s \in Place \ {Nil}, t \in {Own} :
        LET h == IF k \in Strs THEN HashOf[k][g + 1] ELSE Hash(tab, k)
        IN /\ Becomes(Insert(t, s, k, h, IndexOf[SizeOf(t)][h], End))
           /\ flaw' = IF k \in KeysOf(tab) \/ h # Hash(tab, k) THEN {"union"} ELSE {}
    /\ call' = <<"unite", k>>
    /\ shared' = FALSE
    /\ UNCHANGED <<loop, todo>>

\* sort(t): some order p of the same entries; chains and cursor stay.
Sorted(t, p) ==
    LET n == Len(p)
        At(s) == CHOOSE i \in 1..n : p[i] = s
    IN [t EXCEPT
          !.next = [s \in Slots |-> IF s \in ToSet(p) /\ At(s) < n THEN p[At(s) + 1] ELSE Nil],
          !.last = [s \in Slots |-> IF s \in ToSet(p) /\ At(s) > 1 THEN p[At(s) - 1] ELSE Nil],
          !.head = IF n = 0 THEN Nil ELSE p[1], !.tail = IF n = 0 THEN Nil ELSE p[n]]
Sort ==
    /\ Sound
    /\ \E t \in {Own} : \E p \in SetToSeqs(Used(t)) : Becomes(Sorted(t, p))
    /\ call' = <<"sort">>
    /\ shared' = FALSE /\ todo' = {}
    /\ UNCHANGED <<loop, flaw>>

\* foreach: the place of the loop is kept in the table itself.
LoopBegin ==
    /\ Sound
    /\ tab.head # Nil
    /\ Becomes([tab EXCEPT !.cursor = tab.next[tab.head]])
    /\ flaw' = IF loop THEN {"nested"} ELSE {}
    /\ loop' = TRUE
    /\ todo' = KeysOf(tab) \ {tab.key[tab.head]}
    /\ call' = Unseen
    /\ UNCHANGED shared
LoopNext ==
    /\ Sound /\ loop
    /\ LET s == tab.cursor IN
       IF s = Nil THEN loop' = FALSE /\ UNCHANGED <<tab, order, todo>>
       ELSE /\ Becomes([tab EXCEPT !.cursor = tab.next[s]])
            /\ todo' = todo \ {tab.key[s]}
            /\ UNCHANGED loop
    /\ call' = Unseen
    /\ UNCHANGED <<shared, flaw>>
LoopBreak ==
    /\ Sound /\ loop
    /\ loop' = FALSE /\ todo' = {} /\ call' = Unseen
    /\ UNCHANGED <<tab, order, shared, flaw>>

\* v = t, and the loss of that second holder.
Share ==
    Sound /\ ~shared /\ shared' = TRUE /\ call' = Unseen /\ UNCHANGED <<tab, order, loop, todo, flaw>>
Unshare ==
    Sound /\ shared /\ shared' = FALSE /\ call' = Unseen /\ UNCHANGED <<tab, order, loop, todo, flaw>>

\* t = {}: the table goes and the variable gets a new one.
Drop ==
    /\ \E n \in FirstSizes : Becomes(Empty(n))
    /\ call' = <<"clear">>
    /\ shared' = FALSE /\ loop' = FALSE /\ todo' = {} /\ flaw' = {}

\* The memory manager moves an entry (czl_mm_update_tabkv): every pointer to it
\* is found through its own four links, and the cursor is compared.
Copied(f, s, d, none) == [f EXCEPT ![d] = f[s], ![s] = none]
CopiedTo(t, s, d) ==
    [t EXCEPT !.key = Copied(t.key, s, d, Nil), !.hash = Copied(t.hash, s, d, 0),
              !.next = Copied(t.next, s, d, Nil), !.last = Copied(t.last, s, d, Nil),
              !.up = Copied(t.up, s, d, Nil), !.down = Copied(t.down, s, d, Nil),
              !.cursor = IF t.cursor = s THEN d ELSE t.cursor]
Relisted(t, d) == SetLast(SetNext(t, t.last[d], d), t.next[d], d)
Rechained(t, d) ==
    LET u == IF t.up[d] \in DOMAIN t.bucket THEN [t EXCEPT !.bucket[t.up[d]] = d]
             ELSE [t EXCEPT !.down[t.up[d]] = d]
    IN IF u.down[d] = Nil THEN u ELSE [u EXCEPT !.up[u.down[d]] = d]
Moved(t, s, d) == Rechained(Relisted(CopiedTo(t, s, d), d), d)
MoveEntry(s, d) ==
    /\ Sound
    /\ s \in Used(tab) /\ d \notin Used(tab)
    /\ Becomes(Moved(tab, s, d))
    /\ call' = Unseen
    /\ UNCHANGED <<shared, loop, todo, flaw>>

Next ==
    \/ \E k \in Keys : Read(k) \/ Assign(k) \/ Delete(k)
    \/ \E a, k \in Keys : Ins(a, k)
    \/ \E k \in Keys, g \in 0..LastGen : Unite(k, g)
    \/ Sort \/ LoopBegin \/ LoopNext \/ LoopBreak \/ Share \/ Unshare \/ Drop
    \/ \E s, d \in Slots : MoveEntry(s, d)

Spec == Init /\ [][Next]_vars

----------------------------------------------------------------------------
(* Properties *)

\* The list is one list: linked both ways, with the right tail, over exactly
\* the entries in use, as many as count says (czl_hash_tabkv_insert,
\* czl_swap_tabkv, czl_delete_tabkv_node, czl_mm_update_tabkv).
ListExact == Sound =>
    LET l == Listed(tab) IN
    /\ ToSet(l) = Used(tab) /\ Len(l) = Cardinality(Used(tab)) /\ tab.count = Len(l)
    /\ tab.tail = IF l = <<>> THEN Nil ELSE Last(l)
    /\ \A n \in 1..Len(l) : tab.last[l[n]] = IF n = 1 THEN Nil ELSE l[n - 1]
    /\ tab.cursor \in Used(tab) \cup {Nil}

\* The index agrees with the list: each entry is in one chain, points back at
\* what points at it, and is what a search for its key finds, whatever growth,
\* shrinking, new hash keys, forks and moves happened before.
IndexExact == Sound =>
    /\ \A s \in Used(tab) :
        /\ Find(tab, tab.key[s]) = s
        /\ tab.down[s] # Nil => tab.up[tab.down[s]] = s
    /\ \A i \in DOMAIN tab.bucket :
        tab.bucket[i] # Nil => tab.up[tab.bucket[i]] = i

\* A foreach still reaches every key that was there when it began, has been
\* there since, and was not moved by the script: deletions of the entry it
\* stands on, forks and moved entries lose none (foreach_inx).
LoopOwes == (Sound /\ loop) => todo \subseteq KeysFrom(tab, tab.cursor)

Map == INSTANCE OrderedMap

\* What the script sees of a table is an ordered map: each call that leaves the
\* table sound has the effect of that call, on the key and at the place it names
\* and on nothing else, or is refused memory; growth, shrinking, new hash keys,
\* copies of a shared table and moved entries (czl_hash_table_resize,
\* czl_hash_key_update, czl_table_fork, czl_mm_update_tabkv) are not seen at all.
IsOrderedMap == Map!Init /\ [][flaw' = {} => Map!Next]_vars
============================================================================
