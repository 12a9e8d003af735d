-------------------------- MODULE ThreadGroup_proof --------------------------
(***************************************************************************)
(* Proofs about ThreadGroup, for any number of threads, calls and reports, *)
(* both kinds of group and every limit.                                    *)
(***************************************************************************)
EXTENDS ThreadGroup, ChainLemmas

----------------------------------------------------------------------------
(* The inductive invariant.                                                *)

\* threads() starts its group at once and sends to all; scheduler() picks.
KindInv == /\ pc \in {"start", "each"} => group.kind = "threads"
           /\ pc \in {"create", "pick", "alive", "push"} => group.kind = "scheduler"

\* The labels of a call that is at a thread of the list, and of the freeing.
Along   == {"each", "pick", "alive", "push", "free", "kill", "post"}
Freeing == {"free", "kill", "post", "gone", "crash"}

\* The freeing of the group, if it has begun, has not come to t yet.
Untreated(t) == \/ pc \notin Freeing
                \/ pc = "free" /\ at = t
                \/ pc \in {"free", "kill", "post"} /\ Before(group.list, at, t)

\* Each thread stands in the list once, and a call that goes along the list is at
\* one of its threads.
ListInv == /\ IsInjective(group.list)
           /\ pc \in Along => at \in Listed

\* What a thread has waiting was sent by as many calls; the call under way has not
\* yet sent to the threads it still comes to.
SentInv == /\ \A t \in Threads : nb[t] <= sends
           /\ pc \in {"create", "pick", "alive", "push"} => \A t \in Threads : nb[t] < sends
           /\ pc = "each" => \A t \in Threads :
                               t = at \/ Before(group.list, at, t) => nb[t] < sends

\* Until it is freed only the child itself says that it has ended, by alive, and its
\* pipe stays; a thread that was never started is in no list and has no pipe.
LifeInv == /\ \A t \in Threads : child[t] = "unborn" => t \notin Listed /\ pipe[t] = "none"
           /\ \A t \in Threads : pipe[t] = "freed" => child[t] = "done"
           /\ \A t \in Threads : Untreated(t) =>
                /\ child[t] # "delete" /\ (alive[t] <=> child[t] \in {"run", "clear"})
                /\ t \in Listed => pipe[t] = "live"

Bound == IF FirstLimit = 0 THEN 1 ELSE FirstLimit

\* count never counts fewer threads than there are, limit only goes down, and
\* when a thread is to be started there is room for it.
RoomInv == /\ Len(group.list) <= Bound
           /\ group.kind = "scheduler" =>
                /\ Len(group.list) <= group.count /\ group.limit <= FirstLimit
                /\ pc = "create" \/ group.cur = Null => Len(group.list) < Bound

GroupInv == /\ TypeOK /\ CursorsListed /\ KindInv /\ ListInv
            /\ SentInv /\ LifeInv /\ RoomInv

----------------------------------------------------------------------------
(* The list and its order.                                                 *)

\* What the invariant says of the list.
LEMMA ListFacts ==
    ASSUME TypeOK, ListInv
    PROVE  /\ group.list \in Seq(Threads) /\ IsInjective(group.list)
           /\ Len(group.list) \in Nat /\ Listed \subseteq Threads
           /\ group.list # <<>> => Head(group.list) \in Listed
           /\ Listed # {} => group.list # <<>> /\ Len(group.list) > 0
<1>1. group.list \in Seq(Threads) /\ IsInjective(group.list)
  BY DEF TypeOK, ListInv
<1>2. Len(group.list) \in Nat /\ DOMAIN group.list = 1..Len(group.list)
  BY <1>1, LenProperties
<1>3. Listed \subseteq Threads
  BY <1>1, <1>2, ElementOfSeq DEF Listed, ToSet
<1>4. group.list # <<>> => Head(group.list) \in Listed
  BY <1>1, HeadIsFirst DEF Listed
<1>5. Listed # {} => group.list # <<>> /\ Len(group.list) > 0
  BY <1>1, <1>2, EmptySeq DEF Listed, ToSet
<1> QED
  BY <1>1, <1>2, <1>3, <1>4, <1>5

\* NextOf is the next thread of the list, or none at its end.
LEMMA NextIs ==
    ASSUME TypeOK, ListInv, NEW t \in Listed
    PROVE  /\ NextOf(t) \in Listed \cup {Null} /\ NextOf(t) # t
           /\ NextOf(t) # Null => Before(group.list, t, NextOf(t))
           /\ \A y : Before(group.list, t, y) =>
                       NextOf(t) # Null /\ (y = NextOf(t) \/ Before(group.list, NextOf(t), y))
<1> DEFINE l == group.list
<1>1. l \in Seq(Threads) /\ IsInjective(l) /\ Listed = ToSet(l) /\ Listed \subseteq Threads /\ Len(l) \in Nat
      /\ DOMAIN l = 1..Len(l)
  BY ListFacts, LenProperties DEF Listed
<1>2. PICK i \in 1..Len(l) : i = CHOOSE j \in 1..Len(l) : l[j] = t
  BY <1>1 DEF ToSet
<1>3. \E j \in 1..Len(l) : l[j] = t
  BY <1>1 DEF ToSet
<1>4. l[i] = t /\ NextOf(t) = IF i < Len(l) THEN l[i + 1] ELSE Null
  BY <1>2, <1>3 DEF NextOf
<1>5. i < Len(l) <=> i # Len(l)
  BY <1>1
<1> HIDE DEF l
<1>6. /\ i # Len(l) => l[i + 1] \in Listed /\ l[i + 1] # t /\ Before(l, t, l[i + 1])
      /\ \A y : Before(l, t, y) => i # Len(l) /\ (y = l[i + 1] \/ Before(l, l[i + 1], y))
  BY <1>1, <1>4, NextInChain
<1> QED
  BY <1>1, <1>4, <1>5, <1>6, NullAssumption DEF l

\* The order of the list is that of a chain.
LEMMA BehindIsListed ==
    ASSUME TypeOK, ListInv, NEW x, NEW y, Before(group.list, x, y)
    PROVE  x \in Listed /\ y \in Listed /\ x # y /\ ~Before(group.list, y, x)
BY ListFacts, OrderIsTotal DEF Listed

----------------------------------------------------------------------------
(* The steps.                                                              *)

\* What the group and the call are, which the steps of a child leave alone.
LEMMA GroupKept ==
    ASSUME GroupInv, UNCHANGED <<group, pc, at, sends>>
    PROVE  /\ CursorsListed' /\ KindInv' /\ ListInv' /\ RoomInv' /\ Listed' = Listed
           /\ \A t \in Threads : Untreated(t)' <=> Untreated(t)
BY DEF GroupInv, CursorsListed, KindInv, ListInv, RoomInv, Bound, Listed, Untreated, Along

\* A child handles what it was sent, reports, or ends.
LEMMA ChildStep ==
    ASSUME GroupInv, NEW t \in Threads, Child(t)
    PROVE  GroupInv'
<1>0. /\ TypeOK /\ SentInv /\ LifeInv
      /\ child \in [Threads -> {"unborn", "run", "clear", "delete", "done"}]
      /\ pipe \in [Threads -> {"none", "live", "freed"}] /\ alive \in [Threads -> BOOLEAN]
      /\ nb \in [Threads -> 0..MaxSends] /\ rb \in [Threads -> 0..MaxReports]
      /\ sends \in 0..MaxSends /\ MaxSends \in Nat /\ MaxReports \in Nat
  BY LimitAssumption DEF GroupInv, TypeOK
<1>1. UNCHANGED <<group, pc, at, sends>>
  BY DEF Child, Handle, Report, Exit, ExitClear, ExitDelete
<1>2. /\ CursorsListed' /\ KindInv' /\ ListInv' /\ RoomInv' /\ Listed' = Listed
      /\ \A u \in Threads : Untreated(u)' <=> Untreated(u)
  BY <1>1, GroupKept
<1>3. CASE Handle(t) \/ Report(t)
  <2>1. /\ UNCHANGED <<child, pipe, alive>>
        /\ nb' \in [Threads -> 0..MaxSends] /\ rb' \in [Threads -> 0..MaxReports]
        /\ \A u \in Threads : nb'[u] <= nb[u]
    <3>1. CASE Handle(t)
      <4>1. nb' = [nb EXCEPT ![t] = 0] /\ UNCHANGED <<child, pipe, alive, rb>>
        BY <3>1 DEF Handle
      <4>2. nb' \in [Threads -> 0..MaxSends] /\ \A u \in Threads : nb'[u] <= nb[u]
        BY <1>0, <4>1
      <4> QED
        BY <1>0, <4>1, <4>2
    <3>2. CASE Report(t)
      <4>1. rb' = [rb EXCEPT ![t] = @ + 1] /\ rb[t] < MaxReports /\ UNCHANGED <<child, pipe, alive, nb>>
        BY <3>2 DEF Report
      <4>2. rb' \in [Threads -> 0..MaxReports]
        BY <1>0, <4>1
      <4>3. \A u \in Threads : nb'[u] <= nb[u]
        BY <1>0, <4>1
      <4> QED
        BY <1>0, <4>1, <4>2, <4>3
    <3> QED
      BY <1>3, <3>1, <3>2
  <2>2. TypeOK'
    BY <1>0, <1>1, <2>1 DEF TypeOK
  <2>3. SentInv'
    <3>1. \A u \in Threads : nb[u] \in Int /\ nb'[u] \in Int /\ nb'[u] <= nb[u] /\ sends \in Int
      BY <1>0, <2>1
    <3>2. \A u \in Threads : (nb[u] <= sends => nb'[u] <= sends) /\ (nb[u] < sends => nb'[u] < sends)
      BY <3>1
    <3> QED
      BY <1>0, <1>1, <3>2 DEF SentInv
  <2>4. LifeInv'
    BY <1>0, <1>1, <1>2, <2>1 DEF LifeInv
  <2> QED
    BY <1>2, <2>2, <2>3, <2>4 DEF GroupInv
<1>4. CASE Exit(t) \/ ExitClear(t) \/ ExitDelete(t)
  <2>1. UNCHANGED <<nb, rb>>
    BY <1>4 DEF Exit, ExitClear, ExitDelete
  <2>2. TypeOK'
    BY <1>0, <1>1, <1>4 DEF TypeOK, Exit, ExitClear, ExitDelete
  <2>3. SentInv'
    BY <1>0, <1>1, <2>1 DEF SentInv
  <2>4. LifeInv'
    <3>1. CASE Exit(t)
      BY <1>0, <1>1, <1>2, <3>1 DEF LifeInv, Exit
    <3>2. CASE ExitClear(t)
      BY <1>0, <1>1, <1>2, <3>2 DEF LifeInv, ExitClear
    <3>3. CASE ExitDelete(t)
      BY <1>0, <1>1, <1>2, <3>3 DEF LifeInv, ExitDelete
    <3> QED
      BY <1>4, <3>1, <3>2, <3>3
  <2> QED
    BY <1>2, <2>2, <2>3, <2>4 DEF GroupInv
<1> QED
  BY <1>3, <1>4 DEF Child

\* Steps of a call that change neither the list nor the threads: the call moves on,
\* within the list, and the counts of messages with it.
LEMMA CallMoves ==
    ASSUME GroupInv, UNCHANGED <<child, pipe, alive, rb>>,
           TypeOK', group'.list = group.list,
           group'.cur \in Listed \cup {Null}, group'.recv \in Listed \cup {Null},
           KindInv', RoomInv', SentInv',
           pc' \in Along => at' \in Listed,
           \A t \in Threads : Untreated(t)' => Untreated(t)
    PROVE  GroupInv'
<1>1. Listed' = Listed
  BY DEF Listed
<1>2. CursorsListed' /\ ListInv'
  BY <1>1 DEF GroupInv, CursorsListed, ListInv
<1>3. LifeInv'
  BY <1>1 DEF GroupInv, LifeInv
<1> QED
  BY <1>2, <1>3 DEF GroupInv

\* Before the group is freed the freeing has come to no thread.
LEMMA AllUntreated ==
    ASSUME pc \notin Freeing
    PROVE  \A t \in Threads : Untreated(t)
BY DEF Untreated

\* What the invariant says of the group's fields and of the numbers.
LEMMA GroupFacts ==
    ASSUME GroupInv
    PROVE  /\ TypeOK /\ CursorsListed
           /\ KindInv /\ ListInv /\ SentInv /\ LifeInv /\ RoomInv
           /\ group.kind \in Kinds /\ group.cnt \in Nat /\ group.sum \in Nat
           /\ group.count \in Nat /\ group.limit \in Nat /\ Len(group.list) \in Nat
           /\ group.cur \in Listed \cup {Null} /\ group.recv \in Listed \cup {Null}
           /\ nb \in [Threads -> 0..MaxSends] /\ sends \in 0..MaxSends
           /\ MaxSends \in Nat /\ FirstLimit \in Nat /\ Bound \in Nat /\ FirstLimit <= Bound
           /\ Listed \subseteq Threads
           /\ pc \in Along => at \in Listed /\ at \in Threads
<1>1. TypeOK /\ CursorsListed /\ ListInv
  BY DEF GroupInv
<1>2. MaxSends \in Nat /\ FirstLimit \in Nat /\ Bound \in Nat /\ FirstLimit <= Bound
  BY LimitAssumption DEF Bound
<1>3. Len(group.list) \in Nat /\ Listed \subseteq Threads
  BY <1>1, ListFacts
<1>4. /\ group.kind \in Kinds /\ group.cnt \in Nat /\ group.sum \in Nat
      /\ group.count \in Nat /\ group.limit \in Nat
      /\ nb \in [Threads -> 0..MaxSends] /\ sends \in 0..MaxSends
  BY <1>1 DEF TypeOK
<1>5. pc \in Along => at \in Listed /\ at \in Threads
  BY <1>1, <1>3 DEF ListInv
<1> QED
  BY <1>1, <1>2, <1>3, <1>4, <1>5 DEF GroupInv, CursorsListed

\* One more message, or none when the append fails, for a thread that has fewer than
\* there were calls.
LEMMA NbGrows ==
    ASSUME GroupInv, NEW t \in Threads, nb[t] < sends,
           nb' = [nb EXCEPT ![t] = @ + 1] \/ UNCHANGED nb
    PROVE  /\ nb' \in [Threads -> 0..MaxSends]
           /\ \A u \in Threads : nb'[u] <= sends
           /\ \A u \in Threads : u # t => nb'[u] = nb[u]
<1>1. /\ nb \in [Threads -> 0..MaxSends] /\ sends \in 0..MaxSends /\ MaxSends \in Nat
      /\ \A u \in Threads : nb[u] <= sends
  BY GroupFacts DEF SentInv
<1>2. nb[t] + 1 \in 0..MaxSends /\ nb[t] + 1 <= sends
  BY <1>1
<1> QED
  BY <1>1, <1>2

\* threads() and its send(): the list is complete, or the call goes along it.
LEMMA ThreadsStep ==
    ASSUME GroupInv, Started \/ SendAll \/ SendEach
    PROVE  GroupInv'
<1> USE GroupFacts DEF Along
<1>1. CASE Started
  <2>1. /\ pc = "start" /\ pc' = "idle" /\ group.kind = "threads"
        /\ group' = [group EXCEPT !.count = FirstLimit]
        /\ UNCHANGED <<at, sends, child, pipe, alive, nb, rb>>
    BY <1>1 DEF Started, KindInv
  <2>2. TypeOK' /\ group'.list = group.list /\ group'.cur = group.cur /\ group'.recv = group.recv
        /\ group'.kind = "threads"
    BY <2>1 DEF TypeOK
  <2>3. KindInv' /\ RoomInv' /\ SentInv'
    BY <2>1, <2>2 DEF KindInv, RoomInv, Bound, SentInv
  <2> QED
    BY <2>1, <2>2, <2>3, CallMoves, AllUntreated DEF Freeing
<1>2. CASE SendAll
  <2>1. /\ pc = "idle" /\ sends < MaxSends /\ sends' = sends + 1 /\ at' = HeadOf(group.list)
        /\ pc' = IF group.list = <<>> THEN "idle" ELSE "each"
        /\ group.kind = "threads" /\ UNCHANGED <<group, child, pipe, alive, nb, rb>>
    BY <1>2 DEF SendAll
  <2>2. at' \in Threads \cup {Null} /\ (pc' = "each" => at' \in Listed)
    BY <2>1, ListFacts DEF HeadOf
  <2>3. sends' \in 0..MaxSends /\ \A t \in Threads : nb[t] < sends' /\ nb[t] <= sends'
    BY <2>1 DEF SentInv
  <2>4. TypeOK' /\ SentInv'
    BY <2>1, <2>2, <2>3 DEF TypeOK, SentInv
  <2>5. KindInv' /\ RoomInv'
    BY <2>1 DEF KindInv, RoomInv, Bound
  <2> QED
    BY <2>1, <2>2, <2>4, <2>5, CallMoves, AllUntreated DEF Freeing
<1>3. CASE SendEach
  <2>1. /\ pc = "each" /\ at \in Listed /\ at \in Threads /\ at' = NextOf(at)
        /\ nb' = [nb EXCEPT ![at] = @ + 1] \/ UNCHANGED nb
        /\ pc' = IF NextOf(at) = Null THEN "idle" ELSE "each"
        /\ UNCHANGED <<group, sends, child, pipe, alive, rb>>
    BY <1>3 DEF SendEach
  <2>2. at' \in Listed \cup {Null} /\ (pc' = "each" => at' \in Listed)
    BY <2>1, NextIs
  <2>3. /\ nb' \in [Threads -> 0..MaxSends] /\ \A u \in Threads : nb'[u] <= sends
        /\ \A u \in Threads : u # at => nb'[u] = nb[u]
    <3>1. nb[at] < sends
      BY <2>1 DEF SentInv
    <3> QED
      BY <2>1, <3>1, NbGrows
  <2>4. TypeOK'
    BY <2>1, <2>2, <2>3 DEF TypeOK
  <2>5. pc' = "each" => \A t \in Threads : t = at' \/ Before(group.list, at', t) => nb'[t] < sends
    <3> SUFFICES ASSUME pc' = "each", NEW t \in Threads, t = at' \/ Before(group.list, at', t)
                 PROVE  nb'[t] < sends
      OBVIOUS
    <3>1. Before(group.list, at, NextOf(at)) /\ at' = NextOf(at)
      BY <2>1, NextIs
    <3>2. Before(group.list, at, t)
      BY <3>1, ListFacts, OrderIsTotal
    <3>3. t # at
      BY <3>2, BehindIsListed
    <3> QED
      BY <2>1, <2>3, <3>2, <3>3 DEF SentInv
  <2>6. SentInv' /\ KindInv' /\ RoomInv'
    <3>1. SentInv'
      BY <2>1, <2>3, <2>5 DEF SentInv
    <3> QED
      BY <2>1, <3>1 DEF KindInv, RoomInv, Bound
  <2> QED
    BY <2>1, <2>2, <2>4, <2>6, CallMoves, AllUntreated DEF Freeing
<1> QED
  BY <1>1, <1>2, <1>3

\* The choice of a thread by scheduler()'s send(), and the message for it.
LEMMA PickStep ==
    ASSUME GroupInv, Send \/ Pick \/ Chosen \/ Push
    PROVE  GroupInv'
<1> USE GroupFacts DEF Along
<1>1. CASE Send
  <2>1. /\ pc = "idle" /\ group.kind = "scheduler" /\ sends < MaxSends /\ sends' = sends + 1
        /\ at' = group.cur /\ pc' = IF group.cur = Null THEN "create" ELSE "pick"
        /\ UNCHANGED <<group, child, pipe, alive, nb, rb>>
    BY <1>1 DEF Send
  <2>2. sends' \in 0..MaxSends /\ \A t \in Threads : nb[t] < sends' /\ nb[t] <= sends'
    BY <2>1 DEF SentInv
  <2>3. TypeOK' /\ SentInv'
    BY <2>1, <2>2 DEF TypeOK, SentInv
  <2>4. KindInv' /\ RoomInv'
    BY <2>1 DEF KindInv, RoomInv, Bound
  <2> QED
    BY <2>1, <2>3, <2>4, CallMoves, AllUntreated DEF Freeing
<1>2. CASE Pick
  <2>1. /\ pc = "pick" /\ at \in Listed /\ at \in Threads /\ group.kind = "scheduler"
        /\ group' = [group EXCEPT !.cnt = Cnt, !.sum = Sum]
        /\ at' = IF Busy THEN Neighbour ELSE at
        /\ pc' = IF Grow THEN "create" ELSE "alive"
        /\ UNCHANGED <<sends, child, pipe, alive, nb, rb>>
    BY <1>2 DEF Pick, KindInv
  <2>2. Cnt \in Nat /\ Sum \in Nat
    BY <2>1, SMTT(30) DEF Cnt, Sum
  <2>3. at' \in Listed
    <3>1. NextOf(at) \in Listed \cup {Null} /\ (NextOf(at) # Null => Second \in Listed \cup {Null})
      BY <2>1, NextIs DEF Second
    <3>2. NextOf(at) = Null => Second = Null
      BY DEF Second
    <3>3. Neighbour \in Listed
      BY <2>1, <3>1, <3>2 DEF Neighbour
    <3> QED
      BY <2>1, <3>3
  <2>4. TypeOK' /\ group'.list = group.list /\ group'.cur = group.cur /\ group'.recv = group.recv
        /\ group'.kind = "scheduler" /\ group'.count = group.count /\ group'.limit = group.limit
    BY <2>1, <2>2, <2>3 DEF TypeOK
  <2>5. RoomInv'
    <3>1. Grow => Len(group.list) < Bound
      BY <2>1 DEF Grow, RoomInv
    <3> QED
      BY <2>1, <2>4, <3>1 DEF RoomInv, Bound
  <2>6. KindInv' /\ SentInv'
    BY <2>1, <2>4 DEF KindInv, SentInv
  <2> QED
    BY <2>1, <2>3, <2>4, <2>5, <2>6, CallMoves, AllUntreated DEF Freeing
<1>3. CASE Chosen
  <2>1. pc = "alive" /\ pc' = "push" /\ UNCHANGED <<group, at, sends, child, pipe, alive, nb, rb>>
    BY <1>3 DEF Chosen
  <2>2. TypeOK' /\ KindInv' /\ RoomInv' /\ SentInv'
    BY <2>1 DEF TypeOK, KindInv, RoomInv, Bound, SentInv
  <2> QED
    BY <2>1, <2>2, CallMoves, AllUntreated DEF Freeing
<1>4. CASE Push
  <2>1. /\ pc = "push" /\ pc' = "idle" /\ at' = Null /\ at \in Listed /\ at \in Threads
        /\ nb' = [nb EXCEPT ![at] = @ + 1] \/ UNCHANGED nb
        /\ group' = IF NextOf(at) # Null
                    THEN [group EXCEPT !.cur = NextOf(at)]
                    ELSE [group EXCEPT !.cur = Head(group.list), !.cnt = 0, !.sum = 0]
        /\ UNCHANGED <<sends, child, pipe, alive, rb>>
    BY <1>4 DEF Push
  <2>2. NextOf(at) \in Listed \cup {Null} /\ Head(group.list) \in Listed
    BY <2>1, NextIs, ListFacts
  <2>3. nb' \in [Threads -> 0..MaxSends] /\ \A u \in Threads : nb'[u] <= sends
    <3>1. nb[at] < sends
      BY <2>1 DEF SentInv
    <3> QED
      BY <2>1, <3>1, NbGrows
  <2>4. TypeOK' /\ group'.list = group.list /\ group'.cur \in Listed /\ group'.recv = group.recv
        /\ group'.kind = group.kind /\ group'.count = group.count /\ group'.limit = group.limit
    BY <2>1, <2>2, <2>3 DEF TypeOK
  <2>5. RoomInv' /\ KindInv' /\ SentInv'
    <3>1. group'.cur # Null
      BY <2>4, NullAssumption
    <3>2. RoomInv' /\ KindInv'
      BY <2>1, <2>4, <3>1 DEF RoomInv, Bound, KindInv
    <3>3. SentInv'
      BY <2>1, <2>3 DEF SentInv
    <3> QED
      BY <3>2, <3>3
  <2> QED
    BY <2>1, <2>4, <2>5, CallMoves, AllUntreated DEF Freeing
<1> QED
  BY <1>1, <1>2, <1>3, <1>4

\* A thread that has ended is dropped: it is done, so that its pipe can be freed.
LEMMA DropStep ==
    ASSUME GroupInv, DropDead
    PROVE  GroupInv'
<1> USE GroupFacts DEF Along
<1>1. /\ pc = "alive" /\ ~alive[at] /\ at \in Listed /\ at \in Threads /\ group.kind = "scheduler"
      /\ group' = [group EXCEPT !.list = RemoveFirst(@, at),
                                !.cur = IF @ = at THEN NextOf(at) ELSE @,
                                !.recv = IF @ = at THEN NextOf(at) ELSE @]
      /\ pipe' = [pipe EXCEPT ![at] = "freed"] /\ at' = NextOf(at)
      /\ pc' = IF NextOf(at) = Null THEN "create" ELSE "pick"
      /\ UNCHANGED <<sends, child, alive, nb, rb>>
  BY DEF DropDead, KindInv
<1>2. /\ RemoveFirst(group.list, at) \in Seq(Threads) /\ IsInjective(RemoveFirst(group.list, at))
      /\ ToSet(RemoveFirst(group.list, at)) = Listed \ {at}
      /\ Len(RemoveFirst(group.list, at)) = Len(group.list) - 1
      /\ Len(group.list) - 1 \in Nat
  <2>1. group.list \in Seq(Threads) /\ IsInjective(group.list) /\ at \in ToSet(group.list)
    BY <1>1, ListFacts DEF Listed
  <2>2. Len(group.list) - 1 \in Nat
    BY <1>1, ListFacts
  <2> QED
    BY <2>1, <2>2, RemoveFirstProperties, RemoveFirstLen DEF Listed
<1>3. NextOf(at) \in Listed \cup {Null} /\ NextOf(at) # at
  BY <1>1, NextIs
<1>4. /\ group'.list = RemoveFirst(group.list, at) /\ group'.kind = "scheduler"
      /\ group'.count = group.count /\ group'.limit = group.limit
      /\ group'.cur \in (Listed \ {at}) \cup {Null} /\ group'.recv \in (Listed \ {at}) \cup {Null}
      /\ TypeOK'
  <2>1. \A c \in Listed \cup {Null} :
          (IF c = at THEN NextOf(at) ELSE c) \in (Listed \ {at}) \cup {Null}
    BY <1>1, <1>3
  <2>2. /\ group'.list = RemoveFirst(group.list, at) /\ group'.kind = "scheduler"
        /\ group'.count = group.count /\ group'.limit = group.limit
        /\ group'.cur \in (Listed \ {at}) \cup {Null} /\ group'.recv \in (Listed \ {at}) \cup {Null}
    BY <1>1, <2>1 DEF TypeOK
  <2>3. TypeOK'
    <3>1. \A c \in Listed \cup {Null} : (IF c = at THEN NextOf(at) ELSE c) \in Threads \cup {Null}
      BY <1>3
    <3> QED
      BY <1>1, <1>2, <1>3, <3>1 DEF TypeOK
  <2> QED
    BY <2>2, <2>3
<1>5. Listed' = Listed \ {at}
  BY <1>2, <1>4 DEF Listed
<1>6. CursorsListed' /\ ListInv' /\ KindInv'
  BY <1>1, <1>2, <1>3, <1>4, <1>5 DEF CursorsListed, ListInv, KindInv
<1>7. child[at] = "done"
  BY <1>1, AllUntreated DEF LifeInv, TypeOK, Freeing
<1>8. LifeInv'
  <2>1. \A t \in Threads : Untreated(t)
    BY <1>1, AllUntreated DEF Freeing
  <2> QED
    BY <1>1, <1>5, <1>7, <2>1 DEF LifeInv, TypeOK
<1>9. RoomInv' /\ SentInv'
  <2>1. RoomInv'
    <3>1. Len(group.list) <= group.count /\ Len(group.list) <= Bound /\ group.limit <= FirstLimit
      BY <1>1 DEF RoomInv
    <3>2. Len(group'.list) <= group'.count /\ Len(group'.list) < Bound
      BY <1>2, <1>4, <3>1, SMTT(30)
    <3> QED
      BY <1>4, <3>1, <3>2 DEF RoomInv, Bound
  <2>2. SentInv'
    BY <1>1 DEF SentInv
  <2> QED
    BY <2>1, <2>2
<1> QED
  BY <1>4, <1>6, <1>8, <1>9 DEF GroupInv

\* A thread that was never started is started and put into the list.
LEMMA BornStep ==
    ASSUME GroupInv, NEW t \in Unborn, Start(t), UNCHANGED sends,
           (pc = "start" /\ pc' = "start") \/ (pc = "create" /\ pc' = "pick"),
           Listed' = {t} \cup Listed
    PROVE  t \notin Listed /\ LifeInv' /\ SentInv'
<1> USE GroupFacts DEF Along
<1>1. /\ t \in Threads /\ child[t] = "unborn" /\ child' = [child EXCEPT ![t] = "run"]
      /\ pipe' = [pipe EXCEPT ![t] = "live"] /\ alive' = [alive EXCEPT ![t] = TRUE]
      /\ UNCHANGED <<nb, rb>>
  BY DEF Unborn, Start
<1>2. t \notin Listed /\ pipe[t] = "none"
  BY <1>1 DEF LifeInv
<1>3. LifeInv'
  <2>1. \A u \in Threads : Untreated(u)
    BY AllUntreated DEF Freeing
  <2> QED
    BY <1>1, <1>2, <2>1 DEF LifeInv, TypeOK
<1>4. SentInv'
  BY <1>1 DEF SentInv
<1> QED
  BY <1>2, <1>3, <1>4

\* threads() starts one of its threads.
LEMMA StartStep ==
    ASSUME GroupInv, NEW t \in Threads, StartOne(t)
    PROVE  GroupInv'
<1> USE GroupFacts DEF Along
<1>1. /\ pc = "start" /\ pc' = "start" /\ Len(group.list) < FirstLimit /\ t \in Unborn
      /\ group.kind = "threads" /\ group' = [group EXCEPT !.list = <<t>> \o @]
      /\ Start(t) /\ UNCHANGED <<at, sends>>
  BY DEF StartOne, KindInv
<1>2. t \notin Listed
  BY <1>1 DEF LifeInv, Unborn
<1>3. /\ <<t>> \o group.list \in Seq(Threads) /\ IsInjective(<<t>> \o group.list)
      /\ ToSet(<<t>> \o group.list) = {t} \cup Listed
      /\ Len(<<t>> \o group.list) = Len(group.list) + 1
  <2>1. group.list \in Seq(Threads) /\ IsInjective(group.list) /\ t \notin ToSet(group.list)
    BY <1>2, ListFacts DEF Listed
  <2> QED
    BY <2>1, ConsProperties, ConsElements DEF Listed
<1>4. /\ group'.list = <<t>> \o group.list /\ group'.kind = "threads"
      /\ group'.cur = group.cur /\ group'.recv = group.recv
      /\ TypeOK'
  BY <1>1, <1>3 DEF TypeOK, Start
<1>5. Listed' = {t} \cup Listed
  BY <1>3, <1>4 DEF Listed
<1>6. LifeInv' /\ SentInv'
  <2>1. t \in Unborn /\ Start(t) /\ UNCHANGED sends /\ pc = "start" /\ pc' = "start"
    BY <1>1
  <2>2. (pc = "start" /\ pc' = "start") \/ (pc = "create" /\ pc' = "pick")
    BY <2>1
  <2> QED
    BY <1>5, <2>1, <2>2, BornStep
<1>7. CursorsListed' /\ ListInv' /\ KindInv'
  BY <1>1, <1>3, <1>4, <1>5 DEF CursorsListed, ListInv, KindInv
<1>8. RoomInv'
  BY <1>1, <1>3, <1>4 DEF RoomInv, Bound
<1> QED
  BY <1>4, <1>6, <1>7, <1>8 DEF GroupInv

\* send() of scheduler() starts a thread and puts it before the one whose turn is
\* next, or at the head.
LEMMA CreateStep ==
    ASSUME GroupInv, NEW t \in Threads, Create(t)
    PROVE  GroupInv'
<1> USE GroupFacts DEF Along
<1> DEFINE new == InsertAt(group.list, Place, t)
           cur2 == IF Place < Len(new) THEN new[Place + 1] ELSE Head(new)
<1>1. /\ pc = "create" /\ pc' = "pick" /\ t \in Unborn /\ group.kind = "scheduler" /\ at' = t
      /\ group' = [group EXCEPT !.count = @ + 1, !.list = new, !.cur = cur2]
      /\ Start(t) /\ UNCHANGED sends
  BY DEF Create, KindInv
<1>2. t \notin Listed
  BY <1>1 DEF LifeInv, Unborn
<1>3. Place \in 1..(Len(group.list) + 1)
  <2>1. CASE AfterCur = Null
    BY <2>1 DEF Place
  <2>2. CASE AfterCur # Null
    <3>1. AfterCur \in Listed
      BY <2>2, NextIs DEF AfterCur
    <3>2. DOMAIN group.list = 1..Len(group.list)
      BY ListFacts, LenProperties
    <3>3. \E i \in 1..Len(group.list) : group.list[i] = AfterCur
      BY <3>1, <3>2 DEF Listed, ToSet
    <3>4. Place \in 1..Len(group.list)
      BY <2>2, <3>3 DEF Place
    <3> QED
      BY <3>4
  <2> QED
    BY <2>1, <2>2
<1>4. /\ new \in Seq(Threads) /\ IsInjective(new) /\ ToSet(new) = {t} \cup Listed
      /\ Len(new) = Len(group.list) + 1
  <2>1. group.list \in Seq(Threads) /\ IsInjective(group.list) /\ t \notin ToSet(group.list)
    BY <1>2, ListFacts DEF Listed
  <2>2. new \in Seq(Threads) /\ Len(new) = Len(group.list) + 1
    BY <1>3, <2>1, InsertAtProperties, SMTT(30)
  <2>3. IsInjective(new) /\ ToSet(new) = {t} \cup ToSet(group.list)
    BY <1>3, <2>1, InsertAtChain
  <2> QED
    BY <2>2, <2>3 DEF Listed
<1>5. cur2 \in {t} \cup Listed
  <2>1. Len(new) \in Nat /\ DOMAIN new = 1..Len(new) /\ Len(new) > 0
    BY <1>4, LenProperties
  <2>2. CASE Place < Len(new)
    <3>1. Place + 1 \in 1..Len(new)
      BY <1>3, <2>1, <2>2
    <3>2. new[Place + 1] \in ToSet(new)
      BY <2>1, <3>1 DEF ToSet
    <3> QED
      BY <1>4, <2>2, <3>2
  <2>3. CASE ~(Place < Len(new))
    <3>1. new # <<>>
      BY <2>1
    <3>2. Head(new) \in ToSet(new)
      BY <1>4, <3>1, HeadIsFirst
    <3> QED
      BY <1>4, <2>3, <3>2
  <2> QED
    BY <2>2, <2>3
<1> HIDE DEF new, cur2
<1>6. /\ group'.list = new /\ group'.kind = "scheduler" /\ group'.count = group.count + 1
      /\ group'.limit = group.limit /\ group'.cur = cur2 /\ group'.recv = group.recv
      /\ TypeOK'
  <2>1. cur2 \in Threads
    BY <1>5
  <2>2. /\ group'.list = new /\ group'.kind = "scheduler" /\ group'.count = group.count + 1
        /\ group'.limit = group.limit /\ group'.cur = cur2 /\ group'.recv = group.recv
        /\ group' \in [kind : Kinds, list : Seq(Threads), cur : Threads \cup {Null},
                      recv : Threads \cup {Null}, count : Nat, limit : Nat, cnt : Nat, sum : Nat]
    <3>1. group \in [kind : Kinds, list : Seq(Threads), cur : Threads \cup {Null},
                     recv : Threads \cup {Null}, count : Nat, limit : Nat, cnt : Nat, sum : Nat]
      BY DEF TypeOK
    <3>2. /\ group' = [group EXCEPT !.count = group.count + 1, !.list = new, !.cur = cur2]
          /\ new \in Seq(Threads) /\ group.count + 1 \in Nat
      BY <1>1, <1>4, SMTT(30)
    <3>3. /\ group'.list = new /\ group'.kind = group.kind /\ group'.count = group.count + 1
          /\ group'.limit = group.limit /\ group'.cur = cur2 /\ group'.recv = group.recv
      BY <3>1, <3>2
    <3>4. group' \in [kind : Kinds, list : Seq(Threads), cur : Threads \cup {Null},
                      recv : Threads \cup {Null}, count : Nat, limit : Nat, cnt : Nat, sum : Nat]
      BY <2>1, <3>1, <3>2
    <3> QED
      BY <1>1, <3>3, <3>4
  <2>3. /\ child' \in [Threads -> {"unborn", "run", "clear", "delete", "done"}]
        /\ pipe' \in [Threads -> {"none", "live", "freed"}] /\ alive' \in [Threads -> BOOLEAN]
        /\ UNCHANGED <<nb, rb>>
    <3>1. /\ child \in [Threads -> {"unborn", "run", "clear", "delete", "done"}]
          /\ pipe \in [Threads -> {"none", "live", "freed"}] /\ alive \in [Threads -> BOOLEAN]
      BY DEF TypeOK
    <3>2. /\ child' = [child EXCEPT ![t] = "run"] /\ pipe' = [pipe EXCEPT ![t] = "live"]
          /\ alive' = [alive EXCEPT ![t] = TRUE] /\ UNCHANGED <<nb, rb>>
      BY <1>1 DEF Start
    <3> QED
      BY <3>1, <3>2
  <2>4. TypeOK'
    BY <1>1, <2>2, <2>3 DEF TypeOK
  <2> QED
    BY <2>2, <2>4
<1>7. Listed' = {t} \cup Listed
  BY <1>4, <1>6 DEF Listed
<1>8. LifeInv' /\ SentInv'
  BY <1>1, <1>7, BornStep
<1>9. CursorsListed' /\ ListInv' /\ KindInv'
  BY <1>1, <1>4, <1>5, <1>6, <1>7 DEF CursorsListed, ListInv, KindInv
<1>10. RoomInv'
  <2>1. Len(group.list) < Bound /\ Len(group.list) <= group.count /\ group.limit <= FirstLimit
    BY <1>1 DEF RoomInv
  <2>2. cur2 # Null
    BY <1>5, NullAssumption
  <2>3. Len(group'.list) <= Bound /\ Len(group'.list) <= group'.count
    <3>1. Len(group'.list) = Len(group.list) + 1 /\ group'.count = group.count + 1
      BY <1>4, <1>6
    <3> QED
      BY <2>1, <3>1, SMTT(30)
  <2> QED
    BY <1>1, <1>6, <2>1, <2>2, <2>3 DEF RoomInv, Bound
<1> QED
  BY <1>6, <1>8, <1>9, <1>10 DEF GroupInv

\* A thread cannot be started; recv() takes reports; the group is to be freed.
LEMMA OtherStep ==
    ASSUME GroupInv, CreateFails \/ Recv \/ Free
    PROVE  GroupInv'
<1> USE GroupFacts DEF Along
<1>1. CASE CreateFails
  <2>1. /\ pc = "create" /\ group.kind = "scheduler" /\ UNCHANGED <<sends, child, pipe, alive, nb, rb>>
        /\ \/ /\ group.count < group.limit /\ group' = [group EXCEPT !.limit = group.count]
              /\ at' = group.cur /\ pc' = IF group.cur = Null THEN "create" ELSE "pick"
           \/ UNCHANGED group /\ at' = Null /\ pc' = "idle"
    BY <1>1 DEF CreateFails, KindInv
  <2>2. at' \in Listed \cup {Null} /\ (pc' = "pick" => at' \in Listed)
    BY <2>1
  <2>3. /\ group'.list = group.list /\ group'.cur = group.cur /\ group'.recv = group.recv
        /\ group'.kind = "scheduler" /\ group'.count = group.count
        /\ group'.limit = group.limit \/ (group.count < group.limit /\ group'.limit = group.count)
        /\ TypeOK'
    BY <2>1, <2>2 DEF TypeOK
  <2>4. RoomInv'
    <3>1. /\ Len(group.list) < Bound /\ Len(group.list) <= group.count /\ group.limit <= FirstLimit
          /\ Len(group.list) <= Bound
      BY <2>1 DEF RoomInv
    <3>2. group'.limit <= FirstLimit
      BY <2>3, <3>1
    <3> QED
      BY <2>3, <3>1, <3>2 DEF RoomInv, Bound
  <2>5. KindInv' /\ SentInv'
    BY <2>1, <2>3 DEF KindInv, SentInv
  <2> QED
    BY <2>1, <2>2, <2>3, <2>4, <2>5, CallMoves, AllUntreated DEF Freeing
<1>2. CASE Recv
  <2> DEFINE t == IF group.recv # Null THEN group.recv ELSE Head(group.list)
  <2>1. /\ pc = "idle" /\ group.list # <<>> /\ rb' = [rb EXCEPT ![t] = 0]
        /\ group' = [group EXCEPT !.recv = NextOf(t)]
        /\ UNCHANGED <<pc, at, sends, child, pipe, alive, nb>>
    BY <1>2 DEF Recv
  <2>2. t \in Listed
    BY <2>1, ListFacts
  <2> HIDE DEF t
  <2>3. NextOf(t) \in Listed \cup {Null}
    BY <2>2, NextIs
  <2>4. /\ group'.list = group.list /\ group'.cur = group.cur /\ group'.recv = NextOf(t)
        /\ group'.kind = group.kind /\ group'.count = group.count /\ group'.limit = group.limit
        /\ TypeOK'
    <3>1. rb' \in [Threads -> 0..MaxReports] /\ NextOf(t) \in Threads \cup {Null}
      <4>1. rb \in [Threads -> 0..MaxReports] /\ 0 \in 0..MaxReports
        BY LimitAssumption DEF TypeOK
      <4>2. rb' \in [Threads -> 0..MaxReports]
        BY <2>1, <4>1
      <4> QED
        BY <2>3, <4>2
    <3> QED
      BY <2>1, <3>1 DEF TypeOK
  <2>5. Listed' = Listed
    BY <2>4 DEF Listed
  <2>6. CursorsListed' /\ ListInv' /\ KindInv' /\ RoomInv' /\ SentInv'
    BY <2>1, <2>3, <2>4, <2>5 DEF CursorsListed, ListInv, KindInv, RoomInv, Bound, SentInv
  <2>7. LifeInv'
    BY <2>1, <2>5, AllUntreated DEF LifeInv, Freeing
  <2> QED
    BY <2>4, <2>6, <2>7 DEF GroupInv
<1>3. CASE Free
  <2>1. /\ pc = "idle" /\ at' = HeadOf(group.list)
        /\ pc' = IF group.list = <<>> THEN "gone" ELSE "free"
        /\ UNCHANGED <<group, sends, child, pipe, alive, nb, rb>>
    BY <1>3 DEF Free
  <2>2. at' \in Listed \cup {Null} /\ (pc' = "free" => at' \in Listed)
    BY <2>1, ListFacts DEF HeadOf
  <2>3. TypeOK' /\ KindInv' /\ RoomInv' /\ SentInv'
    BY <2>1, <2>2 DEF TypeOK, KindInv, RoomInv, Bound, SentInv
  <2> QED
    BY <2>1, <2>2, <2>3, CallMoves, AllUntreated DEF Freeing
<1> QED
  BY <1>1, <1>2, <1>3

\* The group is freed, thread by thread: alive is cleared, then the pipe is used
\* twice more, or found deleted.
LEMMA FreeStep ==
    ASSUME GroupInv, FreeEach \/ FreeKill \/ FreePost \/ FreeCrash
    PROVE  GroupInv'
<1> USE GroupFacts DEF Along
<1>1. UNCHANGED <<group, sends, child, pipe, nb, rb>> /\ at \in Listed /\ at \in Threads
  BY DEF FreeEach, FreeKill, FreePost, FreeCrash
<1>2. CASE FreeEach
  <2>1. pc = "free" /\ pc' = "kill" /\ at' = at /\ alive' = [alive EXCEPT ![at] = FALSE]
    BY <1>2 DEF FreeEach
  <2>2. TypeOK' /\ CursorsListed' /\ KindInv' /\ ListInv' /\ SentInv' /\ RoomInv' /\ Listed' = Listed
    BY <1>1, <2>1 DEF TypeOK, CursorsListed, KindInv, ListInv, SentInv, RoomInv, Bound, Listed
  <2>3. \A t \in Threads : Untreated(t)' => Untreated(t) /\ t # at
    BY <1>1, <2>1, BehindIsListed DEF Untreated, Freeing
  <2>4. LifeInv'
    BY <1>1, <2>1, <2>2, <2>3 DEF LifeInv, TypeOK
  <2> QED
    BY <2>2, <2>4 DEF GroupInv
<1>3. CASE FreeKill \/ FreeCrash
  <2>1. pc \in {"kill", "post"} /\ pc' \in {"post", "crash"} /\ UNCHANGED <<at, alive>>
    BY <1>3 DEF FreeKill, FreeCrash
  <2>2. TypeOK' /\ KindInv' /\ SentInv' /\ RoomInv'
    BY <1>1, <2>1 DEF TypeOK, KindInv, SentInv, RoomInv, Bound
  <2>3. \A t \in Threads : Untreated(t)' => Untreated(t)
    BY <1>1, <2>1 DEF Untreated, Freeing
  <2> QED
    BY <1>1, <2>1, <2>2, <2>3, CallMoves
<1>4. CASE FreePost
  <2>1. /\ pc = "post" /\ at' = NextOf(at) /\ UNCHANGED alive
        /\ pc' = IF NextOf(at) = Null THEN "gone" ELSE "free"
    BY <1>4 DEF FreePost
  <2>2. at' \in Listed \cup {Null} /\ (pc' = "free" => at' \in Listed /\ Before(group.list, at, at'))
    BY <1>1, <2>1, NextIs
  <2>3. TypeOK' /\ KindInv' /\ SentInv' /\ RoomInv'
    BY <1>1, <2>1, <2>2 DEF TypeOK, KindInv, SentInv, RoomInv, Bound
  <2>4. \A t \in Threads : Untreated(t)' => Untreated(t)
    <3> SUFFICES ASSUME NEW t \in Threads, Untreated(t)' PROVE Before(group.list, at, t)
      BY <2>1 DEF Untreated, Freeing
    <3>1. pc' = "free" /\ (at' = t \/ Before(group.list, at', t))
      BY <1>1, <2>1 DEF Untreated, Freeing
    <3> QED
      BY <2>2, <3>1, ListFacts, OrderIsTotal
  <2> QED
    BY <1>1, <2>1, <2>2, <2>3, <2>4, CallMoves
<1> QED
  BY <1>2, <1>3, <1>4

LEMMA GroupInit == Init => GroupInv
<1> SUFFICES ASSUME Init PROVE GroupInv
  OBVIOUS
<1>1. /\ group.list = <<>> /\ group.cur = Null /\ group.recv = Null /\ group.count = 0
      /\ group.limit = FirstLimit /\ group.kind \in Kinds /\ group.cnt = 0 /\ group.sum = 0
      /\ pc = IF group.kind = "threads" THEN "start" ELSE "idle"
  BY DEF Init
<1>2. group.list \in Seq(Threads) /\ Listed = {} /\ IsInjective(group.list) /\ Len(group.list) = 0
  BY <1>1 DEF Listed, ToSet, IsInjective
<1>3. TypeOK
  <2>1. group \in [kind : Kinds, list : Seq(Threads), cur : Threads \cup {Null},
                   recv : Threads \cup {Null}, count : Nat, limit : Nat, cnt : Nat, sum : Nat]
    BY LimitAssumption DEF Init
  <2> QED
    BY <1>1, <2>1, LimitAssumption DEF Init, TypeOK
<1>4. KindInv /\ ListInv /\ CursorsListed /\ LifeInv
  BY <1>1, <1>2 DEF Init, KindInv, ListInv, CursorsListed, LifeInv, Along
<1>5. SentInv /\ RoomInv
  BY <1>1, <1>2, LimitAssumption DEF Init, SentInv, RoomInv, Bound
<1> QED
  BY <1>3, <1>4, <1>5 DEF GroupInv

THEOREM GroupInvHolds == Spec => []GroupInv
<1>1. GroupInv /\ [Next]_vars => GroupInv'
  <2> SUFFICES ASSUME GroupInv, [Next]_vars PROVE GroupInv'
    OBVIOUS
  <2>1. CASE Next
    BY <2>1, ChildStep, ThreadsStep, PickStep, DropStep, StartStep, CreateStep, OtherStep, FreeStep
       DEF Next, Parent, Call
  <2>2. CASE UNCHANGED vars
    <3>1. /\ UNCHANGED <<child, pipe, rb, alive>> /\ TypeOK' /\ group'.list = group.list
          /\ KindInv' /\ RoomInv' /\ SentInv'
          /\ \A t \in Threads : Untreated(t)' => Untreated(t)
      BY <2>2, GroupFacts DEF vars, TypeOK, KindInv, RoomInv, Bound, SentInv, Untreated
    <3> QED
      BY <2>2, <3>1, GroupFacts, CallMoves DEF vars
  <2> QED
    BY <2>1, <2>2
<1> QED
  BY <1>1, GroupInit, PTL DEF Spec

\* Neither cursor points to a thread that was deleted, and each listed thread has its
\* pipe: for any number of threads, whatever order they end and are dropped in.
THEOREM CursorsLiveHolds == Spec => []CursorsLive
<1>1. GroupInv => CursorsLive
  <2> SUFFICES ASSUME GroupInv PROVE CursorsLive
    OBVIOUS
  <2>1. ListedPipesLive
    BY GroupFacts DEF LifeInv, Untreated, Freeing, ListedPipesLive
  <2> QED
    BY <2>1 DEF GroupInv, CursorsLive
<1> QED
  BY <1>1, GroupInvHolds, PTL

\* The scheduler never has more threads than its limit, for every limit.
THEOREM WithinLimitHolds == Spec => []WithinLimit
<1>1. GroupInv => WithinLimit
  BY DEF GroupInv, RoomInv, Bound, WithinLimit
<1> QED
  BY <1>1, GroupInvHolds, PTL

\* A pipe is deleted only when its child has ended, and the parent comes upon a
\* deleted pipe only in the two accesses after it cleared alive.
THEOREM FreedWhenDoneHolds == Spec => []FreedWhenDone
<1>1. GroupInv => FreedWhenDone
  <2> SUFFICES ASSUME GroupInv PROVE FreedWhenDone
    OBVIOUS
  <2>1. ASSUME pc \in {"each", "pick", "alive", "push", "free"} PROVE pipe[at] = "live"
    <3>1. at \in Listed /\ at \in Threads
      BY <2>1, GroupFacts DEF Along
    <3>2. Untreated(at)
      BY <2>1 DEF Untreated, Freeing
    <3> QED
      BY <3>1, <3>2, GroupFacts DEF LifeInv
  <2> QED
    BY <2>1, GroupFacts DEF LifeInv, FreedWhenDone
<1> QED
  BY <1>1, GroupInvHolds, PTL

=============================================================================
