---------------------------- MODULE Timers_proof ----------------------------
(***************************************************************************)
(* Proofs about Timers, for any number of timers, event threads, nested    *)
(* callbacks and creations, and whatever the script does.                  *)
(***************************************************************************)
EXTENDS Timers, ChainLemmas, FiniteSetTheorems

----------------------------------------------------------------------------
(* The cursor and the memory of the timers.                                *)

\* The timer the VM thread is creating or deleting: it is not listed, but its
\* memory is still, or already, there.
CurInv == /\ pc \in {"publish", "disarm", "fill", "free"} => cur \in Timers
          /\ pc \in {"publish", "disarm", "free"} => cur \notin Listed
          /\ pc \in {"publish", "free"} => mem[cur] = "live"

\* Each timer stands in the list once.
ListInv == IsInjective(list)

CursorInv == TypeOK /\ NextListed /\ ListedLive /\ LockReturned /\ ListInv /\ CurInv

\* The list as a set, with what taking a timer out or putting one in does.
LEMMA ListedIsRange == ASSUME TypeOK PROVE Listed = ToSet(list) /\ Listed \subseteq Timers
<1>1. list \in Seq(Timers)
  BY DEF TypeOK
<1> QED
  BY <1>1, LenProperties, ElementOfSeq DEF Listed, ToSet

LEMMA ListedAfter ==
    ASSUME list' \in Seq(Timers) PROVE Listed' = ToSet(list')
BY LenProperties DEF Listed, ToSet

LEMMA WithoutIs ==
    ASSUME TypeOK, ListInv, NEW t
    PROVE  /\ Without(t) \in Seq(Timers) /\ IsInjective(Without(t))
           /\ ToSet(Without(t)) = Listed \ {t}
BY RemoveFirstProperties, ListedIsRange DEF Without, TypeOK, ListInv

LEMMA AfterIs ==
    ASSUME TypeOK, ListInv, NEW t \in Listed
    PROVE  /\ After(t) \in Listed \cup {None} /\ After(t) # t
           /\ After(t) # None => Before(list, t, After(t))
           /\ \A y : Before(list, t, y) =>
                       After(t) # None /\ (y = After(t) \/ Before(list, After(t), y))
<1>1. list \in Seq(Timers) /\ IsInjective(list) /\ Listed = ToSet(list) /\ Listed \subseteq Timers
  BY ListedIsRange DEF TypeOK, ListInv
<1>2. PICK i \in 1..Len(list) : i = CHOOSE j \in 1..Len(list) : list[j] = t
  BY DEF Listed
<1>3. list[i] = t /\ After(t) = IF i = Len(list) THEN None ELSE list[i + 1]
  BY <1>2 DEF After, Listed
<1>4. /\ i # Len(list) => list[i + 1] \in Listed /\ list[i + 1] # t /\ Before(list, t, list[i + 1])
      /\ \A y : Before(list, t, y) =>
                  i # Len(list) /\ (y = list[i + 1] \/ Before(list, list[i + 1], y))
  BY <1>1, <1>3, NextInChain
<1> QED
  BY <1>1, <1>3, <1>4, NoneAssumption

\* The counter stays within its width.
LEMMA CountWraps ==
    ASSUME NEW n \in 0..(Width - 1)
    PROVE  /\ (n + 1) % Width \in 0..(Width - 1) /\ (n - 1) % Width \in 0..(Width - 1)
           /\ n + 1 < Width => (n + 1) % Width = n + 1
           /\ n > 0 => (n - 1) % Width = n - 1
<1>1. Width \in Nat /\ Width > 0
  BY WidthAssumption
<1>2. \A m \in Int : m % Width \in 0..(Width - 1)
  BY <1>1
<1>3. \A m \in 0..(Width - 1) : m % Width = m
  BY <1>1
<1> QED
  BY <1>1, <1>2, <1>3

\* Steps that leave the list, the memory and the timer at hand alone.
LEMMA KeptList ==
    ASSUME CursorInv, UNCHANGED <<list, mem, armed, cur, locked, script>>, TypeOK', NextListed',
           pc' = pc \/ (pc # "disarm" /\ pc' \notin {"publish", "disarm", "fill", "free"})
    PROVE  CursorInv'
BY DEF CursorInv, ListedLive, LockReturned, ListInv, CurInv, Listed

\* An event thread's step.
LEMMA EventCursor ==
    ASSUME CursorInv, NEW t \in Timers, Event(t), UNCHANGED script
    PROVE  CursorInv'
<1>0. TypeOK /\ ListInv /\ NextListed
  BY DEF CursorInv
<1>1. CASE Fire(t) \/ ReadGp(t)
  <2>1. TypeOK'
    <3>1. fresh' \in [Timers -> Nat] /\ ready' \in [Timers -> Nat] /\ fault' \in {fault, "event"}
      <4>1. fresh \in [Timers -> Nat] /\ ready \in [Timers -> Nat]
        BY <1>0 DEF TypeOK
      <4>2. CASE Fire(t)
        BY <4>1, <4>2 DEF Fire
      <4>3. CASE ReadGp(t) /\ UNCHANGED <<fresh, ready>>
        BY <4>1, <4>3 DEF ReadGp
      <4>4. CASE ReadGp(t) /\ ~UNCHANGED <<fresh, ready>>
        <5>1. fresh[t] - 1 \in Nat /\ ready[t] + 1 \in Nat
          BY <4>1, <4>4 DEF ReadGp
        <5> QED
          BY <4>1, <4>4, <5>1 DEF ReadGp
      <4> QED
        BY <1>1, <4>2, <4>3, <4>4
    <3>2. UNCHANGED <<mem, filled, list, state, next, cnt, locked, armed, vmVars>>
      BY <1>1 DEF Fire, ReadGp
    <3> QED
      BY <1>0, <3>1, <3>2 DEF TypeOK, vmVars
  <2>2. UNCHANGED <<list, mem, armed, cur, next, pc, locked>>
    BY <1>1 DEF Fire, ReadGp, vmVars, osVars
  <2> QED
    BY <1>0, <2>1, <2>2, KeptList DEF NextListed, Listed
<1>2. CASE Mark(t) /\ UNCHANGED <<list, state, cnt>>
  <2>1. UNCHANGED <<mem, filled, next, locked, armed, fresh, vmVars, fault>>
        /\ ready' \in [Timers -> Nat]
    BY <1>0, <1>2 DEF TypeOK, Mark
  <2>2. TypeOK'
    BY <1>0, <1>2, <2>1 DEF TypeOK, vmVars
  <2> QED
    BY <1>0, <1>2, <2>1, <2>2, KeptList DEF NextListed, Listed, vmVars
<1>3. CASE Mark(t) /\ ~UNCHANGED <<list, state, cnt>>
  <2>1. /\ t \in Listed /\ list' = <<t>> \o Without(t) /\ state' = [state EXCEPT ![t] = 1]
        /\ cnt' = (cnt + 1) % Width /\ ready' \in [Timers -> Nat]
        /\ UNCHANGED <<mem, filled, next, locked, armed, fresh, vmVars, fault>>
    BY <1>0, <1>3 DEF TypeOK, Mark
  <2>2. list' \in Seq(Timers) /\ IsInjective(list') /\ ToSet(list') = Listed
    <3>1. Without(t) \in Seq(Timers) /\ IsInjective(Without(t)) /\ ToSet(Without(t)) = Listed \ {t}
      BY <1>0, WithoutIs
    <3>2. t \notin ToSet(Without(t)) /\ {t} \cup ToSet(Without(t)) = Listed
      BY <2>1, <3>1
    <3> QED
      BY <2>1, <3>1, <3>2, ConsProperties
  <2>3. Listed' = Listed /\ ListInv'
    BY <2>2, ListedAfter DEF ListInv
  <2>4. TypeOK'
    BY <1>0, <2>1, <2>2, CountWraps DEF TypeOK, vmVars
  <2>5. \A i, j \in 1..Len(list') : list'[i] = list'[j] => i = j
    BY <2>2, LenProperties DEF IsInjective
  <2> QED
    BY <1>0, <2>1, <2>3, <2>4, <2>5 DEF CursorInv, NextListed, ListedLive, LockReturned, CurInv, vmVars
<1> QED
  BY <1>1, <1>2, <1>3 DEF Event

\* The steps of the callback loop.
LEMMA LoopCursor ==
    ASSUME CursorInv, Check \/ Throw \/ Begin \/ Pop \/ Return \/ Test \/ Again \/ Fill,
           UNCHANGED script
    PROVE  CursorInv'
<1>0. TypeOK /\ ListInv /\ NextListed
  BY DEF CursorInv
<1>1. CASE Check \/ Throw \/ Return \/ Test \/ Again
  <2>1. /\ depth' \in Nat /\ pc # "disarm" /\ pc' \in {"script", "begin", "pop", "test", "again"}
        /\ UNCHANGED <<mem, filled, list, state, next, cnt, locked, osVars, cur, creates, fault>>
    BY <1>0, <1>1 DEF TypeOK, Check, Throw, Return, Test, Again, Vm
  <2>2. TypeOK'
    BY <1>0, <2>1 DEF TypeOK, osVars
  <2> QED
    BY <1>0, <2>1, <2>2, KeptList DEF NextListed, Listed, osVars
<1>2. CASE Begin
  <2>1. /\ pc = "begin" /\ pc' = "pop" /\ next' = HeadOfList
        /\ UNCHANGED <<mem, filled, list, state, cnt, locked, osVars, cur, depth, creates, fault>>
    BY <1>2 DEF Begin, Vm
  <2>2. HeadOfList = None \/ HeadOfList \in Listed
    BY <1>0, HeadIsFirst, ListedIsRange DEF HeadOfList, TypeOK
  <2>3. TypeOK'
    BY <1>0, <2>1, <2>2, ListedIsRange DEF TypeOK, osVars
  <2>4. NextListed'
    BY <2>1, <2>2 DEF NextListed, Listed
  <2> QED
    BY <2>1, <2>3, <2>4, KeptList DEF osVars
<1>3. CASE Pop
  <2>1. /\ pc = "pop" /\ pc' = "script" /\ UNCHANGED <<mem, filled, list, locked, osVars, cur, creates>>
        /\ \/ /\ next # None /\ next' = After(next) /\ state' = [state EXCEPT ![next] = 0]
              /\ cnt' = (cnt - 1) % Width /\ depth' = depth + 1 /\ UNCHANGED fault
           \/ fault' = "null" /\ UNCHANGED <<next, state, cnt, depth>>
    BY <1>3 DEF Pop, Vm
  <2>2. next # None => next \in Listed /\ After(next) \in Listed \cup {None}
    BY <1>0, AfterIs DEF NextListed
  <2>3. TypeOK'
    <3>1. next' \in Timers \cup {None} /\ state' \in [Timers -> {0, 1}]
      BY <1>0, <2>1, <2>2, ListedIsRange DEF TypeOK
    <3>2. cnt' \in 0..(Width - 1) /\ depth' \in Nat /\ fault' \in {None, "event", "null"}
      <4>1. cnt \in 0..(Width - 1) /\ depth \in Nat /\ fault \in {None, "event", "null"}
        BY <1>0 DEF TypeOK
      <4>2. (cnt - 1) % Width \in 0..(Width - 1)
        BY <4>1, CountWraps
      <4> QED
        BY <2>1, <4>1, <4>2
    <3> QED
      BY <1>0, <2>1, <3>1, <3>2 DEF TypeOK, osVars
  <2>4. NextListed'
    BY <1>0, <2>1, <2>2 DEF NextListed, Listed
  <2> QED
    BY <2>1, <2>3, <2>4, KeptList DEF osVars
<1>4. CASE Fill
  <2>1. /\ pc = "fill" /\ pc' = "script" /\ cur' = None /\ filled' = [filled EXCEPT ![cur] = TRUE]
        /\ UNCHANGED <<mem, list, state, next, cnt, locked, osVars, depth, creates, fault>>
    BY <1>4 DEF Fill, Vm
  <2>2. TypeOK'
    BY <1>0, <2>1 DEF TypeOK, osVars
  <2> QED
    BY <1>0, <2>1, <2>2 DEF CursorInv, NextListed, ListedLive, LockReturned, ListInv, CurInv, Listed, osVars
<1> QED
  BY <1>1, <1>2, <1>3, <1>4

\* Creating a timer, and deleting one.
LEMMA ChangeCursor ==
    ASSUME CursorInv, UNCHANGED script,
           (\E t \in Timers : Arm(t) \/ Delete(t)) \/ Publish \/ Disarm \/ Free
    PROVE  CursorInv'
<1>0. TypeOK /\ ListInv /\ NextListed /\ ListedLive
  BY DEF CursorInv
<1>a. \A x \in Timers : /\ x \in Listed => mem[x] = "live"
                        /\ mem[x] = "freed" /\ armed[x] => pc = "disarm" /\ x = cur
  BY <1>0 DEF ListedLive
<1>1. ASSUME NEW t \in Timers, Arm(t) PROVE CursorInv'
  <2>1. /\ mem[t] # "live" /\ pc = "script" /\ pc' = "publish" /\ cur' = t /\ mem' = [mem EXCEPT ![t] = "live"]
        /\ filled' = [filled EXCEPT ![t] = FALSE] /\ armed' = [armed EXCEPT ![t] = TRUE]
        /\ creates' = creates + 1
        /\ UNCHANGED <<list, state, next, cnt, locked, fresh, ready, depth, fault>>
    BY <1>1 DEF Arm, Vm
  <2>2. TypeOK'
    BY <1>0, <2>1 DEF TypeOK
  <2>3. t \notin Listed /\ Listed' = Listed
    BY <1>a, <2>1 DEF Listed
  <2>4. \A x \in Timers : /\ x \in Listed' => mem'[x] = "live"
                          /\ mem'[x] = "freed" /\ armed'[x] => pc' = "disarm" /\ x = cur'
    BY <1>0, <1>a, <2>1, <2>3 DEF TypeOK
  <2>5. ListedLive'
    BY <2>1, <2>4 DEF CursorInv, ListedLive
  <2>6. CurInv'
    BY <1>0, <2>1, <2>3 DEF CurInv, TypeOK
  <2> QED
    BY <2>1, <2>2, <2>3, <2>5, <2>6 DEF CursorInv, NextListed, LockReturned, ListInv
<1>2. ASSUME NEW t \in Timers, Delete(t) PROVE CursorInv'
  <2>1. /\ t \in Listed /\ pc = "script" /\ pc' = "free" /\ cur' = t /\ list' = Without(t)
        /\ cnt' = IF state[t] # 0 THEN (cnt - 1) % Width ELSE cnt
        /\ next' = IF next = t THEN After(t) ELSE next
        /\ UNCHANGED <<mem, filled, state, locked, osVars, depth, creates, fault>>
    BY <1>2 DEF Delete, Vm
  <2>2. list' \in Seq(Timers) /\ IsInjective(list') /\ Listed' = Listed \ {t}
    BY <1>0, <2>1, WithoutIs, ListedAfter
  <2>3. After(t) \in Listed \cup {None} /\ After(t) # t
    BY <1>0, <2>1, AfterIs
  <2>4. TypeOK'
    <3>1. cnt' \in 0..(Width - 1)
      BY <1>0, <2>1, CountWraps DEF TypeOK
    <3> QED
      BY <1>0, <2>1, <2>2, <2>3, <3>1, ListedIsRange DEF TypeOK, osVars
  <2>5. NextListed'
    BY <1>0, <2>1, <2>2, <2>3 DEF NextListed
  <2>6. \A i, j \in 1..Len(list') : list'[i] = list'[j] => i = j
    BY <2>2, LenProperties DEF IsInjective
  <2>8. \A x \in Timers : /\ x \in Listed' => mem'[x] = "live"
                          /\ mem'[x] = "freed" /\ armed'[x] => pc' = "disarm" /\ x = cur'
    BY <1>a, <2>1, <2>2 DEF osVars
  <2>9. mem'[t] = "live"
    BY <1>a, <2>1
  <2>7. ListedLive' /\ ListInv' /\ CurInv'
    BY <2>1, <2>2, <2>6, <2>8, <2>9 DEF ListedLive, ListInv, CurInv
  <2> QED
    BY <2>1, <2>4, <2>5, <2>7 DEF CursorInv, LockReturned
<1>3. CASE Publish
  <2>0. pc = "publish" /\ cur \in Timers /\ cur \notin Listed /\ mem[cur] = "live"
    BY <1>3 DEF Publish, Vm, CursorInv, CurInv
  <2>1. /\ state' = [state EXCEPT ![cur] = 0]
        /\ UNCHANGED <<filled, next, cnt, osVars, cur, depth, creates, fault>>
        /\ \/ pc' = "fill" /\ list' = <<cur>> \o list /\ UNCHANGED <<mem, locked>>
           \/ /\ "insert" \in script /\ pc' = "disarm" /\ locked' = TRUE
              /\ mem' = [mem EXCEPT ![cur] = "freed"] /\ UNCHANGED list
    BY <1>3 DEF Publish, Vm
  <2>2. CASE /\ "insert" \in script /\ pc' = "disarm" /\ locked' = TRUE
             /\ mem' = [mem EXCEPT ![cur] = "freed"] /\ UNCHANGED list
    <3>1. TypeOK'
      <4>1. /\ mem' \in [Timers -> {"none", "live", "freed"}] /\ state' \in [Timers -> {0, 1}]
            /\ locked' \in BOOLEAN
        BY <1>0, <2>1, <2>2 DEF TypeOK
      <4> QED
        BY <1>0, <2>1, <2>2, <4>1 DEF TypeOK, osVars
    <3>2. Listed' = Listed
      BY <2>2 DEF Listed
    <3>3. mem \in [Timers -> {"none", "live", "freed"}] /\ armed \in [Timers -> BOOLEAN]
      BY <1>0 DEF TypeOK
    <3>4. ListedLive' /\ CurInv'
      BY <2>0, <2>1, <2>2, <3>2, <3>3 DEF CursorInv, ListedLive, CurInv, osVars
    <3> QED
      BY <1>0, <2>1, <2>2, <3>1, <3>2, <3>4 DEF CursorInv, NextListed, LockReturned, ListInv
  <2>3. CASE list' = <<cur>> \o list /\ pc' = "fill" /\ UNCHANGED <<mem, locked>>
    <3>1. list' \in Seq(Timers) /\ IsInjective(list') /\ ToSet(list') = {cur} \cup Listed
      BY <1>0, <2>0, <2>3, ConsProperties, ListedIsRange DEF TypeOK, ListInv
    <3>2. Listed' = {cur} \cup Listed
      BY <3>1, ListedAfter
    <3>3. TypeOK'
      BY <1>0, <2>0, <2>1, <2>3, <3>1 DEF TypeOK, osVars
    <3>4. \A i, j \in 1..Len(list') : list'[i] = list'[j] => i = j
      BY <3>1, LenProperties DEF IsInjective
    <3>5. ListedLive' /\ CurInv'
      BY <2>0, <2>1, <2>3, <3>2, <3>4 DEF CursorInv, ListedLive, CurInv, osVars
    <3> QED
      BY <1>0, <2>1, <2>3, <3>1, <3>2, <3>3, <3>5 DEF CursorInv, NextListed, LockReturned, ListInv
  <2> QED
    BY <2>1, <2>2, <2>3
<1>4. CASE Free
  <2>0. pc = "free" /\ cur \in Timers /\ cur \notin Listed
    BY <1>4 DEF Free, Vm, CursorInv, CurInv
  <2>1. /\ mem' = [mem EXCEPT ![cur] = "freed"] /\ armed' = [armed EXCEPT ![cur] = FALSE]
        /\ cur' = None /\ pc' = "script"
        /\ UNCHANGED <<filled, list, state, next, cnt, locked, fresh, ready, depth, creates, fault>>
    BY <1>4 DEF Free, Vm
  <2>2. TypeOK'
    BY <1>0, <2>1 DEF TypeOK
  <2>3. ListedLive' /\ CurInv' /\ Listed' = Listed
    BY <1>0, <2>0, <2>1, SMTT(30) DEF TypeOK, CursorInv, ListedLive, CurInv, Listed
  <2> QED
    BY <1>0, <2>1, <2>2, <2>3 DEF CursorInv, NextListed, LockReturned, ListInv
<1>5. CASE Disarm
  <2>0. pc = "disarm" /\ cur \in Timers /\ cur \notin Listed
    BY <1>5 DEF Disarm, Vm, CursorInv, CurInv
  <2>1. /\ armed' = [armed EXCEPT ![cur] = FALSE] /\ cur' = None /\ pc' = "script" /\ depth' \in 0..depth
        /\ UNCHANGED <<mem, filled, list, state, next, cnt, locked, fresh, ready, creates, fault>>
    BY <1>5 DEF Disarm, Vm
  <2>2. TypeOK'
    <3>1. depth' \in Nat
      BY <1>0, <2>1 DEF TypeOK
    <3> QED
      BY <1>0, <2>1, <3>1 DEF TypeOK
  <2>3. ListedLive' /\ CurInv' /\ Listed' = Listed
    BY <1>0, <2>0, <2>1, SMTT(30) DEF TypeOK, CursorInv, ListedLive, CurInv, Listed
  <2> QED
    BY <1>0, <2>1, <2>2, <2>3 DEF CursorInv, NextListed, LockReturned, ListInv
<1> QED
  BY <1>1, <1>2, <1>3, <1>4, <1>5

LEMMA CursorInit == Init => CursorInv
<1> SUFFICES ASSUME Init PROVE CursorInv
  OBVIOUS
<1>1. list \in Seq(Timers) /\ IsInjective(list)
  BY InitialAssumption DEF Init
<1>2. \A i, j \in 1..Len(list) : list[i] = list[j] => i = j
  BY <1>1, LenProperties DEF IsInjective
<1>3. 0 \in 0..(Width - 1)
  BY WidthAssumption, FS_CardinalityType
<1>4. TypeOK
  <2>1. /\ mem \in [Timers -> {"none", "live", "freed"}] /\ filled \in [Timers -> BOOLEAN]
        /\ armed \in [Timers -> BOOLEAN] /\ state \in [Timers -> {0, 1}]
        /\ fresh \in [Timers -> Nat] /\ ready \in [Timers -> Nat]
    BY DEF Init
  <2> QED
    BY <1>1, <1>3, <2>1 DEF Init, TypeOK
<1>5. ListedLive
  BY <1>2 DEF Init, ListedLive
<1> QED
  BY <1>1, <1>4, <1>5 DEF Init, CursorInv, NextListed, LockReturned, ListInv, CurInv

THEOREM CursorInvHolds == Spec => []CursorInv
<1>1. CursorInv /\ [Next]_vars => CursorInv'
  <2> SUFFICES ASSUME CursorInv, [Next]_vars PROVE CursorInv'
    OBVIOUS
  <2>1. CASE Next
    BY <2>1, EventCursor, LoopCursor, ChangeCursor DEF Next, VmRun
  <2>2. CASE UNCHANGED vars
    <3>1. /\ UNCHANGED <<script, mem, filled, armed, list, state, next, cnt, locked, fresh, ready>>
          /\ UNCHANGED <<pc, cur, depth, creates, fault>>
      BY <2>2 DEF vars, osVars, vmVars
    <3>2. TypeOK' /\ NextListed'
      BY <3>1 DEF CursorInv, TypeOK, NextListed, Listed
    <3> QED
      BY <3>1, <3>2, KeptList
  <2> QED
    BY <2>1, <2>2
<1> QED
  BY <1>1, CursorInit, PTL DEF Spec

\* The cursor of the callback loop never dangles: with any number of timers, event
\* threads and nested callbacks, whatever they create and delete meanwhile.
THEOREM CursorLiveHolds == Spec => []CursorLive
<1>1. CursorInv => CursorLive
  BY DEF CursorInv, CursorLive
<1> QED
  BY <1>1, CursorInvHolds, PTL

----------------------------------------------------------------------------
(* The count of events and the order of the list, in a plain script.       *)

\* x stands before y although only y has an event.
Inverted(x, y) == /\ x \in Listed /\ state[x] = 0
                  /\ y \in Listed /\ state[y] = 1
                  /\ Before(list, x, y)

\* Where the VM thread of a plain script can be: its callbacks do not nest.
PlaceInv == /\ pc \in {"script", "begin", "pop", "test", "again", "free"} /\ depth \in {0, 1}
            /\ pc \in {"begin", "pop", "test", "again"} => depth = 0

\* The VM thread is not in the callback loop, or has come to the end of it.
OutsideLoop == pc \in {"again", "begin"} \/ (pc \in {"script", "free"} /\ depth = 0)

\* A timer without an event stands before one with an event only across the cursor:
\* the loop is past the former and will come to the latter.  Outside the loop the
\* timers with an event are at the head of the list.
OrderInv == /\ \A x, y \in Timers : Inverted(x, y) => Before(list, x, next) /\ ~Before(list, y, next)
            /\ OutsideLoop => \A x, y \in Timers : ~Inverted(x, y)

\* The loop is entered with an event counted, and takes a timer with an event.
TakeInv == /\ pc = "begin" => cnt # 0
           /\ pc = "pop" => next # None /\ state[next] = 1

CountInv == cnt = Cardinality(Marked)

EventInv == Plain => PlaceInv /\ OrderInv /\ TakeInv /\ CountInv

\* Any timers, and so those marked, are fewer than the counter can count.
LEMMA TimersAreFew ==
    ASSUME NEW M, M \subseteq Timers
    PROVE  IsFiniteSet(M) /\ Cardinality(M) \in Nat /\ Cardinality(M) < Width
<1>2. /\ IsFiniteSet(Timers) /\ Cardinality(Timers) \in Nat /\ Width \in Nat /\ Cardinality(Timers) < Width
  BY WidthAssumption, FS_CardinalityType
<1>3. IsFiniteSet(M) /\ Cardinality(M) <= Cardinality(Timers)
  BY <1>2, FS_Subset
<1>4. Cardinality(M) \in Nat
  BY <1>3, FS_CardinalityType
<1> QED
  BY <1>2, <1>3, <1>4

\* The order of the list, as OrderIsTotal has it.
LEMMA ListOrder ==
    ASSUME TypeOK, ListInv
    PROVE  /\ \A x, y : Before(list, x, y) => x \in Listed /\ y \in Listed /\ x # y /\ ~Before(list, y, x)
           /\ \A x, y, z : Before(list, x, y) /\ Before(list, y, z) => Before(list, x, z)
           /\ \A x, y \in Listed : x # y => Before(list, x, y) \/ Before(list, y, x)
<1>1. list \in Seq(Timers) /\ IsInjective(list) /\ Listed = ToSet(list)
  BY ListedIsRange DEF TypeOK, ListInv
<1> QED
  BY <1>1, OrderIsTotal

\* An event enters: its timer, wherever it stood, becomes the head of the list.
LEMMA MarkEvents ==
    ASSUME CursorInv, CursorInv', EventInv, Plain, NEW t \in Timers, Mark(t), ~UNCHANGED <<list, state, cnt>>
    PROVE  PlaceInv' /\ OrderInv' /\ TakeInv' /\ CountInv'
<1>0. /\ TypeOK /\ TypeOK' /\ ListInv /\ NextListed /\ PlaceInv /\ OrderInv /\ TakeInv /\ CountInv
      /\ state \in [Timers -> {0, 1}]
  BY DEF CursorInv, EventInv, TypeOK
<1>1. /\ t \in Listed /\ state[t] = 0 /\ list' = <<t>> \o Without(t) /\ state' = [state EXCEPT ![t] = 1]
      /\ cnt' = (cnt + 1) % Width /\ UNCHANGED <<next, pc, depth>>
  BY DEF Mark, vmVars
<1>2. /\ Without(t) \in Seq(Timers) /\ ToSet(Without(t)) = Listed \ {t}
      /\ \A x, y : Before(Without(t), x, y) <=> Before(list, x, y) /\ x # t /\ y # t
  BY <1>0, WithoutIs, RemoveFirstOrder DEF TypeOK, ListInv, Without
<1>3. \A x, y : Before(list', x, y) <=> (x = t /\ y \in Listed \ {t})
                                        \/ (Before(list, x, y) /\ x # t /\ y # t)
  BY <1>1, <1>2, ConsOrder
<1>4. Listed' = Listed
  <2>1. list' \in Seq(Timers) /\ ToSet(list') = {t} \cup ToSet(Without(t))
    BY <1>1, <1>2, ConsProperties
  <2> QED
    BY <1>1, <1>2, <2>1, ListedAfter
<1>5. \A x, y \in Timers : Inverted(x, y)' => Inverted(x, y) /\ x # t /\ y # t
  BY <1>0, <1>1, <1>3, <1>4 DEF Inverted
<1>6. OrderInv'
  <2>1. ASSUME NEW x \in Timers, NEW y \in Timers, Inverted(x, y)'
        PROVE  Before(list', x, next') /\ ~Before(list', y, next')
    <3>1. /\ Inverted(x, y) /\ x # t /\ y # t
          /\ Before(list, x, next) /\ ~Before(list, y, next)
      BY <1>0, <1>5, <2>1 DEF OrderInv
    <3>2. next # t
      <4>1. SUFFICES ASSUME next = t PROVE FALSE
        OBVIOUS
      <4>2. Before(list, t, y)
        BY <1>0, <1>1, <3>1, <4>1, ListOrder DEF Inverted
      <4>3. Inverted(t, y)
        BY <1>1, <3>1, <4>2 DEF Inverted
      <4>4. Before(list, t, t)
        BY <1>0, <4>1, <4>3 DEF OrderInv
      <4> QED
        BY <1>0, <4>4, ListOrder
    <3> QED
      BY <1>1, <1>3, <3>1, <3>2
  <2>2. OutsideLoop' => OutsideLoop
    BY <1>1 DEF OutsideLoop
  <2> QED
    BY <1>0, <1>5, <2>1, <2>2 DEF OrderInv
<1>7. CountInv' /\ cnt' # 0
  <2>1. /\ t \notin Marked /\ Marked' = Marked \cup {t}
        /\ Marked \subseteq Timers /\ Marked' \subseteq Timers
    BY <1>0, <1>1, <1>4, ListedIsRange DEF Marked
  <2>2. Cardinality(Marked') = Cardinality(Marked) + 1
    BY <2>1, TimersAreFew, FS_AddElement
  <2>3. Cardinality(Marked') < Width
    BY <2>1, TimersAreFew
  <2>4. cnt \in 0..(Width - 1) /\ cnt + 1 < Width
    BY <1>0, <2>2, <2>3 DEF TypeOK, CountInv
  <2>5. cnt' = cnt + 1
    BY <1>1, <2>4, CountWraps
  <2> QED
    BY <1>0, <2>2, <2>4, <2>5 DEF CountInv
<1>8. PlaceInv' /\ TakeInv'
  <2>1. PlaceInv'
    BY <1>0, <1>1 DEF PlaceInv
  <2>2. pc = "pop" => next \in Timers /\ state[next] = 1 /\ next # t
    BY <1>0, <1>1, ListedIsRange DEF TakeInv, NextListed
  <2>3. TakeInv'
    BY <1>0, <1>1, <1>7, <2>2 DEF TakeInv
  <2> QED
    BY <2>1, <2>3
<1> QED
  BY <1>6, <1>7, <1>8

\* A timer with an event leaves the count.
LEMMA CountDown ==
    ASSUME TypeOK, CountInv, NEW t \in Marked, Marked' = Marked \ {t}, cnt' = (cnt - 1) % Width
    PROVE  CountInv'
<1>1. Marked \subseteq Timers
  BY ListedIsRange DEF Marked
<1>2. Cardinality(Marked') = Cardinality(Marked) - 1 /\ Cardinality(Marked') \in Nat
  BY <1>1, TimersAreFew, FS_RemoveElement
<1>3. cnt \in 0..(Width - 1) /\ cnt = Cardinality(Marked) /\ cnt > 0
  BY <1>1, <1>2, TimersAreFew DEF TypeOK, CountInv
<1>4. cnt' = cnt - 1
  BY <1>3, CountWraps
<1> QED
  BY <1>2, <1>3, <1>4 DEF CountInv

\* A callback, or the script, kills a timer: the cursor steps over it.
LEMMA DeleteEvents ==
    ASSUME CursorInv, EventInv, Plain, NEW t \in Timers, Delete(t)
    PROVE  PlaceInv' /\ OrderInv' /\ TakeInv' /\ CountInv'
<1>0. /\ TypeOK /\ ListInv /\ NextListed /\ PlaceInv /\ OrderInv /\ TakeInv /\ CountInv
      /\ state \in [Timers -> {0, 1}]
  BY DEF CursorInv, EventInv, TypeOK
<1>1. /\ pc = "script" /\ pc' = "free" /\ t \in Listed /\ list' = Without(t)
      /\ cnt' = IF state[t] # 0 THEN (cnt - 1) % Width ELSE cnt
      /\ next' = IF next = t THEN After(t) ELSE next
      /\ UNCHANGED <<state, depth>>
  BY DEF Delete, Vm
<1>2. /\ Listed' = Listed \ {t}
      /\ \A x, y : Before(list', x, y) <=> Before(list, x, y) /\ x # t /\ y # t
  <2>1. list' \in Seq(Timers) /\ ToSet(list') = Listed \ {t}
    BY <1>0, <1>1, WithoutIs
  <2>2. Listed' = Listed \ {t}
    BY <2>1, ListedAfter
  <2> QED
    BY <1>0, <1>1, <2>2, RemoveFirstOrder DEF TypeOK, ListInv, Without
<1>3. \A x, y \in Timers : Inverted(x, y)' => Inverted(x, y) /\ x # t /\ y # t
  BY <1>1, <1>2 DEF Inverted
<1>4. OrderInv'
  <2>1. ASSUME NEW x \in Timers, NEW y \in Timers, Inverted(x, y)'
        PROVE  Before(list', x, next') /\ ~Before(list', y, next')
    <3>1. /\ Inverted(x, y) /\ x # t /\ y # t /\ y \in Listed
          /\ Before(list, x, next) /\ ~Before(list, y, next)
      BY <1>0, <1>3, <2>1 DEF OrderInv, Inverted
    <3>2. CASE next # t
      BY <1>1, <1>2, <3>1, <3>2
    <3>3. CASE next = t
      <4>1. Before(list, t, y)
        BY <1>0, <1>1, <3>1, <3>3, ListOrder
      <4>2. /\ After(t) # t /\ Before(list, t, After(t))
            /\ y = After(t) \/ Before(list, After(t), y)
        BY <1>0, <1>1, <4>1, AfterIs
      <4>3. Before(list, x, After(t)) /\ ~Before(list, y, After(t))
        BY <1>0, <3>1, <3>3, <4>2, ListOrder
      <4> QED
        BY <1>1, <1>2, <3>1, <3>3, <4>2, <4>3
    <3> QED
      BY <3>2, <3>3
  <2>2. OutsideLoop' => OutsideLoop
    BY <1>1 DEF OutsideLoop
  <2> QED
    BY <1>0, <1>3, <2>1, <2>2 DEF OrderInv
<1>5. CountInv'
  <2>1. Marked' = Marked \ {t}
    BY <1>1, <1>2 DEF Marked
  <2>2. CASE state[t] = 1
    BY <1>0, <1>1, <2>1, <2>2, CountDown DEF Marked
  <2>3. CASE state[t] = 0
    BY <1>0, <1>1, <2>1, <2>3 DEF Marked, CountInv
  <2> QED
    BY <1>0, <2>2, <2>3
<1>6. PlaceInv' /\ TakeInv'
  BY <1>0, <1>1 DEF PlaceInv, TakeInv
<1> QED
  BY <1>4, <1>5, <1>6

\* The loop takes the timer at the cursor and moves the cursor past it.
LEMMA PopEvents ==
    ASSUME CursorInv, EventInv, Plain, Pop
    PROVE  PlaceInv' /\ OrderInv' /\ TakeInv' /\ CountInv'
<1>0. /\ TypeOK /\ ListInv /\ NextListed /\ PlaceInv /\ OrderInv /\ TakeInv /\ CountInv
      /\ state \in [Timers -> {0, 1}]
  BY DEF CursorInv, EventInv, TypeOK
<1>1. /\ pc = "pop" /\ pc' = "script" /\ next \in Listed /\ next \in Timers /\ state[next] = 1
      /\ next' = After(next) /\ state' = [state EXCEPT ![next] = 0]
      /\ cnt' = (cnt - 1) % Width /\ depth = 0 /\ depth' = 1 /\ UNCHANGED list
  BY <1>0, ListedIsRange DEF Pop, Vm, PlaceInv, TakeInv, NextListed
<1>2. Listed' = Listed /\ \A x, y : Before(list', x, y) <=> Before(list, x, y)
  BY <1>1 DEF Listed, Before
<1>3. \A x, y \in Timers : Inverted(x, y)' =>
        /\ y \in Listed /\ y # next /\ Before(list, x, y)
        /\ x = next \/ Inverted(x, y)
  BY <1>0, <1>1, <1>2 DEF Inverted
<1>4. ASSUME NEW x \in Timers, NEW y \in Timers, Inverted(x, y)'
      PROVE  Before(list', x, next') /\ ~Before(list', y, next')
  <2>1. x = next \/ Before(list, x, next)
    BY <1>0, <1>3, <1>4 DEF OrderInv
  <2>2. Before(list, next, y)
    BY <1>0, <1>1, <1>3, <1>4, ListOrder DEF OrderInv
  <2>3. Before(list, next, After(next)) /\ (y = After(next) \/ Before(list, After(next), y))
    BY <1>0, <1>1, <2>2, AfterIs
  <2>4. Before(list, x, After(next)) /\ ~Before(list, y, After(next))
    BY <1>0, <2>1, <2>3, ListOrder
  <2> QED
    BY <1>1, <1>2, <2>4
<1>5. OrderInv'
  BY <1>1, <1>4 DEF OrderInv, OutsideLoop
<1>6. CountInv'
  <2>1. next \in Marked /\ Marked' = Marked \ {next}
    BY <1>0, <1>1, <1>2 DEF Marked
  <2> QED
    BY <1>0, <1>1, <2>1, CountDown
<1>7. PlaceInv' /\ TakeInv'
  BY <1>0, <1>1 DEF PlaceInv, TakeInv
<1> QED
  BY <1>5, <1>6, <1>7

\* Steps that leave the list, the marks and the count alone.
LEMMA KeptEvents ==
    ASSUME OrderInv, CountInv, UNCHANGED <<list, state, cnt>>,
           UNCHANGED next \/ \A x, y \in Timers : ~Inverted(x, y),
           OutsideLoop' => OutsideLoop \/ \A x, y \in Timers : ~Inverted(x, y)
    PROVE  OrderInv' /\ CountInv'
<1>1. /\ Listed' = Listed /\ Marked' = Marked
      /\ \A x, y : (Inverted(x, y)' <=> Inverted(x, y)) /\ (Before(list', x, y) <=> Before(list, x, y))
  BY DEF Listed, Marked, Inverted, Before
<1> QED
  BY <1>1 DEF OrderInv, CountInv

\* The end of the marked timers is the end of the loop.
LEMMA TestEnds ==
    ASSUME CursorInv, OrderInv, next = None \/ state[next] = 0, NEW x \in Timers, NEW y \in Timers
    PROVE  ~Inverted(x, y)
<1>0. TypeOK /\ ListInv /\ NextListed
  BY DEF CursorInv
<1> SUFFICES ASSUME Inverted(x, y) PROVE FALSE
  OBVIOUS
<1>1. Before(list, x, next) /\ ~Before(list, y, next) /\ y \in Listed /\ state[y] = 1
  BY DEF OrderInv, Inverted
<1>2. next \in Listed /\ next \in Timers /\ state[next] = 0
  BY <1>0, <1>1, ListOrder, ListedIsRange, NoneAssumption
<1>3. Before(list, next, y)
  BY <1>0, <1>1, <1>2, ListOrder
<1>4. Inverted(next, y)
  BY <1>1, <1>2, <1>3 DEF Inverted
<1>5. Before(list, next, next)
  BY <1>2, <1>4 DEF OrderInv
<1> QED
  BY <1>0, <1>5, ListOrder

\* The loop begins at the head of the list, which has an event as one is counted.
LEMMA BeginEvents ==
    ASSUME CursorInv, EventInv, Plain, Begin
    PROVE  PlaceInv' /\ OrderInv' /\ TakeInv' /\ CountInv'
<1>0. /\ TypeOK /\ ListInv /\ PlaceInv /\ OrderInv /\ TakeInv /\ CountInv
      /\ state \in [Timers -> {0, 1}]
  BY DEF CursorInv, EventInv, TypeOK
<1>1. /\ pc = "begin" /\ pc' = "pop" /\ next' = HeadOfList /\ UNCHANGED <<list, state, cnt, depth>>
  BY DEF Begin, Vm
<1>2. \A x, y \in Timers : ~Inverted(x, y)
  BY <1>0, <1>1 DEF OrderInv, OutsideLoop
<1>3. PICK y \in Marked : TRUE
  BY <1>0, <1>1, FS_EmptySet DEF TakeInv, CountInv
<1>4. y \in Listed /\ state[y] = 1 /\ Listed = ToSet(list) /\ Listed \subseteq Timers /\ list \in Seq(Timers)
  BY <1>0, <1>3, ListedIsRange DEF Marked, TypeOK
<1>5. list # <<>>
  BY <1>4, EmptySeq DEF ToSet
<1>6. HeadOfList = Head(list) /\ Head(list) \in Listed
      /\ (y # Head(list) => Before(list, Head(list), y))
  BY <1>4, <1>5, HeadIsFirst DEF HeadOfList
<1>7. state[Head(list)] = 1
  BY <1>0, <1>2, <1>4, <1>6 DEF Inverted
<1>8. PlaceInv' /\ TakeInv'
  BY <1>0, <1>1, <1>4, <1>6, <1>7, NoneAssumption DEF PlaceInv, TakeInv
<1>9. OrderInv' /\ CountInv'
  BY <1>0, <1>1, <1>2, KeptEvents DEF OutsideLoop
<1> QED
  BY <1>8, <1>9

\* The other steps of a plain script.
LEMMA OtherEvents ==
    ASSUME CursorInv, EventInv, Plain, UNCHANGED script,
           \/ \E t \in Timers : Fire(t) \/ ReadGp(t) \/ (Mark(t) /\ UNCHANGED <<list, state, cnt>>)
           \/ Check \/ Return \/ Test \/ Again \/ Free
    PROVE  PlaceInv' /\ OrderInv' /\ TakeInv' /\ CountInv'
<1>0. /\ TypeOK /\ PlaceInv /\ OrderInv /\ TakeInv /\ CountInv /\ NextListed
      /\ state \in [Timers -> {0, 1}] /\ Listed \subseteq Timers
  BY ListedIsRange DEF CursorInv, EventInv, TypeOK
<1>1. CASE \E t \in Timers : Fire(t) \/ ReadGp(t) \/ (Mark(t) /\ UNCHANGED <<list, state, cnt>>)
  <2>1. UNCHANGED <<list, state, cnt, next, pc, depth>>
    BY <1>1 DEF Fire, ReadGp, Mark, vmVars, osVars
  <2>2. PlaceInv' /\ TakeInv' /\ (OutsideLoop' => OutsideLoop)
    BY <1>0, <2>1 DEF PlaceInv, TakeInv, OutsideLoop
  <2> QED
    BY <1>0, <2>1, <2>2, KeptEvents
<1>2. CASE Check
  <2>1. /\ pc = "script" /\ pc' = "begin" /\ cnt # 0 /\ UNCHANGED <<list, state, cnt, next, depth>>
        /\ depth = 0
    BY <1>2 DEF Check, Vm, Plain
  <2>2. PlaceInv' /\ TakeInv' /\ OutsideLoop
    BY <1>0, <2>1 DEF PlaceInv, TakeInv, OutsideLoop
  <2> QED
    BY <1>0, <2>1, <2>2, KeptEvents
<1>3. CASE Return
  <2>1. /\ pc = "script" /\ pc' = "test" /\ depth > 0 /\ depth' = depth - 1
        /\ UNCHANGED <<list, state, cnt, next>>
    BY <1>3 DEF Return, Vm
  <2>2. depth = 1 /\ depth' = 0
    BY <1>0, <2>1 DEF PlaceInv
  <2>3. PlaceInv' /\ TakeInv' /\ ~OutsideLoop'
    BY <2>1, <2>2 DEF PlaceInv, TakeInv, OutsideLoop
  <2> QED
    BY <1>0, <2>1, <2>3, KeptEvents
<1>4. CASE Test
  <2>1. /\ pc = "test" /\ UNCHANGED <<list, state, cnt, next, depth>>
        /\ pc' = IF next # None /\ state[next] # 0 THEN "pop" ELSE "again"
    BY <1>4 DEF Test, Vm
  <2>2. depth = 0
    BY <1>0, <2>1 DEF PlaceInv
  <2>3. next # None => next \in Timers /\ state[next] \in {0, 1}
    BY <1>0 DEF NextListed
  <2>4. PlaceInv' /\ TakeInv'
    BY <2>1, <2>2, <2>3 DEF PlaceInv, TakeInv
  <2>5. pc' = "pop" => ~OutsideLoop'
    BY DEF OutsideLoop
  <2>6. pc' = "again" => \A x, y \in Timers : ~Inverted(x, y)
    BY <1>0, <2>1, <2>3, TestEnds
  <2> QED
    BY <1>0, <2>1, <2>4, <2>5, <2>6, KeptEvents
<1>5. CASE Again
  <2>1. /\ pc = "again" /\ UNCHANGED <<list, state, cnt, next, depth>>
        /\ pc' = IF cnt # 0 THEN "begin" ELSE "script"
    BY <1>5 DEF Again, Vm
  <2>2. PlaceInv' /\ TakeInv' /\ OutsideLoop
    BY <1>0, <2>1 DEF PlaceInv, TakeInv, OutsideLoop
  <2> QED
    BY <1>0, <2>1, <2>2, KeptEvents
<1>6. CASE Free
  <2>1. /\ pc = "free" /\ pc' = "script" /\ UNCHANGED <<list, state, cnt, next, depth>>
    BY <1>6 DEF Free, Vm
  <2>2. PlaceInv' /\ TakeInv' /\ (OutsideLoop' => OutsideLoop)
    BY <1>0, <2>1 DEF PlaceInv, TakeInv, OutsideLoop
  <2> QED
    BY <1>0, <2>1, <2>2, KeptEvents
<1> QED
  BY <1>1, <1>2, <1>3, <1>4, <1>5, <1>6

LEMMA EventsInit == Init => EventInv
<1> SUFFICES ASSUME Init, Plain PROVE PlaceInv /\ OrderInv /\ TakeInv /\ CountInv
  BY DEF EventInv
<1>1. TypeOK
  BY CursorInit DEF CursorInv
<1>2. Marked = {} /\ \A x, y \in Timers : ~Inverted(x, y)
  BY <1>1, ListedIsRange DEF Init, Marked, Inverted
<1> QED
  BY <1>2, FS_EmptySet DEF Init, PlaceInv, OrderInv, TakeInv, CountInv

\* In a plain script the count, the marks and the order of the list agree: the
\* counter counts the timers with an event exactly, and the loop takes a timer only
\* when it has one, with any number of timers and of event threads at a time.
THEOREM EventsExactHolds == Spec => []EventsExact
<1>1. CursorInv /\ CursorInv' /\ EventInv /\ [Next]_vars => EventInv'
  <2> SUFFICES ASSUME CursorInv, CursorInv', EventInv, [Next]_vars, Plain'
               PROVE  PlaceInv' /\ OrderInv' /\ TakeInv' /\ CountInv'
    BY DEF EventInv
  <2>1. UNCHANGED script /\ Plain
    BY DEF Next, vars, Plain
  <2>2. /\ "create" \notin script /\ "throw" \notin script
        /\ pc \notin {"publish", "disarm", "fill"}
    BY <2>1 DEF Plain, EventInv, PlaceInv
  <2>3. CASE Next
    <3>1. ASSUME NEW t \in Timers, Event(t) PROVE PlaceInv' /\ OrderInv' /\ TakeInv' /\ CountInv'
      BY <2>1, <3>1, MarkEvents, OtherEvents DEF Event
    <3>2. ASSUME NEW t \in Timers, Delete(t) PROVE PlaceInv' /\ OrderInv' /\ TakeInv' /\ CountInv'
      BY <2>1, <3>2, DeleteEvents
    <3>3. CASE Check \/ Return \/ Test \/ Again \/ Free
      BY <2>1, <3>3, OtherEvents
    <3>4. CASE Begin \/ Pop
      BY <2>1, <3>4, BeginEvents, PopEvents
    <3>5. ~Throw /\ ~Publish /\ ~Disarm /\ ~Fill /\ \A t \in Timers : ~Arm(t)
      BY <2>2 DEF Throw, Publish, Disarm, Fill, Arm, Vm
    <3> QED
      BY <2>3, <3>1, <3>2, <3>3, <3>4, <3>5 DEF Next, VmRun
  <2>4. CASE UNCHANGED vars
    <3>1. UNCHANGED <<list, state, cnt, next, pc, depth>>
      BY <2>4 DEF vars, vmVars, osVars
    <3>2. PlaceInv /\ OrderInv /\ TakeInv /\ CountInv
      BY <2>1 DEF EventInv
    <3>3. PlaceInv' /\ TakeInv' /\ (OutsideLoop' => OutsideLoop)
      BY <3>1, <3>2 DEF PlaceInv, TakeInv, OutsideLoop
    <3> QED
      BY <3>1, <3>2, <3>3, KeptEvents
  <2> QED
    BY <2>3, <2>4
<1>2. EventInv => EventsExact
  BY DEF EventInv, EventsExact, EventCntExact, TakesMarked, HeadHasEvent, CountInv, TakeInv
<1>3. Spec => []CursorInv
  BY CursorInvHolds
<1> QED
  BY <1>1, <1>2, <1>3, EventsInit, PTL DEF Spec

=============================================================================
