------------------------------- MODULE Timers -------------------------------
(***************************************************************************)
(* The timers of one VM: czl_sys_timer and czl_timer_event (czl_lib.c),    *)
(* czl_timer_create, czl_timer_delete and czl_timer_cb_fun_run (czl_vm.c). *)
(* The operating system runs czl_timer_event on threads of its own; it     *)
(* moves the timer to the head of the VM's list and marks it.  The VM      *)
(* thread looks at timerEventCnt at its checkpoints (CZL_CTiS) and runs    *)
(* the callbacks of the marked timers from the head of the list on.        *)
(*                                                                         *)
(* A critical section of timer_mutex is one action; the accesses the code  *)
(* makes without it are actions of their own.                              *)
(***************************************************************************)
EXTENDS Integers, Sequences, FiniteSets, SequencesExt

CONSTANTS
    Timers,         \* addresses of timers, reused after a deletion
    Initials,       \* the timers the script created before any could fire
    Scripts,        \* what the script does besides: sets of ScriptKinds
    MaxInFlight,    \* bound: event threads of one timer at a time
    MaxCreates,     \* bound: timers created later
    MaxDepth,       \* bound: callbacks nested in one another
    Width           \* 2^w for timerEventCnt, an unsigned long of w bits

\* delete: timers are killed; create: timers are created while others exist;
\* jumps: callbacks, or what they call, have a branch, a loop, a try or a goto,
\* all of which compile to checkpoints; throw: callbacks raise exceptions;
\* insert: the hash cannot grow.
ScriptKinds == {"delete", "create", "jumps", "throw", "insert"}

None == "none"

ASSUME InitialAssumption == /\ Initials \subseteq Seq(Timers)
                            /\ \A l \in Initials : IsInjective(l)
ASSUME ScriptAssumption  == Scripts \subseteq SUBSET ScriptKinds
ASSUME NoneAssumption    == None \notin Timers
ASSUME BoundsAssumption  == /\ MaxInFlight \in Nat /\ MaxCreates \in Nat
                            /\ MaxDepth \in Nat
\* Timers are heap objects: there are fewer of them than an unsigned long counts.
ASSUME WidthAssumption == /\ IsFiniteSet(Timers)
                          /\ Width \in Nat /\ Cardinality(Timers) < Width

VARIABLES
    script,     \* what the script does, one of Scripts
    mem,        \* the memory of a timer: "none", "live" or "freed"
    filled,     \* t->gp has been written
    armed,      \* the operating system's timer is running
    list,       \* gp->timers_head ..., also the contents of timers_hash
    state,      \* t->state: an event waits for its callback
    next,       \* gp->timer_next
    cnt,        \* gp->timerEventCnt
    locked,     \* timer_mutex was left locked
    fresh,      \* event threads that have not read t->gp yet
    ready,      \* event threads about to lock
    pc,         \* where the VM thread is
    cur,        \* the timer it creates or deletes
    depth,      \* callbacks it is in
    creates,    \* timers created so far
    fault       \* None, or the first access to memory that is not a timer's

osVars == <<armed, fresh, ready>>
vmVars == <<pc, cur, depth, creates>>
vars == <<script, mem, filled, list, state, next, cnt, locked, osVars, vmVars, fault>>

Listed == {list[i] : i \in 1..Len(list)}
Without(t) == RemoveFirst(list, t)
After(t) == LET i == CHOOSE j \in 1..Len(list) : list[j] = t
            IN IF i = Len(list) THEN None ELSE list[i + 1]
HeadOfList == IF list = <<>> THEN None ELSE Head(list)

Init ==
    /\ script \in Scripts /\ list \in Initials
    /\ "create" \in script => Listed # Timers
    /\ mem = [t \in Timers |-> IF t \in Listed THEN "live" ELSE "none"]
    /\ filled = [t \in Timers |-> t \in Listed]
    /\ armed = [t \in Timers |-> t \in Listed]
    /\ state = [t \in Timers |-> 0]
    /\ next = None /\ cnt = 0 /\ locked = FALSE
    /\ fresh = [t \in Timers |-> 0]
    /\ ready = [t \in Timers |-> 0]
    /\ pc = "script" /\ cur = None /\ depth = 0 /\ creates = 0
    /\ fault = None

----------------------------------------------------------------------------
(* The event threads.                                                      *)

Fire(t) ==
    /\ fault = None
    /\ armed[t] /\ fresh[t] + ready[t] < MaxInFlight
    /\ fresh' = [fresh EXCEPT ![t] = @ + 1]
    /\ UNCHANGED <<mem, filled, list, state, next, cnt, locked, armed, ready, vmVars, fault>>

\* gp = t->gp, before the lock: the timer may be gone or not yet written.
ReadGp(t) ==
    /\ fault = None
    /\ fresh[t] > 0
    /\ \/ /\ mem[t] = "live" /\ filled[t]
          /\ fresh' = [fresh EXCEPT ![t] = @ - 1]
          /\ ready' = [ready EXCEPT ![t] = @ + 1]
          /\ UNCHANGED fault
       \/ /\ mem[t] = "freed" \/ ~filled[t]
          /\ fault' = "event"
          /\ UNCHANGED <<fresh, ready>>
    /\ UNCHANGED <<mem, filled, list, state, next, cnt, locked, armed, vmVars>>

\* Mutant: the timer is marked where it stands in the list.
MarkInPlace(t) ==
    /\ fault = None
    /\ ready[t] > 0 /\ ~locked
    /\ ready' = [ready EXCEPT ![t] = @ - 1]
    /\ \/ /\ t \in Listed /\ state[t] = 0
          /\ state' = [state EXCEPT ![t] = 1]
          /\ cnt' = (cnt + 1) % Width
       \/ /\ t \notin Listed \/ state[t] # 0
          /\ UNCHANGED <<state, cnt>>
    /\ UNCHANGED <<mem, filled, list, next, locked, armed, fresh, vmVars, fault>>

\* Mutant: the event is not counted.
MarkUncounted(t) ==
    /\ fault = None
    /\ ready[t] > 0 /\ ~locked
    /\ ready' = [ready EXCEPT ![t] = @ - 1]
    /\ \/ /\ t \in Listed /\ state[t] = 0
          /\ list' = <<t>> \o Without(t)
          /\ state' = [state EXCEPT ![t] = 1]
       \/ /\ t \notin Listed \/ state[t] # 0
          /\ UNCHANGED <<list, state>>
    /\ UNCHANGED <<mem, filled, next, cnt, locked, armed, fresh, vmVars, fault>>

\* The critical section of czl_timer_event.  An unknown timer, or one that is
\* marked already, is left alone.
Mark(t) ==
    /\ fault = None
    /\ ready[t] > 0 /\ ~locked
    /\ ready' = [ready EXCEPT ![t] = @ - 1]
    /\ \/ /\ t \in Listed /\ state[t] = 0
          /\ list' = <<t>> \o Without(t)
          /\ state' = [state EXCEPT ![t] = 1]
          /\ cnt' = (cnt + 1) % Width
       \/ /\ t \notin Listed \/ state[t] # 0
          /\ UNCHANGED <<list, state, cnt>>
    /\ UNCHANGED <<mem, filled, next, locked, armed, fresh, vmVars, fault>>

Event(t) == Fire(t) \/ ReadGp(t) \/ Mark(t)

----------------------------------------------------------------------------
(* The VM thread: the script, at depth 0, and the callbacks it is in.      *)

Vm(l, l2) == fault = None /\ pc = l /\ pc' = l2

\* CZL_CTiS at a checkpoint of the script or of a callback: the head of a loop or
\* an if (CZL_FOREACH_BLOCK, CZL_BLOCK_BEGIN), the end of a loop's body or of an
\* arm, a break, continue or goto (CZL_LOGIC_JUMP).
Check ==
    /\ Vm("script", "begin")
    /\ cnt # 0
    /\ depth = 0 \/ ("jumps" \in script /\ depth < MaxDepth)
    /\ UNCHANGED <<mem, filled, list, state, next, cnt, locked, osVars, cur, depth, creates, fault>>

\* czl_timer_cb_fun_run from CZL_BEGIN: the head is read without the lock.
Begin ==
    /\ Vm("begin", "pop")
    /\ next' = HeadOfList
    /\ UNCHANGED <<mem, filled, list, state, cnt, locked, osVars, cur, depth, creates, fault>>

\* Its critical section; the callback of the timer runs next.
Pop ==
    /\ Vm("pop", "script") /\ ~locked
    /\ \/ /\ next # None
          /\ next' = After(next)
          /\ state' = [state EXCEPT ![next] = 0]
          /\ cnt' = (cnt - 1) % Width
          /\ depth' = depth + 1
          /\ UNCHANGED fault
       \/ /\ next = None
          /\ fault' = "null"
          /\ UNCHANGED <<next, state, cnt, depth>>
    /\ UNCHANGED <<mem, filled, list, locked, osVars, cur, creates>>

\* The callback returns to the loop of czl_timer_cb_fun_run.
Return ==
    /\ depth > 0
    /\ Vm("script", "test")
    /\ depth' = depth - 1
    /\ UNCHANGED <<mem, filled, list, state, next, cnt, locked, osVars, cur, creates, fault>>

\* while (gp->timer_next && gp->timer_next->state): read without the lock.
Test ==
    /\ Vm("test", IF next # None /\ state[next] # 0 THEN "pop" ELSE "again")
    /\ UNCHANGED <<mem, filled, list, state, next, cnt, locked, osVars, cur, depth, creates, fault>>

\* if (gp->timerEventCnt) goto CZL_BEGIN.
Again ==
    /\ Vm("again", IF cnt # 0 THEN "begin" ELSE "script")
    /\ UNCHANGED <<mem, filled, list, state, next, cnt, locked, osVars, cur, depth, creates, fault>>

\* An exception in a callback ends it and every czl_timer_cb_fun_run up to the
\* try block that catches it.
Throw ==
    /\ "throw" \in script /\ depth > 0
    /\ Vm("script", "script")
    /\ depth' \in 0..(depth - 1)
    /\ UNCHANGED <<mem, filled, list, state, next, cnt, locked, osVars, cur, creates, fault>>

\* timer(): the operating system's timer runs before the list knows of it.  Where
\* it cannot be made or set running, timer() frees t again and nothing is left.
Arm(t) ==
    /\ "create" \in script /\ creates < MaxCreates
    /\ mem[t] # "live"
    /\ Vm("script", "publish")
    /\ cur' = t
    /\ mem' = [mem EXCEPT ![t] = "live"]
    /\ filled' = [filled EXCEPT ![t] = FALSE]
    /\ armed' = [armed EXCEPT ![t] = TRUE]
    /\ creates' = creates + 1
    /\ UNCHANGED <<list, state, next, cnt, locked, fresh, ready, depth, fault>>

\* czl_timer_create under the lock.  When the hash cannot grow it frees the timer
\* and keeps the mutex locked.
Publish ==
    /\ ~locked
    /\ state' = [state EXCEPT ![cur] = 0]
    /\ \/ /\ Vm("publish", "fill")
          /\ list' = <<cur>> \o list
          /\ UNCHANGED <<mem, locked>>
       \/ /\ "insert" \in script
          /\ Vm("publish", "disarm")
          /\ locked' = TRUE
          /\ mem' = [mem EXCEPT ![cur] = "freed"]
          /\ UNCHANGED list
    /\ UNCHANGED <<filled, next, cnt, osVars, cur, depth, creates, fault>>

\* timer_delete after the failed insertion: until then the freed timer fires.  The
\* exception is caught in the callback, in one around it or in the script.
Disarm ==
    /\ Vm("disarm", "script")
    /\ armed' = [armed EXCEPT ![cur] = FALSE]
    /\ cur' = None
    /\ depth' \in 0..depth
    /\ UNCHANGED <<mem, filled, list, state, next, cnt, locked, fresh, ready, creates, fault>>

\* The rest of czl_timer_create, after the lock: gp, cb_fun.
Fill ==
    /\ Vm("fill", "script")
    /\ filled' = [filled EXCEPT ![cur] = TRUE]
    /\ cur' = None
    /\ UNCHANGED <<mem, list, state, next, cnt, locked, osVars, depth, creates, fault>>

\* Mutant: timer_next is left at the deleted timer.
DeleteKeepsNext(t) ==
    /\ "delete" \in script /\ ~locked /\ t \in Listed
    /\ Vm("script", "free")
    /\ cur' = t
    /\ list' = Without(t)
    /\ cnt' = IF state[t] # 0 THEN (cnt - 1) % Width ELSE cnt
    /\ UNCHANGED <<mem, filled, state, next, locked, osVars, depth, creates, fault>>

\* kill(id): czl_timer_delete under the lock.
Delete(t) ==
    /\ "delete" \in script /\ ~locked /\ t \in Listed
    /\ Vm("script", "free")
    /\ cur' = t
    /\ list' = Without(t)
    /\ cnt' = IF state[t] # 0 THEN (cnt - 1) % Width ELSE cnt
    /\ next' = IF next = t THEN After(t) ELSE next
    /\ UNCHANGED <<mem, filled, state, locked, osVars, depth, creates, fault>>

\* Its end, after the lock: the timer is disarmed and its memory freed, while
\* event threads may be under way.
Free ==
    /\ Vm("free", "script")
    /\ mem' = [mem EXCEPT ![cur] = "freed"]
    /\ armed' = [armed EXCEPT ![cur] = FALSE]
    /\ cur' = None
    /\ UNCHANGED <<filled, list, state, next, cnt, locked, fresh, ready, depth, creates, fault>>

VmRun == Begin \/ Pop \/ Return \/ Test \/ Again \/ Publish \/ Disarm \/ Fill \/ Free

Next == /\ UNCHANGED script
        /\ \/ \E t \in Timers : Event(t) \/ Arm(t) \/ Delete(t)
           \/ Check \/ Throw \/ VmRun

Spec == Init /\ [][Next]_vars

----------------------------------------------------------------------------
(* Properties.                                                             *)

\* The state of a timer stays one bit, the event counter within its width, and
\* the VM thread at one of its labels.
TypeOK ==
    /\ script \in Scripts
    /\ mem \in [Timers -> {"none", "live", "freed"}]
    /\ filled \in [Timers -> BOOLEAN]
    /\ armed \in [Timers -> BOOLEAN]
    /\ list \in Seq(Timers)
    /\ state \in [Timers -> {0, 1}]
    /\ next \in Timers \cup {None}
    /\ cnt \in 0..(Width - 1)
    /\ locked \in BOOLEAN
    /\ fresh \in [Timers -> Nat] /\ ready \in [Timers -> Nat]
    /\ pc \in {"script", "begin", "pop", "test", "again", "publish", "disarm",
              "fill", "free"}
    /\ cur \in Timers \cup {None}
    /\ depth \in Nat /\ creates \in Nat
    /\ fault \in {None, "event", "null"}

Marked == {t \in Listed : state[t] = 1}

\* A script that creates its timers before any fires, and whose callbacks are
\* statements without a jump that raise no exception.
Plain == script \subseteq {"delete"}

\* In a plain script timerEventCnt counts the marked timers of the list exactly:
\* no event is counted twice, and none stays counted after its timer was run or
\* deleted.
EventCntExact == Plain => cnt = Cardinality(Marked)

\* The cursor of the callback loop never dangles: whatever callbacks delete, it
\* is the end of the list or a listed timer.
NextListed == next = None \/ next \in Listed

\* Listed timers are live, once each, and a timer whose memory is free has no
\* running OS timer, but for the one whose registration just failed: czl_timer_create
\* frees it before timer_delete (czl_vm.c:11713), where a deletion disarms it first.
ListedLive ==
    /\ \A i, j \in 1..Len(list) : list[i] = list[j] => i = j
    /\ \A t \in Timers : /\ t \in Listed => mem[t] = "live"
                         /\ mem[t] = "freed" /\ armed[t] => pc = "disarm" /\ t = cur

\* The mutex stays locked after a failed registration only.
LockReturned == locked => "insert" \in script

\* So the callback loop only ever comes to a timer that is there.
CursorLive == TypeOK /\ NextListed /\ ListedLive /\ LockReturned

\* The comment at czl_lib.c:3341: timers with an event are put at the head of
\* the list.  So whenever the loop takes a timer, that timer has an event: no
\* callback runs without one.
HeadHasEvent == (pc = "pop" /\ fault = None) => (next # None /\ state[next] = 1)

\* In a plain script that is so, whatever the script and callbacks delete and
\* whichever timers fire while the loop runs.
TakesMarked == Plain => HeadHasEvent

\* The count of events, the marks and the order of the list agree: the loop, which
\* takes as many timers from the head as are counted, meets the marked ones.
EventsExact == EventCntExact /\ TakesMarked

Fairness ==
    /\ \A t \in Timers : /\ WF_vars(ReadGp(t) /\ UNCHANGED script)
                         /\ WF_vars(Mark(t) /\ UNCHANGED script)
    /\ WF_vars(VmRun /\ UNCHANGED script) /\ WF_vars(Check /\ UNCHANGED script)
FairSpec == Spec /\ Fairness

\* In a plain script every event is answered: a marked timer is run or deleted,
\* however often the others fire meanwhile.
EventAnswered == \A t \in Timers :
    (Plain /\ t \in Listed /\ state[t] = 1)
        ~> (t \notin Listed \/ state[t] = 0 \/ fault # None)
=============================================================================
