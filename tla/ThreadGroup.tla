----------------------------- MODULE ThreadGroup -----------------------------
(***************************************************************************)
(* A group of child VMs behind one handle: threads(), which starts a fixed *)
(* number, and scheduler(), which starts them as send() finds the ones it  *)
(* has busy or gone.  src/code/czl_lib.c, czl_threads_free to czl_sys_recv.*)
(* The handle is an external resource of the script, so the group is freed *)
(* when the script drops it.                                               *)
(*                                                                         *)
(* What goes on inside a pipe is VmThreads; here a queue is a counter, and *)
(* a child takes what is queued, reports, and ends when it likes.          *)
(***************************************************************************)
EXTENDS Integers, Sequences, FiniteSets, SequencesExt

CONSTANTS
    Threads,        \* bound: the threads a group may start in its life
    Null,           \* no thread
    Kinds,          \* CZL_SYS_SRC_THREADS, CZL_SYS_SRC_SCHEDULER: what is started
    FirstLimit,     \* the limit of scheduler(), the number of threads()
    MaxSends,       \* bound: the calls of send()
    MaxReports,     \* bound: the reports waiting in one pipe
    Faults          \* "create": a thread cannot be started; "append": see VmThreads

ASSUME KindAssumption == Kinds \subseteq {"threads", "scheduler"}
ASSUME NullAssumption == Null \notin Threads
ASSUME LimitAssumption == FirstLimit \in Nat /\ MaxSends \in Nat /\ MaxReports \in Nat
ASSUME FaultAssumption == Faults \subseteq {"create", "append"}

VARIABLES
    group,  \* the handle: its kind, list, cur, recv, count, limit, cnt and sum
    pc,     \* where the parent is in the call
    at,     \* the thread the call is at
    sends,  \* the calls of send() so far
    child,  \* "unborn", "run", "clear", "delete" or "done"
    pipe,   \* "none", "live" or "freed"
    alive,  \* pipe->alive
    nb,     \* pipe->nb_cnt
    rb      \* pipe->rb_cnt

vars == <<group, pc, at, sends, child, pipe, alive, nb, rb>>

NextOf(t) == LET i == CHOOSE j \in 1..Len(group.list) : group.list[j] = t
             IN IF i < Len(group.list) THEN group.list[i + 1] ELSE Null
HeadOf(l) == IF l = <<>> THEN Null ELSE Head(l)
Unborn == {t \in Threads : child[t] = "unborn"}

Init ==
    /\ \E kind \in Kinds :
        /\ group = [kind |-> kind, list |-> <<>>, cur |-> Null, recv |-> Null,
                    count |-> 0, limit |-> FirstLimit, cnt |-> 0, sum |-> 0]
        /\ pc = IF kind = "threads" THEN "start" ELSE "idle"
    /\ at = Null /\ sends = 0
    /\ child = [t \in Threads |-> "unborn"]
    /\ pipe = [t \in Threads |-> "none"]
    /\ alive = [t \in Threads |-> FALSE]
    /\ nb = [t \in Threads |-> 0]
    /\ rb = [t \in Threads |-> 0]

Start(t) ==
    /\ child' = [child EXCEPT ![t] = "run"]
    /\ pipe' = [pipe EXCEPT ![t] = "live"]
    /\ alive' = [alive EXCEPT ![t] = TRUE]
    /\ UNCHANGED <<nb, rb>>

----------------------------------------------------------------------------
(* The child, as far as the group can tell.                                *)

Handle(t) ==
    /\ child[t] = "run" /\ nb[t] > 0
    /\ nb' = [nb EXCEPT ![t] = 0]
    /\ UNCHANGED <<group, pc, at, sends, child, pipe, alive, rb>>

Report(t) ==
    /\ child[t] = "run" /\ rb[t] < MaxReports
    /\ rb' = [rb EXCEPT ![t] = @ + 1]
    /\ UNCHANGED <<group, pc, at, sends, child, pipe, alive, nb>>

\* The end of czl_run_thread reads alive, then clears it or deletes the pipe.
Exit(t) ==
    /\ child[t] = "run"
    /\ child' = [child EXCEPT ![t] = IF alive[t] THEN "clear" ELSE "delete"]
    /\ UNCHANGED <<group, pc, at, sends, pipe, alive, nb, rb>>

ExitClear(t) ==
    /\ child[t] = "clear"
    /\ child' = [child EXCEPT ![t] = "done"]
    /\ alive' = [alive EXCEPT ![t] = FALSE]
    /\ UNCHANGED <<group, pc, at, sends, pipe, nb, rb>>

ExitDelete(t) ==
    /\ child[t] = "delete"
    /\ child' = [child EXCEPT ![t] = "done"]
    /\ pipe' = [pipe EXCEPT ![t] = "freed"]
    /\ UNCHANGED <<group, pc, at, sends, alive, nb, rb>>

Child(t) == Handle(t) \/ Report(t) \/ Exit(t) \/ ExitClear(t) \/ ExitDelete(t)

----------------------------------------------------------------------------
(* threads().                                                              *)

\* czl_sys_threads: the loop ends early when a thread cannot be started, but
\* count is what was asked for.
StartOne(t) ==
    /\ pc = "start" /\ Len(group.list) < FirstLimit /\ t \in Unborn
    /\ group' = [group EXCEPT !.list = <<t>> \o @]
    /\ Start(t)
    /\ UNCHANGED <<pc, at, sends>>

Started ==
    /\ pc = "start"
    /\ Len(group.list) = FirstLimit \/ "create" \in Faults
    /\ group' = [group EXCEPT !.count = FirstLimit]
    /\ pc' = "idle"
    /\ UNCHANGED <<at, sends, child, pipe, alive, nb, rb>>

\* czl_threads_send: every thread of the list, dead or alive.
SendAll ==
    /\ group.kind = "threads" /\ pc = "idle" /\ sends < MaxSends
    /\ sends' = sends + 1
    /\ at' = HeadOf(group.list)
    /\ pc' = IF group.list = <<>> THEN "idle" ELSE "each"
    /\ UNCHANGED <<group, child, pipe, alive, nb, rb>>

SendEach ==
    /\ pc = "each"
    /\ nb' = [nb EXCEPT ![at] = @ + 1] \/ ("append" \in Faults /\ UNCHANGED nb)
    /\ at' = NextOf(at)
    /\ pc' = IF NextOf(at) = Null THEN "idle" ELSE "each"
    /\ UNCHANGED <<group, sends, child, pipe, alive, rb>>

----------------------------------------------------------------------------
(* scheduler().                                                            *)

\* czl_scheduler_send.
Send ==
    /\ group.kind = "scheduler" /\ pc = "idle" /\ sends < MaxSends
    /\ sends' = sends + 1
    /\ at' = group.cur
    /\ pc' = IF group.cur = Null THEN "create" ELSE "pick"
    /\ UNCHANGED <<group, child, pipe, alive, nb, rb>>

\* The busyness read so far this round, the threads read included.
Cnt == group.cnt + 1
Sum == group.sum + nb[at]
Busy == Sum > Cnt

Second == IF NextOf(at) = Null THEN Null ELSE NextOf(NextOf(at))

\* The less busy of the next two, if it is less busy than this one.
Neighbour == IF NextOf(at) # Null /\ nb[NextOf(at)] < nb[at] THEN NextOf(at)
             ELSE IF Second # Null /\ nb[Second] < nb[at] THEN Second
             ELSE at

\* Mutant: the scheduler grows whatever the limit.
GrowUnlimited == Busy /\ NextOf(at) = Null
\* When all are busy a thread is started, up to the limit.
Grow == Busy /\ NextOf(at) = Null /\ group.count < group.limit

Pick ==
    /\ pc = "pick"
    /\ group' = [group EXCEPT !.cnt = Cnt, !.sum = Sum]
    /\ at' = IF Busy THEN Neighbour ELSE at
    /\ pc' = IF Grow THEN "create" ELSE "alive"
    /\ UNCHANGED <<sends, child, pipe, alive, nb, rb>>

\* Mutant: the cursor of recv() is left on the thread that is deleted.
DropDeadKeepsRecv ==
    /\ pc = "alive" /\ ~alive[at]
    /\ group' = [group EXCEPT !.list = RemoveFirst(@, at),
                              !.cur = IF @ = at THEN NextOf(at) ELSE @]
    /\ pipe' = [pipe EXCEPT ![at] = "freed"]
    /\ at' = NextOf(at)
    /\ pc' = IF NextOf(at) = Null THEN "create" ELSE "pick"
    /\ UNCHANGED <<sends, child, alive, nb, rb>>

\* A thread that has ended is deleted with what is in its pipe, and the next is
\* tried; after the last one of the list a thread is started, limit or not.
DropDead ==
    /\ pc = "alive" /\ ~alive[at]
    /\ group' = [group EXCEPT !.list = RemoveFirst(@, at),
                              !.cur = IF @ = at THEN NextOf(at) ELSE @,
                              !.recv = IF @ = at THEN NextOf(at) ELSE @]
    /\ pipe' = [pipe EXCEPT ![at] = "freed"]
    /\ at' = NextOf(at)
    /\ pc' = IF NextOf(at) = Null THEN "create" ELSE "pick"
    /\ UNCHANGED <<sends, child, alive, nb, rb>>

Chosen ==
    /\ pc = "alive" /\ alive[at]
    /\ pc' = "push"
    /\ UNCHANGED <<group, at, sends, child, pipe, alive, nb, rb>>

\* The message and its event; then the next thread's turn.
Push ==
    /\ pc = "push"
    /\ nb' = [nb EXCEPT ![at] = @ + 1] \/ ("append" \in Faults /\ UNCHANGED nb)
    /\ group' = IF NextOf(at) # Null
                THEN [group EXCEPT !.cur = NextOf(at)]
                ELSE [group EXCEPT !.cur = Head(group.list), !.cnt = 0, !.sum = 0]
    /\ pc' = "idle" /\ at' = Null
    /\ UNCHANGED <<sends, child, pipe, alive, rb>>

\* The new thread goes behind the one whose turn it was, or to the head.
AfterCur == IF group.cur = Null THEN Null ELSE NextOf(group.cur)
Place == IF AfterCur = Null THEN 1
         ELSE CHOOSE i \in 1..Len(group.list) : group.list[i] = AfterCur

Create(t) ==
    /\ pc = "create" /\ t \in Unborn
    /\ LET list == InsertAt(group.list, Place, t) IN
        group' = [group EXCEPT !.count = @ + 1, !.list = list,
                    !.cur = IF Place < Len(list) THEN list[Place + 1] ELSE Head(list)]
    /\ Start(t)
    /\ at' = t /\ pc' = "pick"
    /\ UNCHANGED sends

\* Mutant: the failure is always followed by another try.
CreateFailsRetries ==
    /\ pc = "create" /\ "create" \in Faults
    /\ group' = [group EXCEPT !.limit = group.count]
    /\ at' = group.cur
    /\ pc' = IF group.cur = Null THEN "create" ELSE "pick"
    /\ UNCHANGED <<sends, child, pipe, alive, nb, rb>>

\* The limit is lowered for good to what there is, and send() tries with that.
CreateFails ==
    /\ pc = "create" /\ "create" \in Faults
    /\ \/ /\ group.count < group.limit
          /\ group' = [group EXCEPT !.limit = group.count]
          /\ at' = group.cur
          /\ pc' = IF group.cur = Null THEN "create" ELSE "pick"
       \/ /\ group.count >= group.limit
          /\ UNCHANGED group /\ at' = Null /\ pc' = "idle"
    /\ UNCHANGED <<sends, child, pipe, alive, nb, rb>>

----------------------------------------------------------------------------
(* Both.                                                                   *)

\* czl_sys_recv: the reports of one thread, the next in turn.
Recv ==
    /\ pc = "idle" /\ group.list # <<>>
    /\ LET t == IF group.recv # Null THEN group.recv ELSE Head(group.list) IN
        /\ rb' = [rb EXCEPT ![t] = 0]
        /\ group' = [group EXCEPT !.recv = NextOf(t)]
    /\ UNCHANGED <<pc, at, sends, child, pipe, alive, nb>>

\* Mutant: the pipe of a thread is deleted whether it has ended or not.
FreeEachPipe ==
    /\ pc = "free"
    /\ alive' = [alive EXCEPT ![at] = FALSE]
    /\ pipe' = [pipe EXCEPT ![at] = "freed"]
    /\ pc' = "kill"
    /\ UNCHANGED <<group, at, sends, child, nb, rb>>

\* czl_threads_free and czl_scheduler_free: alive is cleared, so that the child
\* deletes the pipe when it ends.  It may do so before the two accesses that follow.
FreeEach ==
    /\ pc = "free"
    /\ alive' = [alive EXCEPT ![at] = FALSE]
    /\ pc' = "kill"
    /\ UNCHANGED <<group, at, sends, child, pipe, nb, rb>>

\* kill is set: a child ends at its next checkpoint, as it may without.
FreeKill ==
    /\ pc = "kill" /\ pipe[at] = "live"
    /\ pc' = "post"
    /\ UNCHANGED <<group, at, sends, child, pipe, alive, nb, rb>>

\* The event wakes the child; then the next thread's turn.
FreePost ==
    /\ pc = "post" /\ pipe[at] = "live"
    /\ at' = NextOf(at)
    /\ pc' = IF NextOf(at) = Null THEN "gone" ELSE "free"
    /\ UNCHANGED <<group, sends, child, pipe, alive, nb, rb>>

\* The child has freed the pipe under it: what follows is undefined.
FreeCrash ==
    /\ pc \in {"kill", "post"} /\ pipe[at] = "freed"
    /\ pc' = "crash"
    /\ UNCHANGED <<group, at, sends, child, pipe, alive, nb, rb>>

Free ==
    /\ pc = "idle"
    /\ at' = HeadOf(group.list)
    /\ pc' = IF group.list = <<>> THEN "gone" ELSE "free"
    /\ UNCHANGED <<group, sends, child, pipe, alive, nb, rb>>

Call == \/ \E t \in Threads : StartOne(t) \/ Create(t)
        \/ Started \/ SendEach \/ Pick \/ DropDead \/ Chosen \/ Push
        \/ CreateFails \/ FreeEach \/ FreeKill \/ FreePost \/ FreeCrash
Parent == Call \/ SendAll \/ Send \/ Recv \/ Free
Next == Parent \/ \E t \in Threads : Child(t)

Spec == Init /\ [][Next]_vars
FairSpec == Spec /\ WF_vars(Call)

----------------------------------------------------------------------------
(* Properties.                                                             *)

Listed == ToSet(group.list)

\* Every field has a value of its type.
TypeOK ==
    /\ group \in [kind : Kinds, list : Seq(Threads), cur : Threads \cup {Null},
                  recv : Threads \cup {Null}, count : Nat, limit : Nat,
                  cnt : Nat, sum : Nat]
    /\ pc \in {"start", "idle", "each", "pick", "alive", "push", "create",
             "free", "kill", "post", "gone", "crash"}
    /\ at \in Threads \cup {Null} /\ sends \in 0..MaxSends
    /\ child \in [Threads -> {"unborn", "run", "clear", "delete", "done"}]
    /\ pipe \in [Threads -> {"none", "live", "freed"}]
    /\ alive \in [Threads -> BOOLEAN]
    /\ nb \in [Threads -> 0..MaxSends] /\ rb \in [Threads -> 0..MaxReports]

\* Neither cursor ever points to a thread that was deleted, whatever order
\* threads end, are dropped and are created in.
CursorsListed == {group.cur, group.recv} \subseteq Listed \cup {Null}

\* The scheduler never has more threads than its limit, although count only grows
\* and the last thread of the list is replaced without looking at the limit.
WithinLimit == Len(group.list) <= IF FirstLimit = 0 THEN 1 ELSE FirstLimit

\* No list holds a thread whose pipe is gone, until the group is freed.
ListedPipesLive == pc \notin {"free", "kill", "post", "gone", "crash"} =>
                      \A t \in Listed : pipe[t] = "live"

\* So every thread that send() or recv() gets at, by a cursor or by the list, is
\* one whose pipe can be used.
CursorsLive == TypeOK /\ CursorsListed /\ ListedPipesLive

\* A pipe is deleted only when its child can no longer reach it.  The parent comes
\* upon a deleted pipe in one window only: when the group is freed, in the two
\* accesses to a thread's pipe after alive was cleared.
FreedWhenDone ==
    /\ \A t \in Threads : pipe[t] = "freed" => child[t] = "done"
    /\ pc \in {"each", "pick", "alive", "push", "free"} => pipe[at] = "live"

\* Every call returns: each turn of the loop of send() drops a thread, starts one
\* or lowers the limit, and the loops over the list come to its end.  (Only threads
\* that all end before send() looks at them could keep it busy for ever: the bound
\* on Threads leaves that out; after a crash nothing is claimed.)
CallsEnd == (pc \notin {"idle", "gone"}) ~> (pc \in {"idle", "gone", "crash"})
=============================================================================
