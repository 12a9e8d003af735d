------------------------------ MODULE VmThreads ------------------------------
(***************************************************************************)
(* A VM thread of the interpreter (the parent) and the child VMs it starts *)
(* with thread(): src/code/czl_lib.c, from czl_event_send to czl_sys_kill. *)
(* Parent and child share one heap object, the pipe: two message queues,   *)
(* each with a lock and a binary semaphore, and the bytes alive, kill and  *)
(* suspend, which neither side guards with a lock.                         *)
(*                                                                         *)
(* One action is one access to the shared pipe (a semaphore call, a        *)
(* critical section, a read or a write of a flag), so every order in which *)
(* the two sides can interleave is a behaviour.  A child that starts       *)
(* threads of its own is a parent in turn, by the same code.               *)
(***************************************************************************)
EXTENDS Integers, Sequences, FiniteSets, SequencesExt

CONSTANTS
    Threads,        \* the threads the parent may start, one pipe each
    Ops,            \* the library calls the parent's script makes
    Faults,         \* allocations that may fail: see FaultKinds
    MaxReports,     \* bound: reports a child sends
    MaxNotes,       \* bound: messages the parent notifies to one child
    CallsPerLoop    \* bound: report, wait and listen calls between two checkpoints

OpNames == {"wait", "listen", "waitfor", "notify", "notifyAll", "thrsta",
            "suspend", "resume", "kill", "teardown"}
NoFault == <<"none", "none">>
FaultKinds == {"boot", "insert", "append", "get"}

ASSUME OpsAssumption    == Ops \subseteq OpNames
ASSUME FaultsAssumption == Faults \subseteq FaultKinds
ASSUME BoundsAssumption == /\ MaxReports \in Nat
                           /\ MaxNotes \in Nat
                           /\ CallsPerLoop \in Nat

VARIABLES
    mem,        \* the pipe of a thread: "none", "live" or "freed"
    alive,      \* pipe->alive
    kill,       \* pipe->kill
    suspend,    \* pipe->suspend
    rep,        \* the report queue, child to parent: rb_*, report_*
    note,       \* the notify queue, parent to child: nb_*, notify_*
    cpc,        \* where the child is
    csam,       \* the value its sem_getvalue returned
    ccalls,     \* its library calls since its last checkpoint
    threads,    \* gp->threads_head, newest first; threads_hash is its range; in
                \* the teardown, the part of the list it has not walked past
    ppc,        \* where the parent is
    pop,        \* the library call it is in
    todo,       \* the threads the call still has to treat, the current one first
    psam,       \* the value its sem_getvalue returned
    fault       \* NoFault, or the first access to a freed pipe

pipeVars   == <<mem, alive, kill, suspend, rep, note>>
childVars  == <<cpc, csam, ccalls>>
parentVars == <<threads, ppc, pop, todo, psam>>
vars == <<pipeVars, childVars, parentVars, fault>>

(***************************************************************************)
(* A queue.  q holds the numbers of the messages; sent and recv count what *)
(* was accepted and what was handed to the script; stuck records that a    *)
(* wake-up was spent without emptying the queue.  spare is rb_buf: the     *)
(* first node of the last batch, kept for the next message.                *)
(***************************************************************************)
EmptyQueue == [q |-> <<>>, spare |-> FALSE, lock |-> "free", sem |-> 0,
               sent |-> 0, recv |-> 0, stuck |-> FALSE]

\* czl_report_buf_create / czl_notify_buf_create inside the lock, then unlock.
Appended(c) == [c EXCEPT !.q = Append(@, c.sent + 1), !.sent = @ + 1,
                         !.spare = FALSE, !.lock = "free"]
\* The same when malloc fails: the spare node is already gone.
NotAppended(c) == [c EXCEPT !.spare = FALSE, !.lock = "free"]

\* Mutant: one message is handed out instead of the batch.
DrainedOne(c) == IF c.q = <<>> THEN [c EXCEPT !.lock = "free", !.stuck = FALSE]
                 ELSE [c EXCEPT !.q = Tail(@), !.recv = @ + 1, !.lock = "free"]

\* czl_report_buf_get / czl_notify_buf_get: the whole batch leaves the queue.
Drained(c) == [c EXCEPT !.q = <<>>, !.recv = @ + Len(c.q), !.lock = "free",
                        !.spare = @ \/ c.q # <<>>, !.stuck = FALSE]
\* The same when the script's array cannot be built: nothing leaves it.
NotDrained(c) == [c EXCEPT !.lock = "free", !.stuck = @ \/ c.q # <<>>]

\* Mutant: the event is posted without looking at its value.
PostedAlways(c, sampled) == [c EXCEPT !.sem = @ + 1]
\* Mutant: the test on the value is inverted.
PostedInverted(c, sampled) == IF sampled # 0 THEN [c EXCEPT !.sem = @ + 1] ELSE c

\* czl_event_send is sem_getvalue, then sem_post if the value read was 0.
Posted(c, sampled) == IF sampled = 0 THEN [c EXCEPT !.sem = @ + 1] ELSE c

----------------------------------------------------------------------------
Init ==
    /\ mem = [t \in Threads |-> "none"]
    /\ alive = [t \in Threads |-> FALSE]
    /\ kill = [t \in Threads |-> FALSE]
    /\ suspend = [t \in Threads |-> FALSE]
    /\ rep = [t \in Threads |-> EmptyQueue]
    /\ note = [t \in Threads |-> EmptyQueue]
    /\ cpc = [t \in Threads |-> "unborn"]
    /\ csam = [t \in Threads |-> 0]
    /\ ccalls = [t \in Threads |-> 0]
    /\ threads = <<>>
    /\ ppc = "idle" /\ pop = "none" /\ todo = <<>> /\ psam = 0
    /\ fault = NoFault

\* Every access to the pipe of t goes through here.  After
\* the first access to a freed pipe the process is undefined: it stops.
Touch(t) ==
    /\ fault = NoFault
    /\ mem[t] = "live"
    /\ UNCHANGED fault

Crash(t, who, at) ==
    /\ fault = NoFault
    /\ mem[t] = "freed"
    /\ fault' = <<who, at>>
    /\ UNCHANGED <<pipeVars, childVars, parentVars>>

----------------------------------------------------------------------------
(* The child: czl_run_thread and the script it runs.                       *)

ChildAt(t, l)  == cpc[t] = l
ChildGoto(t, l) == cpc' = [cpc EXCEPT ![t] = l]

\* The labels at which the next thing the child does is to touch its pipe.
ChildAccess == {"init_sample", "init_post", "para", "rep_lock", "rep_in",
                "rep_sample", "rep_post", "wait_sem", "get_lock", "get_in",
                "check", "clear", "suspended", "exit_sample", "exit_post",
                "exit_alive", "exit_clear", "exit_delete"}
ChildLabels == ChildAccess \cup {"unborn", "boot", "run", "done"}

ChildCrash(t) == cpc[t] \in ChildAccess /\ Crash(t, "child", cpc[t])

\* malloc of the VM, czl_sys_init, parsing: any of them may fail.
Boot(t) ==
    /\ fault = NoFault
    /\ ChildAt(t, "boot")
    /\ \/ ChildGoto(t, "para")
       \/ "boot" \in Faults /\ ChildGoto(t, "init_sample")
       \/ "boot" \in Faults /\ ChildGoto(t, "exit_sample")
    /\ UNCHANGED <<pipeVars, parentVars, csam, ccalls, fault>>

\* czl_thread_para_get: the argument is read out of the pipe.
ParaGet(t) ==
    /\ Touch(t)
    /\ ChildAt(t, "para")
    /\ \/ ChildGoto(t, "run")
       \/ "boot" \in Faults /\ ChildGoto(t, "exit_sample")
    /\ UNCHANGED <<pipeVars, parentVars, csam, ccalls>>

\* What the script does next.  Loop back-edges are the checkpoints.  A value that
\* cannot be measured (czl_sizeof_obj) is not queued, but its event is sent.
Script(t) ==
    /\ fault = NoFault
    /\ ChildAt(t, "run")
    /\ \/ /\ ccalls[t] < CallsPerLoop
          /\ ccalls' = [ccalls EXCEPT ![t] = @ + 1]
          /\ \/ rep[t].sent < MaxReports /\ ChildGoto(t, "rep_lock")
             \/ "append" \in Faults /\ ChildGoto(t, "rep_sample")
             \/ ChildGoto(t, "wait_sem")
             \/ ChildGoto(t, "get_lock")
       \/ ChildGoto(t, "check") /\ ccalls' = [ccalls EXCEPT ![t] = 0]
       \/ ChildGoto(t, "exit_sample") /\ UNCHANGED ccalls
    /\ UNCHANGED <<pipeVars, parentVars, csam, fault>>

\* report(): lock, append and unlock, then czl_event_send.
ReportLock(t) ==
    /\ Touch(t)
    /\ ChildAt(t, "rep_lock") /\ rep[t].lock = "free"
    /\ rep' = [rep EXCEPT ![t].lock = "child"]
    /\ ChildGoto(t, "rep_in")
    /\ UNCHANGED <<mem, alive, kill, suspend, note, parentVars, csam, ccalls>>

ReportAppend(t) ==
    /\ Touch(t)
    /\ ChildAt(t, "rep_in")
    /\ \/ rep' = [rep EXCEPT ![t] = Appended(@)]
       \/ "append" \in Faults /\ rep' = [rep EXCEPT ![t] = NotAppended(@)]
    /\ ChildGoto(t, "rep_sample")
    /\ UNCHANGED <<mem, alive, kill, suspend, note, parentVars, csam, ccalls>>

\* Mutant: the other event of the pipe is tested.
ChildSampleOther(t) ==
    /\ Touch(t)
    /\ csam' = [csam EXCEPT ![t] = note[t].sem]
    /\ \/ ChildAt(t, "rep_sample") /\ ChildGoto(t, "rep_post")
       \/ ChildAt(t, "init_sample") /\ ChildGoto(t, "init_post")
       \/ ChildAt(t, "exit_sample") /\ ChildGoto(t, "exit_post")
    /\ UNCHANGED <<pipeVars, parentVars, ccalls>>

\* sem_getvalue on report_event: in report(), after a failed czl_sys_init and
\* on the way out of czl_run_thread.
ChildSample(t) ==
    /\ Touch(t)
    /\ csam' = [csam EXCEPT ![t] = rep[t].sem]
    /\ \/ ChildAt(t, "rep_sample") /\ ChildGoto(t, "rep_post")
       \/ ChildAt(t, "init_sample") /\ ChildGoto(t, "init_post")
       \/ ChildAt(t, "exit_sample") /\ ChildGoto(t, "exit_post")
    /\ UNCHANGED <<pipeVars, parentVars, ccalls>>

ChildPost(t) ==
    /\ Touch(t)
    /\ rep' = [rep EXCEPT ![t] = Posted(@, csam[t])]
    /\ csam' = [csam EXCEPT ![t] = 0]
    /\ \/ ChildAt(t, "rep_post") /\ ChildGoto(t, "run")
       \/ ChildAt(t, "init_post") /\ ChildGoto(t, "exit_sample")
       \/ ChildAt(t, "exit_post") /\ ChildGoto(t, "exit_alive")
    /\ UNCHANGED <<mem, alive, kill, suspend, note, parentVars, ccalls>>

\* wait(0): sem_wait on notify_event, then the notify queue under its lock.
ChildWait(t) ==
    /\ Touch(t)
    /\ ChildAt(t, "wait_sem") /\ note[t].sem > 0
    /\ note' = [note EXCEPT ![t].sem = @ - 1]
    /\ ChildGoto(t, "get_lock")
    /\ UNCHANGED <<mem, alive, kill, suspend, rep, parentVars, csam, ccalls>>

ChildGetLock(t) ==
    /\ Touch(t)
    /\ ChildAt(t, "get_lock") /\ note[t].lock = "free"
    /\ note' = [note EXCEPT ![t].lock = "child"]
    /\ ChildGoto(t, "get_in")
    /\ UNCHANGED <<mem, alive, kill, suspend, rep, parentVars, csam, ccalls>>

ChildGet(t) ==
    /\ Touch(t)
    /\ ChildAt(t, "get_in")
    /\ \/ note' = [note EXCEPT ![t] = Drained(@)]
       \/ "get" \in Faults /\ note' = [note EXCEPT ![t] = NotDrained(@)]
    /\ ChildGoto(t, "run")
    /\ UNCHANGED <<mem, alive, kill, suspend, rep, parentVars, csam, ccalls>>

\* CZL_CThS, run at every loop back-edge.
Check(t) ==
    /\ Touch(t)
    /\ ChildAt(t, "check")
    /\ ChildGoto(t, IF kill[t] THEN "exit_sample"
                    ELSE IF suspend[t] THEN "clear" ELSE "run")
    /\ UNCHANGED <<pipeVars, parentVars, csam, ccalls>>

ClearSuspend(t) ==
    /\ Touch(t)
    /\ ChildAt(t, "clear")
    /\ suspend' = [suspend EXCEPT ![t] = FALSE]
    /\ ChildGoto(t, "suspended")
    /\ UNCHANGED <<mem, alive, kill, rep, note, parentVars, csam, ccalls>>

\* The suspended child is woken by any post to notify_event and leaves the
\* notify queue as it is.
Resumed(t) ==
    /\ Touch(t)
    /\ ChildAt(t, "suspended") /\ note[t].sem > 0
    /\ note' = [note EXCEPT ![t].sem = @ - 1,
                            ![t].stuck = @ \/ note[t].q # <<>>]
    /\ ChildGoto(t, "run")
    /\ UNCHANGED <<mem, alive, kill, suspend, rep, parentVars, csam, ccalls>>

\* Mutant: the child leaves the deletion to the parent without looking at alive.
ExitLeavesPipe(t) ==
    /\ Touch(t)
    /\ ChildAt(t, "exit_alive")
    /\ ChildGoto(t, "exit_clear")
    /\ UNCHANGED <<pipeVars, parentVars, csam, ccalls>>

\* The end of czl_run_thread: whoever finds alive cleared deletes the pipe.
ExitAlive(t) ==
    /\ Touch(t)
    /\ ChildAt(t, "exit_alive")
    /\ ChildGoto(t, IF alive[t] THEN "exit_clear" ELSE "exit_delete")
    /\ UNCHANGED <<pipeVars, parentVars, csam, ccalls>>

ExitClear(t) ==
    /\ Touch(t)
    /\ ChildAt(t, "exit_clear")
    /\ alive' = [alive EXCEPT ![t] = FALSE]
    /\ ChildGoto(t, "done")
    /\ UNCHANGED <<mem, kill, suspend, rep, note, parentVars, csam, ccalls>>

ExitDelete(t) ==
    /\ Touch(t)
    /\ ChildAt(t, "exit_delete")
    /\ mem' = [mem EXCEPT ![t] = "freed"]
    /\ ChildGoto(t, "done")
    /\ UNCHANGED <<alive, kill, suspend, rep, note, parentVars, csam, ccalls>>

Child(t) ==
    \/ Boot(t) \/ ParaGet(t) \/ Script(t)
    \/ ReportLock(t) \/ ReportAppend(t) \/ ChildSample(t) \/ ChildPost(t)
    \/ ChildWait(t) \/ ChildGetLock(t) \/ ChildGet(t)
    \/ Check(t) \/ ClearSuspend(t) \/ Resumed(t)
    \/ ExitAlive(t) \/ ExitClear(t) \/ ExitDelete(t)
    \/ ChildCrash(t)

----------------------------------------------------------------------------
(* The parent: the czl_sys_* functions the script calls.                   *)

Listed == {threads[i] : i \in 1..Len(threads)}
Unlink(t) == threads' = RemoveFirst(threads, t)

ParentAccess == {"find", "reap", "wait_sem", "get_lock", "get_in", "join_get",
                 "put_lock", "put_in", "set_suspend", "clear", "set_kill",
                 "sample", "post"}
ParentLabels == ParentAccess \cup {"idle", "insert", "join", "gone"}

Target == Head(todo)
At(l) == ppc = l
Goto(l) == ppc' = l

ParentCrash == ppc \in ParentAccess /\ Crash(Target, "parent", ppc)

\* pop is the call the parent is in; it is in none when the last thread is treated.
Returns == pop' = IF Len(todo) > 1 THEN pop ELSE "none"

\* Mutant: a walk over the list goes one thread too far.
NextTargetTooFar ==
    /\ todo' = Tail(todo)
    /\ Goto(IF Len(todo) >= 1 THEN "find"
            ELSE IF pop = "teardown" THEN "gone" ELSE "idle")
    /\ Returns

\* The call has treated the current thread: on to the next one, or return.
NextTarget ==
    /\ todo' = Tail(todo)
    /\ Goto(IF Len(todo) > 1 THEN "find"
            ELSE IF pop = "teardown" THEN "gone" ELSE "idle")
    /\ Returns

\* The label a call starts at: resume and kill do not look at alive.
Entry(op) == CASE op = "resume" -> "sample" [] op = "kill" -> "clear"
               [] OTHER -> "find"

\* The calls that walk the whole list; the others take one thread's id.
WalksAll(op) == op \in {"notifyAll", "teardown"}

\* A script call.  An id that is not in threads_hash makes it return at once.
Call(op) ==
    /\ fault = NoFault
    /\ At("idle") /\ op \in Ops
    /\ \/ /\ ~WalksAll(op)
          /\ \E t \in Listed : todo' = <<t>>
       \/ /\ WalksAll(op) \/ op = "thrsta"
          /\ threads # <<>>
          /\ todo' = threads
    /\ (op \in {"notify", "notifyAll"}) =>
           \A i \in 1..Len(todo') : note[todo'[i]].sent < MaxNotes
    /\ pop' = op
    /\ Goto(Entry(op))
    /\ UNCHANGED <<pipeVars, childVars, threads, psam, fault>>

\* czl_thread_create: the pipe, then the OS thread.
Create(t) ==
    /\ fault = NoFault
    /\ At("idle") /\ cpc[t] = "unborn"
    /\ mem' = [mem EXCEPT ![t] = "live"]
    /\ alive' = [alive EXCEPT ![t] = TRUE]
    /\ cpc' = [cpc EXCEPT ![t] = "boot"]
    /\ pop' = "thread" /\ todo' = <<t>> /\ Goto("insert")
    /\ UNCHANGED <<kill, suspend, rep, note, csam, ccalls, threads, psam, fault>>

\* czl_sys_thread: into threads_hash and the list; when the hash cannot grow
\* the pipe is deleted although the child is running.
Insert ==
    /\ fault = NoFault
    /\ At("insert")
    /\ threads' = <<Target>> \o threads
    /\ NextTarget
    /\ UNCHANGED <<pipeVars, childVars, psam, fault>>

InsertFails ==
    /\ At("insert") /\ "insert" \in Faults
    /\ Touch(Target)
    /\ mem' = [mem EXCEPT ![Target] = "freed"]
    /\ NextTarget
    /\ UNCHANGED <<alive, kill, suspend, rep, note, childVars, threads, psam>>

\* czl_thread_find and the loops of notifyAll, thrsta(0) and the teardown.
AfterFind == CASE pop = "wait"     -> "wait_sem"
               [] pop = "listen"   -> "get_lock"
               [] pop = "waitfor"  -> "join"
               [] pop = "suspend"  -> "set_suspend"
               [] pop = "teardown" -> "clear"
               [] OTHER            -> "put_lock"

Find ==
    /\ At("find")
    /\ Touch(Target)
    /\ \/ ~alive[Target] /\ Goto("reap") /\ UNCHANGED <<pop, todo>>
       \/ alive[Target] /\ pop = "thrsta" /\ NextTarget
       \/ alive[Target] /\ pop # "thrsta" /\ Goto(AfterFind) /\ UNCHANGED <<pop, todo>>
       \/ /\ alive[Target] /\ pop \in {"notify", "notifyAll"} /\ "append" \in Faults
          /\ Goto("sample") /\ UNCHANGED <<pop, todo>>
    /\ UNCHANGED <<pipeVars, childVars, threads, psam>>

\* Mutant: the reports left in a dead child's pipe are not handed out.
ReapDiscards ==
    /\ At("reap")
    /\ Touch(Target)
    /\ mem' = [mem EXCEPT ![Target] = "freed"]
    /\ Unlink(Target)
    /\ NextTarget
    /\ UNCHANGED <<alive, kill, suspend, rep, note, childVars, psam>>
\* The child is found dead: wait and listen hand out what is left, unlocked, and
\* every call deletes the pipe.  The thread leaves the list, of which the
\* teardown frees what it walked past at its end and never looks at it again.
Reap ==
    /\ At("reap")
    /\ Touch(Target)
    /\ \/ /\ pop \in {"wait", "listen"} /\ rep[Target].q # <<>>
          /\ rep' = [rep EXCEPT ![Target] = [Drained(@) EXCEPT !.lock = rep[Target].lock]]
       \/ /\ pop \in {"wait", "listen"} => rep[Target].q = <<>> \/ "get" \in Faults
          /\ UNCHANGED rep
    /\ mem' = [mem EXCEPT ![Target] = "freed"]
    /\ Unlink(Target)
    /\ NextTarget
    /\ UNCHANGED <<alive, kill, suspend, note, childVars, psam>>

\* wait(id): sem_wait on report_event, then the report queue under its lock.
Wait ==
    /\ At("wait_sem") /\ rep[Target].sem > 0
    /\ Touch(Target)
    /\ rep' = [rep EXCEPT ![Target].sem = @ - 1]
    /\ Goto("get_lock")
    /\ UNCHANGED <<mem, alive, kill, suspend, note, childVars, threads, pop, todo, psam>>

\* Mutant: the report queue is entered without its lock.
GetUnlocked ==
    /\ At("get_lock")
    /\ Touch(Target)
    /\ Goto("get_in")
    /\ UNCHANGED <<pipeVars, childVars, threads, pop, todo, psam>>

GetLock ==
    /\ At("get_lock") /\ rep[Target].lock = "free"
    /\ Touch(Target)
    /\ rep' = [rep EXCEPT ![Target].lock = "parent"]
    /\ Goto("get_in")
    /\ UNCHANGED <<mem, alive, kill, suspend, note, childVars, threads, pop, todo, psam>>

Get ==
    /\ At("get_in")
    /\ Touch(Target)
    /\ \/ rep' = [rep EXCEPT ![Target] = Drained(@)]
       \/ "get" \in Faults /\ rep' = [rep EXCEPT ![Target] = NotDrained(@)]
    /\ NextTarget
    /\ UNCHANGED <<mem, alive, kill, suspend, note, childVars, threads, psam>>

\* waitfor(id): pthread_join, then the queue without its lock and the deletion.
Join ==
    /\ fault = NoFault
    /\ At("join") /\ cpc[Target] = "done"
    /\ Goto("join_get")
    /\ UNCHANGED <<pipeVars, childVars, threads, pop, todo, psam, fault>>

JoinGet ==
    /\ At("join_get")
    /\ Touch(Target)
    /\ \/ rep' = [rep EXCEPT ![Target] = [Drained(@) EXCEPT !.lock = rep[Target].lock]]
       \/ "get" \in Faults /\ UNCHANGED rep
    /\ mem' = [mem EXCEPT ![Target] = "freed"]
    /\ Unlink(Target)
    /\ NextTarget
    /\ UNCHANGED <<alive, kill, suspend, note, childVars, psam>>

\* notify(id, m) and notifyAll(m): append under the lock, then send.
PutLock ==
    /\ At("put_lock") /\ note[Target].lock = "free"
    /\ Touch(Target)
    /\ note' = [note EXCEPT ![Target].lock = "parent"]
    /\ Goto("put_in")
    /\ UNCHANGED <<mem, alive, kill, suspend, rep, childVars, threads, pop, todo, psam>>

Put ==
    /\ At("put_in")
    /\ Touch(Target)
    /\ \/ note' = [note EXCEPT ![Target] = Appended(@)]
       \/ "append" \in Faults /\ note' = [note EXCEPT ![Target] = NotAppended(@)]
    /\ Goto("sample")
    /\ UNCHANGED <<mem, alive, kill, suspend, rep, childVars, threads, pop, todo, psam>>

SetSuspend ==
    /\ At("set_suspend")
    /\ Touch(Target)
    /\ suspend' = [suspend EXCEPT ![Target] = TRUE]
    /\ NextTarget
    /\ UNCHANGED <<mem, alive, kill, rep, note, childVars, threads, psam>>

\* kill(id) and the teardown give the pipe to the child by clearing alive.
Clear ==
    /\ At("clear")
    /\ Touch(Target)
    /\ alive' = [alive EXCEPT ![Target] = FALSE]
    /\ Goto(IF pop = "kill" THEN "set_kill" ELSE "sample")
    /\ UNCHANGED <<mem, kill, suspend, rep, note, childVars, threads, pop, todo, psam>>

\* Mutant: the killed child is not woken.
SetKillOnly ==
    /\ At("set_kill")
    /\ Touch(Target)
    /\ kill' = [kill EXCEPT ![Target] = TRUE]
    /\ Unlink(Target)
    /\ NextTarget
    /\ UNCHANGED <<mem, alive, suspend, rep, note, childVars, psam>>

SetKill ==
    /\ At("set_kill")
    /\ Touch(Target)
    /\ kill' = [kill EXCEPT ![Target] = TRUE]
    /\ Goto("sample")
    /\ UNCHANGED <<mem, alive, suspend, rep, note, childVars, threads, pop, todo, psam>>

\* czl_event_send on notify_event, the last thing notify, notifyAll, resume,
\* kill and the teardown do with a thread.  These two then forget it.
Sample ==
    /\ At("sample")
    /\ Touch(Target)
    /\ psam' = note[Target].sem
    /\ Goto("post")
    /\ UNCHANGED <<pipeVars, childVars, threads, pop, todo>>

Post ==
    /\ At("post")
    /\ Touch(Target)
    /\ note' = [note EXCEPT ![Target] = Posted(@, psam)]
    /\ psam' = 0
    /\ IF pop \in {"kill", "teardown"} THEN Unlink(Target) ELSE UNCHANGED threads
    /\ NextTarget
    /\ UNCHANGED <<mem, alive, kill, suspend, rep, childVars>>

Parent ==
    \/ \E op \in OpNames : Call(op)
    \/ \E t \in Threads : Create(t)
    \/ Insert \/ InsertFails \/ Find \/ Reap
    \/ Wait \/ GetLock \/ Get \/ Join \/ JoinGet
    \/ PutLock \/ Put \/ SetSuspend \/ Clear \/ SetKill \/ Sample \/ Post
    \/ ParentCrash

Next == Parent \/ \E t \in Threads : Child(t)

Spec == Init /\ [][Next]_vars

----------------------------------------------------------------------------
(* Properties.                                                             *)

QueueType == [q : Seq(Nat), spare : BOOLEAN, lock : {"free", "child", "parent"},
              sem : Nat, sent : Nat, recv : Nat, stuck : BOOLEAN]

FaultType == {NoFault} \cup ({"child"} \X ChildAccess) \cup ({"parent"} \X ParentAccess)

\* Every variable has the values the C types and the labels allow.
TypeOK ==
    /\ mem \in [Threads -> {"none", "live", "freed"}]
    /\ alive \in [Threads -> BOOLEAN]
    /\ kill \in [Threads -> BOOLEAN]
    /\ suspend \in [Threads -> BOOLEAN]
    /\ rep \in [Threads -> QueueType]
    /\ note \in [Threads -> QueueType]
    /\ cpc \in [Threads -> ChildLabels]
    /\ csam \in [Threads -> Nat]
    /\ ccalls \in [Threads -> Nat]
    /\ threads \in Seq(Threads)
    /\ ppc \in ParentLabels
    /\ pop \in OpNames \cup {"none", "thread"}
    /\ todo \in Seq(Threads)
    /\ (ppc \notin {"idle", "gone"}) => (todo # <<>>)
    /\ psam \in Nat
    /\ fault \in FaultType

ParentOn(t, labels) == ppc \in labels /\ Target = t

\* czl_event_send tests the semaphore and posts it in two steps; since each
\* semaphore has one sender, none ever exceeds 1.
SemBinary == \A t \in Threads : rep[t].sem <= 1 /\ note[t].sem <= 1

\* No wake-up of the parent is lost: while a report is queued, the semaphore is
\* up, or the child is about to raise it, or the parent was woken and is on its
\* way to the queue, or a drain failed since.
NoLostReport == \A t \in Threads : rep[t].q # <<>> =>
    \/ rep[t].sem > 0
    \/ cpc[t] = "rep_sample"
    \/ cpc[t] = "rep_post" /\ csam[t] = 0
    \/ ParentOn(t, {"get_lock", "get_in"})
    \/ rep[t].stuck

\* The same for notes: a suspended child that was woken has spent the wake-up of
\* the notes queued then (stuck); otherwise none is lost.
NoLostNote == \A t \in Threads : note[t].q # <<>> =>
    \/ note[t].sem > 0
    \/ ParentOn(t, {"sample"})
    \/ ParentOn(t, {"post"}) /\ psam = 0
    \/ cpc[t] \in {"get_lock", "get_in"}
    \/ note[t].stuck

\* Both directions at once.
NoLostWakeup == NoLostReport /\ NoLostNote

\* Neither queue is ever worked on by both sides at once, although find,
\* waitfor and the deletion read the report queue without its lock.
RaceFree == \A t \in Threads :
    /\ ~(cpc[t] = "rep_in" /\ ParentOn(t, {"get_in", "reap", "join_get"}))
    /\ ~(cpc[t] = "get_in" /\ ParentOn(t, {"put_in", "reap", "join_get"}))

\* A freed pipe is accessed only in three windows of the code: by kill after
\* it cleared alive, by the teardown after it cleared alive, and by a child
\* whose registration failed.  No other call can reach one.
KnownFaults ==
    \/ fault = NoFault
    \/ /\ fault \in {"parent"} \X {"set_kill", "sample", "post"}
       /\ pop \in {"kill", "teardown"}
    \/ /\ fault \in {"child"} \X ChildAccess
       /\ "insert" \in Faults

\* The parent can still come to the pipe of t: it is listed or about to be, and
\* neither kill nor the teardown has cleared alive in the call under way.
Given(t) == pop \in {"kill", "teardown"} /\ ParentOn(t, {"set_kill", "sample", "post"})
Kept(t)  == (t \in Listed \/ ParentOn(t, {"insert"})) /\ ~Given(t)

\* Nobody will ever free the pipe of t: the child is past its look at alive, which
\* left the pipe to the parent, and the parent does not come to it any more.
Orphan(t) == mem[t] = "live" /\ cpc[t] \in {"exit_clear", "done"} /\ ~Kept(t)

\* There is one way to lose a pipe: kill or the teardown clears alive of a child
\* that has already looked at it (kill does so even if the child ended long ago).
LostByClearOnly == [][ \A t \in Threads :
    ~Orphan(t) /\ Orphan(t)' => /\ ppc = "clear" /\ Target = t
                                /\ cpc[t] \in {"exit_clear", "done"} ]_vars

\* The spare node is used up while the queue holds messages, so handing out a
\* batch never overwrites (and leaks) a spare.
SpareFree == \A t \in Threads : \A c \in {rep[t], note[t]} : c.q # <<>> => ~c.spare

\* The memory of a pipe is given back once, by the last side that can reach it,
\* but for the windows KnownFaults and LostByClearOnly name: both follow from
\* alive being read and acted on in separate steps, czl_lib.c:5078.
PipesFreedOnce == [](KnownFaults /\ SpareFree) /\ LostByClearOnly

\* wait, listen and a waitfor that joined never delete a pipe with reports in it
\* (an allocation failure apart): what the child reported last is handed out.
ReadersGetAll == [][ \A t \in Threads :
    (/\ mem[t] = "live" /\ mem'[t] = "freed"
     /\ ParentOn(t, {"join_get"}) \/ (ParentOn(t, {"reap"}) /\ pop \in {"wait", "listen"})
     /\ "get" \notin Faults)
    => rep'[t].recv = rep'[t].sent ]_vars

\* Each direction of a pipe implements the queue of MessageQueue: every step on
\* it is an acceptance, a hand-out of the whole batch, the deletion or nothing.
Reports(t) == INSTANCE MessageQueue WITH pending <- rep[t].q,
    accepted <- rep[t].sent, handed <- rep[t].recv, open <- mem[t] # "freed"
Notes(t) == INSTANCE MessageQueue WITH pending <- note[t].q,
    accepted <- note[t].sent, handed <- note[t].recv, open <- mem[t] # "freed"
QueueStep(t) ==
    /\ Reports(t)!Next \/ UNCHANGED <<rep[t].q, rep[t].sent, rep[t].recv, mem[t] # "freed">>
    /\ Notes(t)!Next \/ UNCHANGED <<note[t].q, note[t].sent, note[t].recv, mem[t] # "freed">>
PipesAreQueues == /\ \A t \in Threads : Reports(t)!Init /\ Notes(t)!Init
                  /\ [][\A t \in Threads : QueueStep(t)]_vars

\* The scheduler of the operating system runs every thread that can go on.
Fairness == /\ \A t \in Threads : WF_vars(Child(t))
            /\ WF_vars(Parent /\ ~At("idle"))
FairSpec == Spec /\ Fairness

\* A parent blocked in wait() on a child with a report queued is woken.
WaiterServed == \A t \in Threads :
    (ParentOn(t, {"wait_sem"}) /\ rep[t].q # <<>> /\ ~rep[t].stuck)
        ~> (ppc # "wait_sem" \/ fault # NoFault)

\* A killed child whose loop makes one call per turn and that was never
\* suspended ends: kill is set before the event is sent, so the child that the
\* event wakes meets the kill at its next checkpoint.
KilledTerminates == \A t \in Threads :
    kill[t] ~> (cpc[t] = "done" \/ fault # NoFault)
=============================================================================
