--------------------------- MODULE VmThreads_proof ---------------------------
(***************************************************************************)
(* Proofs about VmThreads, for any set of threads, any calls the script    *)
(* makes, any allocations that fail and any number of messages.            *)
(***************************************************************************)
EXTENDS VmThreads, ChainLemmas

\* A queue holds exactly the messages accepted and not yet handed out, in order.
InOrder(c) == /\ Len(c.q) = c.sent - c.recv
              /\ \A i \in 1..Len(c.q) : c.q[i] = c.recv + i

\* Both queues of every pipe are in order.
Fifo == \A t \in Threads : InOrder(rep[t]) /\ InOrder(note[t])

\* A thread has a pipe from the moment it is started: the pipe of a thread that
\* is not yet started cannot have been deleted.
BornWithPipe == \A t \in Threads : (mem[t] = "none") <=> (cpc[t] = "unborn")

----------------------------------------------------------------------------
(* The operations on one queue.                                            *)

\* A queue at the start has its type and is in order.
LEMMA EmptyIsQueue == EmptyQueue \in QueueType /\ InOrder(EmptyQueue)
BY DEF EmptyQueue, QueueType, InOrder

\* A message put at the end gets the next number.
LEMMA AppendedIsQueue ==
    ASSUME NEW c \in QueueType
    PROVE  /\ Appended(c) \in QueueType
           /\ InOrder(c) => InOrder(Appended(c))
           /\ Appended(c).q = Append(c.q, c.sent + 1)
           /\ Appended(c).sent = c.sent + 1 /\ Appended(c).recv = c.recv
           /\ Appended(c).sem = c.sem
<1>1. PICK d : d = [c EXCEPT !.q = Append(@, c.sent + 1), !.sent = @ + 1,
                             !.spare = FALSE, !.lock = "free"]
  OBVIOUS
<1>2. d = Appended(c)
  BY <1>1 DEF Appended
<1>3. /\ d.q = Append(c.q, c.sent + 1) /\ d.sent = c.sent + 1 /\ d.recv = c.recv
      /\ d.sem = c.sem /\ d.lock = "free" /\ d.spare \in BOOLEAN /\ d.stuck \in BOOLEAN
      /\ d = [q |-> d.q, spare |-> d.spare, lock |-> d.lock, sem |-> d.sem,
              sent |-> d.sent, recv |-> d.recv, stuck |-> d.stuck]
  BY <1>1 DEF QueueType
<1>4. /\ c.q \in Seq(Nat) /\ Len(c.q) \in Nat /\ c.sent \in Nat /\ c.recv \in Nat
      /\ d.q \in Seq(Nat) /\ Len(d.q) = Len(c.q) + 1
      /\ \A i \in 1..(Len(c.q) + 1) :
            d.q[i] = IF i <= Len(c.q) THEN c.q[i] ELSE c.sent + 1
  <2>1. c.q \in Seq(Nat) /\ c.sent \in Nat /\ c.recv \in Nat /\ c.sent + 1 \in Nat
    BY DEF QueueType
  <2> QED
    BY <1>3, <2>1, AppendProperties, LenProperties
<1>5. d \in QueueType
  <2>1. /\ d.q \in Seq(Nat) /\ d.spare \in BOOLEAN /\ d.lock \in {"free", "child", "parent"}
        /\ d.sem \in Nat /\ d.sent \in Nat /\ d.recv \in Nat /\ d.stuck \in BOOLEAN
    BY <1>3, <1>4 DEF QueueType
  <2> QED
    BY <1>3, <2>1 DEF QueueType
<1>6. InOrder(c) => InOrder(d)
  <2>1. SUFFICES ASSUME InOrder(c) PROVE InOrder(d)
    OBVIOUS
  <2>2. Len(d.q) = d.sent - d.recv
    BY <1>3, <1>4, <2>1 DEF InOrder
  <2>3. ASSUME NEW i \in 1..Len(d.q) PROVE d.q[i] = d.recv + i
    <3>1. CASE i <= Len(c.q)
      BY <1>3, <1>4, <2>1, <3>1 DEF InOrder
    <3>2. CASE i = Len(c.q) + 1
      BY <1>3, <1>4, <2>1, <3>2 DEF InOrder
    <3> QED
      BY <1>4, <3>1, <3>2
  <2> QED
    BY <2>2, <2>3 DEF InOrder
<1> QED
  BY <1>2, <1>3, <1>5, <1>6

\* Handing out the batch leaves the queue empty and all it had accepted received.
LEMMA DrainedIsQueue ==
    ASSUME NEW c \in QueueType
    PROVE  /\ Drained(c) \in QueueType
           /\ InOrder(c) => InOrder(Drained(c)) /\ Drained(c).recv = c.sent
           /\ Drained(c).q = <<>> /\ Drained(c).sent = c.sent
           /\ Drained(c).recv = c.recv + Len(c.q)
           /\ Drained(c).sem = c.sem
<1>1. PICK d : d = [c EXCEPT !.q = <<>>, !.recv = @ + Len(c.q), !.lock = "free",
                             !.spare = @ \/ c.q # <<>>, !.stuck = FALSE]
  OBVIOUS
<1>2. d = Drained(c)
  BY <1>1 DEF Drained
<1>3. /\ d.q = <<>> /\ d.sent = c.sent /\ d.recv = c.recv + Len(c.q)
      /\ d.sem = c.sem /\ d.lock = "free" /\ d.spare \in BOOLEAN /\ d.stuck \in BOOLEAN
      /\ d = [q |-> d.q, spare |-> d.spare, lock |-> d.lock, sem |-> d.sem,
              sent |-> d.sent, recv |-> d.recv, stuck |-> d.stuck]
  BY <1>1 DEF QueueType
<1>4. d \in QueueType
  <2>1. <<>> \in Seq(Nat) /\ Len(c.q) \in Nat
    <3>1. c.q \in Seq(Nat)
      BY DEF QueueType
    <3> QED
      BY <3>1, EmptySeq, LenProperties
  <2>2. /\ d.q \in Seq(Nat) /\ d.spare \in BOOLEAN /\ d.lock \in {"free", "child", "parent"}
        /\ d.sem \in Nat /\ d.sent \in Nat /\ d.recv \in Nat /\ d.stuck \in BOOLEAN
    BY <1>3, <2>1 DEF QueueType
  <2> QED
    BY <1>3, <2>2 DEF QueueType
<1>5. InOrder(c) => InOrder(d) /\ d.recv = c.sent
  BY <1>3 DEF InOrder, QueueType
<1> QED
  BY <1>2, <1>3, <1>4, <1>5

\* The messages of two queues, and how many each accepted and handed out, agree.
SameMessages(c, d) == d.q = c.q /\ d.sent = c.sent /\ d.recv = c.recv

\* Locks, posts, waits and failed operations leave the messages alone.
LEMMA OtherIsQueue ==
    ASSUME NEW c \in QueueType, NEW l \in {"free", "child", "parent"}, NEW n \in Nat
    PROVE  /\ NotAppended(c) \in QueueType /\ SameMessages(c, NotAppended(c))
           /\ NotAppended(c).sem = c.sem
           /\ NotDrained(c) \in QueueType /\ SameMessages(c, NotDrained(c))
           /\ NotDrained(c).sem = c.sem
           /\ Posted(c, n) \in QueueType /\ SameMessages(c, Posted(c, n))
           /\ Posted(c, n).sem = IF n = 0 THEN c.sem + 1 ELSE c.sem
           /\ [c EXCEPT !.lock = l] \in QueueType /\ SameMessages(c, [c EXCEPT !.lock = l])
           /\ [c EXCEPT !.lock = l].sem = c.sem
           /\ [Drained(c) EXCEPT !.lock = l] \in QueueType
           /\ SameMessages(Drained(c), [Drained(c) EXCEPT !.lock = l])
           /\ [Drained(c) EXCEPT !.lock = l].sem = c.sem
<1>1. NotAppended(c) \in QueueType /\ SameMessages(c, NotAppended(c)) /\ NotAppended(c).sem = c.sem
  BY DEF NotAppended, QueueType, SameMessages
<1>2. NotDrained(c) \in QueueType /\ SameMessages(c, NotDrained(c)) /\ NotDrained(c).sem = c.sem
  BY DEF NotDrained, QueueType, SameMessages
<1>3. /\ Posted(c, n) \in QueueType /\ SameMessages(c, Posted(c, n))
      /\ Posted(c, n).sem = IF n = 0 THEN c.sem + 1 ELSE c.sem
  <2>1. CASE n = 0
    BY <2>1 DEF Posted, QueueType, SameMessages
  <2>2. CASE n # 0
    BY <2>2 DEF Posted, SameMessages
  <2> QED
    BY <2>1, <2>2
<1>4. \A b \in QueueType : /\ [b EXCEPT !.lock = l] \in QueueType
                           /\ SameMessages(b, [b EXCEPT !.lock = l])
                           /\ [b EXCEPT !.lock = l].sem = b.sem
  BY DEF QueueType, SameMessages
<1>5. Drained(c) \in QueueType /\ Drained(c).sem = c.sem
  BY DrainedIsQueue
<1> QED
  BY <1>1, <1>2, <1>3, <1>4, <1>5

\* A wait takes one from the semaphore; a resume may also mark the queue stuck.
LEMMA TakenIsQueue ==
    ASSUME NEW c \in QueueType, c.sem > 0, NEW b \in BOOLEAN
    PROVE  /\ [c EXCEPT !.sem = @ - 1] \in QueueType
           /\ SameMessages(c, [c EXCEPT !.sem = @ - 1])
           /\ [c EXCEPT !.sem = @ - 1].sem = c.sem - 1
           /\ [c EXCEPT !.sem = @ - 1, !.stuck = @ \/ b] \in QueueType
           /\ SameMessages(c, [c EXCEPT !.sem = @ - 1, !.stuck = @ \/ b])
           /\ [c EXCEPT !.sem = @ - 1, !.stuck = @ \/ b].sem = c.sem - 1
<1>1. c.sem - 1 \in Nat
  BY DEF QueueType
<1> QED
  BY <1>1 DEF QueueType, SameMessages

\* What a step does to one direction of a pipe, from queue c and pipe m to queue
\* d and pipe n: a message is accepted, the batch is handed out, or none of both.
MessageStep(c, d, m, n) ==
    \/ SameMessages(c, d) /\ (m = "freed" => n = "freed")
    \/ /\ m = "live" /\ n = "live"
       /\ d.q = Append(c.q, c.sent + 1) /\ d.sent = c.sent + 1 /\ d.recv = c.recv
    \/ /\ m = "live" /\ n \in {"live", "freed"}
       /\ d.q = <<>> /\ d.sent = c.sent /\ d.recv = c.recv + Len(c.q)

PipeStep(t) == /\ MessageStep(rep[t], rep'[t], mem[t], mem'[t])
               /\ MessageStep(note[t], note'[t], mem[t], mem'[t])

MemType == {"none", "live", "freed"}

\* What every step does to the pipes.
PipesStep ==
    /\ mem' \in [Threads -> MemType]
    /\ rep' \in [Threads -> QueueType]
    /\ note' \in [Threads -> QueueType]
    /\ \A t \in Threads : PipeStep(t)

----------------------------------------------------------------------------
(* The pipes after a step.                                                 *)

\* A step that leaves the pipes alone.
LEMMA PipesKept ==
    ASSUME TypeOK, UNCHANGED <<mem, rep, note>>
    PROVE  PipesStep
BY DEF TypeOK, PipesStep, PipeStep, MessageStep, SameMessages, MemType

\* A step that deletes a pipe, or marks one live that is not deleted.
LEMMA MemMoves ==
    ASSUME TypeOK, NEW t \in Threads, NEW m \in MemType, mem' = [mem EXCEPT ![t] = m],
           mem[t] = "freed" => m = "freed", UNCHANGED <<rep, note>>
    PROVE  PipesStep
BY DEF TypeOK, PipesStep, PipeStep, MessageStep, SameMessages, MemType

\* A step on the report queue of one pipe, which may delete the pipe too.
LEMMA RepMoves ==
    ASSUME TypeOK, NEW t \in Threads, NEW d \in QueueType, NEW m \in MemType,
           rep' = [rep EXCEPT ![t] = d], mem' = [mem EXCEPT ![t] = m], UNCHANGED note,
           MessageStep(rep[t], d, mem[t], m), mem[t] = "freed" => m = "freed"
    PROVE  PipesStep
<1>1. /\ rep \in [Threads -> QueueType] /\ note \in [Threads -> QueueType]
      /\ mem \in [Threads -> MemType]
  BY DEF TypeOK, MemType
<1>2. ASSUME NEW u \in Threads PROVE PipeStep(u)
  <2>1. CASE u = t
    <3>1. rep'[u] = d /\ mem'[u] = m /\ note'[u] = note[u]
      BY <1>1, <2>1
    <3> QED
      BY <2>1, <3>1 DEF PipeStep, MessageStep, SameMessages
  <2>2. CASE u # t
    <3>1. rep'[u] = rep[u] /\ mem'[u] = mem[u] /\ note'[u] = note[u]
      BY <1>1, <2>2
    <3> QED
      BY <3>1 DEF PipeStep, MessageStep, SameMessages
  <2> QED
    BY <2>1, <2>2
<1> QED
  BY <1>1, <1>2 DEF PipesStep

\* A step on the notify queue of one pipe.
LEMMA NoteMoves ==
    ASSUME TypeOK, NEW t \in Threads, NEW d \in QueueType,
           note' = [note EXCEPT ![t] = d], UNCHANGED <<mem, rep>>,
           MessageStep(note[t], d, mem[t], mem[t])
    PROVE  PipesStep
<1>1. /\ rep \in [Threads -> QueueType] /\ note \in [Threads -> QueueType]
      /\ mem \in [Threads -> MemType]
  BY DEF TypeOK, MemType
<1>2. ASSUME NEW u \in Threads PROVE PipeStep(u)
  <2>1. CASE u = t
    <3>1. note'[u] = d /\ mem'[u] = mem[u] /\ rep'[u] = rep[u]
      BY <1>1, <2>1
    <3> QED
      BY <2>1, <3>1 DEF PipeStep, MessageStep, SameMessages
  <2>2. CASE u # t
    <3>1. rep'[u] = rep[u] /\ mem'[u] = mem[u] /\ note'[u] = note[u]
      BY <1>1, <2>2
    <3> QED
      BY <3>1 DEF PipeStep, MessageStep, SameMessages
  <2> QED
    BY <2>1, <2>2
<1> QED
  BY <1>1, <1>2 DEF PipesStep

\* The child's steps on its pipe.
LEMMA ChildPipes ==
    ASSUME TypeOK, NEW t \in Threads, Child(t)
    PROVE  PipesStep
<1>0. /\ rep[t] \in QueueType /\ note[t] \in QueueType /\ csam[t] \in Nat
      /\ rep \in [Threads -> QueueType] /\ note \in [Threads -> QueueType]
      /\ mem[t] \in MemType /\ mem \in [Threads -> MemType]
  BY DEF TypeOK, MemType
<1>1. CASE Boot(t) \/ ParaGet(t) \/ Script(t) \/ ChildSample(t) \/ Check(t)
           \/ ClearSuspend(t) \/ ExitAlive(t) \/ ExitClear(t) \/ ChildCrash(t)
  <2>1. UNCHANGED <<mem, rep, note>>
    BY <1>1 DEF Boot, ParaGet, Script, ChildSample, Check, ClearSuspend, ExitAlive,
                ExitClear, ChildCrash, Crash, pipeVars
  <2> QED
    BY <2>1, PipesKept
<1>2. CASE ReportLock(t)
  <2>1. /\ rep' = [rep EXCEPT ![t] = [rep[t] EXCEPT !.lock = "child"]]
        /\ mem' = [mem EXCEPT ![t] = mem[t]] /\ UNCHANGED note
    BY <1>0, <1>2 DEF ReportLock
  <2>2. /\ [rep[t] EXCEPT !.lock = "child"] \in QueueType
        /\ SameMessages(rep[t], [rep[t] EXCEPT !.lock = "child"])
    BY <1>0, OtherIsQueue
  <2> QED
    BY <1>0, <2>1, <2>2, RepMoves DEF MessageStep
<1>3. CASE ReportAppend(t)
  <2>1. /\ mem' = [mem EXCEPT ![t] = mem[t]] /\ UNCHANGED note /\ mem[t] = "live"
        /\ \/ rep' = [rep EXCEPT ![t] = Appended(rep[t])]
           \/ rep' = [rep EXCEPT ![t] = NotAppended(rep[t])]
    BY <1>0, <1>3 DEF ReportAppend, Touch
  <2>2. /\ Appended(rep[t]) \in QueueType
        /\ MessageStep(rep[t], Appended(rep[t]), mem[t], mem[t])
    BY <1>0, <2>1, AppendedIsQueue DEF MessageStep
  <2>3. /\ NotAppended(rep[t]) \in QueueType
        /\ MessageStep(rep[t], NotAppended(rep[t]), mem[t], mem[t])
    BY <1>0, <2>1, OtherIsQueue DEF MessageStep
  <2> QED
    BY <1>0, <2>1, <2>2, <2>3, RepMoves
<1>4. CASE ChildPost(t)
  <2>1. /\ rep' = [rep EXCEPT ![t] = Posted(rep[t], csam[t])]
        /\ mem' = [mem EXCEPT ![t] = mem[t]] /\ UNCHANGED note
    BY <1>0, <1>4 DEF ChildPost
  <2>2. /\ Posted(rep[t], csam[t]) \in QueueType
        /\ SameMessages(rep[t], Posted(rep[t], csam[t]))
    BY <1>0, OtherIsQueue
  <2> QED
    BY <1>0, <2>1, <2>2, RepMoves DEF MessageStep
<1>5. CASE ChildWait(t)
  <2>1. /\ note' = [note EXCEPT ![t] = [note[t] EXCEPT !.sem = @ - 1]]
        /\ UNCHANGED <<mem, rep>> /\ note[t].sem > 0
    BY <1>0, <1>5 DEF ChildWait
  <2>2. /\ [note[t] EXCEPT !.sem = @ - 1] \in QueueType
        /\ SameMessages(note[t], [note[t] EXCEPT !.sem = @ - 1])
    BY <1>0, <2>1, TakenIsQueue
  <2> QED
    BY <2>1, <2>2, NoteMoves DEF MessageStep
<1>6. CASE ChildGetLock(t)
  <2>1. /\ note' = [note EXCEPT ![t] = [note[t] EXCEPT !.lock = "child"]]
        /\ UNCHANGED <<mem, rep>>
    BY <1>0, <1>6 DEF ChildGetLock
  <2>2. /\ [note[t] EXCEPT !.lock = "child"] \in QueueType
        /\ SameMessages(note[t], [note[t] EXCEPT !.lock = "child"])
    BY <1>0, OtherIsQueue
  <2> QED
    BY <2>1, <2>2, NoteMoves DEF MessageStep
<1>7. CASE ChildGet(t)
  <2>1. /\ UNCHANGED <<mem, rep>> /\ mem[t] = "live"
        /\ \/ note' = [note EXCEPT ![t] = Drained(note[t])]
           \/ note' = [note EXCEPT ![t] = NotDrained(note[t])]
    BY <1>0, <1>7 DEF ChildGet, Touch
  <2>2. /\ Drained(note[t]) \in QueueType
        /\ MessageStep(note[t], Drained(note[t]), mem[t], mem[t])
    BY <1>0, <2>1, DrainedIsQueue DEF MessageStep
  <2>3. /\ NotDrained(note[t]) \in QueueType
        /\ MessageStep(note[t], NotDrained(note[t]), mem[t], mem[t])
    BY <1>0, OtherIsQueue DEF MessageStep
  <2> QED
    BY <2>1, <2>2, <2>3, NoteMoves
<1>8. CASE Resumed(t)
  <2> DEFINE b == note[t].q # <<>>
  <2>1. /\ note' = [note EXCEPT ![t] = [note[t] EXCEPT !.sem = @ - 1, !.stuck = @ \/ b]]
        /\ UNCHANGED <<mem, rep>> /\ note[t].sem > 0
    BY <1>0, <1>8 DEF Resumed
  <2>2. b \in BOOLEAN
    OBVIOUS
  <2> HIDE DEF b
  <2>3. /\ [note[t] EXCEPT !.sem = @ - 1, !.stuck = @ \/ b] \in QueueType
        /\ SameMessages(note[t], [note[t] EXCEPT !.sem = @ - 1, !.stuck = @ \/ b])
    BY <1>0, <2>1, <2>2, TakenIsQueue
  <2> QED
    BY <2>1, <2>3, NoteMoves DEF MessageStep
<1>9. CASE ExitDelete(t)
  <2>1. mem' = [mem EXCEPT ![t] = "freed"] /\ UNCHANGED <<rep, note>>
    BY <1>9 DEF ExitDelete
  <2> QED
    BY <2>1, MemMoves DEF MemType
<1> QED
  BY <1>1, <1>2, <1>3, <1>4, <1>5, <1>6, <1>7, <1>8, <1>9 DEF Child

\* A call in progress has a thread it is treating.
LEMMA TargetIsThread ==
    ASSUME TypeOK, ppc \notin {"idle", "gone"}
    PROVE  Target \in Threads /\ todo \in Seq(Threads) /\ todo # <<>>
BY HeadTailProperties DEF TypeOK, Target

\* Reading the report queue without its lock hands out the batch and keeps the lock.
LEMMA UnlockedDrain ==
    ASSUME TypeOK, NEW t \in Threads, NEW m \in {"live", "freed"}, mem[t] = "live",
           rep' = [rep EXCEPT ![t] = [Drained(rep[t]) EXCEPT !.lock = rep[t].lock]],
           mem' = [mem EXCEPT ![t] = m], UNCHANGED note
    PROVE  PipesStep
<1>1. rep[t] \in QueueType /\ rep[t].lock \in {"free", "child", "parent"} /\ m \in MemType
  BY DEF TypeOK, QueueType, MemType
<1>2. PICK d : d = [Drained(rep[t]) EXCEPT !.lock = rep[t].lock]
  OBVIOUS
<1>3. d \in QueueType /\ SameMessages(Drained(rep[t]), d)
  BY <1>1, <1>2, OtherIsQueue
<1>4. /\ Drained(rep[t]).q = <<>> /\ Drained(rep[t]).sent = rep[t].sent
      /\ Drained(rep[t]).recv = rep[t].recv + Len(rep[t].q)
  BY <1>1, DrainedIsQueue
<1>5. MessageStep(rep[t], d, mem[t], m)
  BY <1>3, <1>4 DEF MessageStep, SameMessages
<1> QED
  BY <1>1, <1>2, <1>3, <1>5, RepMoves

\* The parent's steps on the pipe of the thread it treats.
LEMMA ParentPipes ==
    ASSUME TypeOK, BornWithPipe, Parent
    PROVE  PipesStep
<1>1. CASE \/ \E op \in OpNames : Call(op)
           \/ Insert \/ Find \/ Join \/ SetSuspend \/ Clear \/ SetKill \/ Sample \/ ParentCrash
  <2>1. UNCHANGED <<mem, rep, note>>
    BY <1>1 DEF Call, Insert, Find, Join, SetSuspend, Clear, SetKill, Sample,
                ParentCrash, Crash, pipeVars
  <2> QED
    BY <2>1, PipesKept
<1>2. ASSUME NEW t \in Threads, Create(t)
      PROVE  PipesStep
  <2>1. mem' = [mem EXCEPT ![t] = "live"] /\ UNCHANGED <<rep, note>> /\ mem[t] # "freed"
    BY <1>2 DEF Create, BornWithPipe
  <2> QED
    BY <2>1, MemMoves DEF MemType
<1>3. ASSUME ppc \notin {"idle", "gone"},
             InsertFails \/ Reap \/ Wait \/ GetLock \/ Get \/ JoinGet \/ PutLock \/ Put \/ Post
      PROVE  PipesStep
  <2>0. PICK t \in Threads : t = Target
    BY <1>3, TargetIsThread
  <2>1. /\ rep[t] \in QueueType /\ note[t] \in QueueType /\ psam \in Nat
        /\ rep \in [Threads -> QueueType] /\ note \in [Threads -> QueueType]
        /\ mem[t] \in MemType /\ mem \in [Threads -> MemType]
    BY DEF TypeOK, MemType
  <2>2. CASE InsertFails
    <3>1. mem' = [mem EXCEPT ![t] = "freed"] /\ UNCHANGED <<rep, note>>
      BY <2>0, <2>2 DEF InsertFails
    <3> QED
      BY <3>1, MemMoves DEF MemType
  <2>3. CASE Reap \/ JoinGet
    <3>1. /\ mem' = [mem EXCEPT ![t] = "freed"] /\ UNCHANGED note /\ mem[t] = "live"
          /\ \/ UNCHANGED rep
             \/ rep' = [rep EXCEPT ![t] = [Drained(rep[t]) EXCEPT !.lock = rep[t].lock]]
      BY <2>0, <2>1, <2>3 DEF Reap, JoinGet, Touch
    <3> QED
      BY <3>1, MemMoves, UnlockedDrain DEF MemType
  <2>4. CASE Wait
    <3>1. /\ rep' = [rep EXCEPT ![t] = [rep[t] EXCEPT !.sem = @ - 1]]
          /\ mem' = [mem EXCEPT ![t] = mem[t]] /\ UNCHANGED note /\ rep[t].sem > 0
      BY <2>0, <2>1, <2>4 DEF Wait
    <3>2. /\ [rep[t] EXCEPT !.sem = @ - 1] \in QueueType
          /\ SameMessages(rep[t], [rep[t] EXCEPT !.sem = @ - 1])
      BY <2>1, <3>1, TakenIsQueue
    <3> QED
      BY <2>1, <3>1, <3>2, RepMoves DEF MessageStep
  <2>5. CASE GetLock
    <3>1. /\ rep' = [rep EXCEPT ![t] = [rep[t] EXCEPT !.lock = "parent"]]
          /\ mem' = [mem EXCEPT ![t] = mem[t]] /\ UNCHANGED note
      BY <2>0, <2>1, <2>5 DEF GetLock
    <3>2. /\ [rep[t] EXCEPT !.lock = "parent"] \in QueueType
          /\ SameMessages(rep[t], [rep[t] EXCEPT !.lock = "parent"])
      BY <2>1, OtherIsQueue
    <3> QED
      BY <2>1, <3>1, <3>2, RepMoves DEF MessageStep
  <2>6. CASE Get
    <3>1. /\ mem' = [mem EXCEPT ![t] = mem[t]] /\ UNCHANGED note /\ mem[t] = "live"
          /\ \/ rep' = [rep EXCEPT ![t] = Drained(rep[t])]
             \/ rep' = [rep EXCEPT ![t] = NotDrained(rep[t])]
      BY <2>0, <2>1, <2>6 DEF Get, Touch
    <3>2. /\ Drained(rep[t]) \in QueueType
          /\ MessageStep(rep[t], Drained(rep[t]), mem[t], mem[t])
      BY <2>1, <3>1, DrainedIsQueue DEF MessageStep
    <3>3. /\ NotDrained(rep[t]) \in QueueType
          /\ MessageStep(rep[t], NotDrained(rep[t]), mem[t], mem[t])
      BY <2>1, OtherIsQueue DEF MessageStep
    <3> QED
      BY <2>1, <3>1, <3>2, <3>3, RepMoves
  <2>7. CASE PutLock
    <3>1. /\ note' = [note EXCEPT ![t] = [note[t] EXCEPT !.lock = "parent"]]
          /\ UNCHANGED <<mem, rep>>
      BY <2>0, <2>1, <2>7 DEF PutLock
    <3>2. /\ [note[t] EXCEPT !.lock = "parent"] \in QueueType
          /\ SameMessages(note[t], [note[t] EXCEPT !.lock = "parent"])
      BY <2>1, OtherIsQueue
    <3> QED
      BY <3>1, <3>2, NoteMoves DEF MessageStep
  <2>8. CASE Put
    <3>1. /\ UNCHANGED <<mem, rep>> /\ mem[t] = "live"
          /\ \/ note' = [note EXCEPT ![t] = Appended(note[t])]
             \/ note' = [note EXCEPT ![t] = NotAppended(note[t])]
      BY <2>0, <2>1, <2>8 DEF Put, Touch
    <3>2. /\ Appended(note[t]) \in QueueType
          /\ MessageStep(note[t], Appended(note[t]), mem[t], mem[t])
      BY <2>1, <3>1, AppendedIsQueue DEF MessageStep
    <3>3. /\ NotAppended(note[t]) \in QueueType
          /\ MessageStep(note[t], NotAppended(note[t]), mem[t], mem[t])
      BY <2>1, OtherIsQueue DEF MessageStep
    <3> QED
      BY <3>1, <3>2, <3>3, NoteMoves
  <2>9. CASE Post
    <3>1. /\ note' = [note EXCEPT ![t] = Posted(note[t], psam)]
          /\ UNCHANGED <<mem, rep>>
      BY <2>0, <2>1, <2>9 DEF Post
    <3>2. /\ Posted(note[t], psam) \in QueueType
          /\ SameMessages(note[t], Posted(note[t], psam))
      BY <2>1, OtherIsQueue
    <3> QED
      BY <3>1, <3>2, NoteMoves DEF MessageStep
  <2> QED
    BY <1>3, <2>2, <2>3, <2>4, <2>5, <2>6, <2>7, <2>8, <2>9
<1>4. (InsertFails \/ Reap \/ Wait \/ GetLock \/ Get \/ JoinGet \/ PutLock \/ Put \/ Post)
        => ppc \notin {"idle", "gone"}
  BY DEF InsertFails, Reap, Wait, GetLock, Get, JoinGet, PutLock, Put, Post, At
<1> QED
  BY <1>1, <1>2, <1>3, <1>4 DEF Parent

----------------------------------------------------------------------------
(* The types of the other variables.                                       *)

\* A step of a child keeps the types, and leaves the parent where it is.
LEMMA ChildTypes ==
    ASSUME TypeOK, NEW t \in Threads, Child(t)
    PROVE  TypeOK'
<1> USE DEF Boot, ParaGet, Script, ReportLock, ReportAppend, ChildSample, ChildPost,
            ChildWait, ChildGetLock, ChildGet, Check, ClearSuspend, Resumed,
            ExitAlive, ExitClear, ExitDelete, ChildCrash, Child
<1>1. /\ mem' \in [Threads -> {"none", "live", "freed"}]
      /\ rep' \in [Threads -> QueueType] /\ note' \in [Threads -> QueueType]
  BY ChildPipes DEF PipesStep, MemType
<1>2. UNCHANGED parentVars
  BY DEF Crash
<1>3. alive' \in [Threads -> BOOLEAN] /\ kill' \in [Threads -> BOOLEAN] /\ suspend' \in [Threads -> BOOLEAN]
  <2>1. UNCHANGED alive \/ alive' = [alive EXCEPT ![t] = FALSE]
    BY DEF Crash, pipeVars
  <2>2. UNCHANGED kill /\ (UNCHANGED suspend \/ suspend' = [suspend EXCEPT ![t] = FALSE])
    BY DEF Crash, pipeVars
  <2> QED
    BY <2>1, <2>2 DEF TypeOK
<1>4. cpc' \in [Threads -> ChildLabels]
  <2>1. \/ UNCHANGED cpc
        \/ \E l \in ChildLabels : cpc' = [cpc EXCEPT ![t] = l]
    BY DEF Crash, childVars, ChildGoto, ChildLabels, ChildAccess
  <2> QED
    BY <2>1 DEF TypeOK
<1>5. csam' \in [Threads -> Nat]
  <2>1. UNCHANGED csam \/ csam' = [csam EXCEPT ![t] = rep[t].sem]
                      \/ csam' = [csam EXCEPT ![t] = 0]
    BY DEF Crash, childVars
  <2>2. rep[t].sem \in Nat
    BY DEF TypeOK, QueueType
  <2>3. csam \in [Threads -> Nat]
    BY DEF TypeOK
  <2>4. ASSUME NEW v \in Nat PROVE [csam EXCEPT ![t] = v] \in [Threads -> Nat]
    BY <2>3
  <2>5. /\ [csam EXCEPT ![t] = rep[t].sem] \in [Threads -> Nat]
        /\ [csam EXCEPT ![t] = 0] \in [Threads -> Nat]
    BY <2>2, <2>4
  <2> QED
    BY <2>1, <2>3, <2>5
<1>6. ccalls' \in [Threads -> Nat]
  <2>1. UNCHANGED ccalls \/ ccalls' = [ccalls EXCEPT ![t] = ccalls[t] + 1]
                         \/ ccalls' = [ccalls EXCEPT ![t] = 0]
    BY DEF Crash, childVars
  <2>2. ccalls \in [Threads -> Nat] /\ ccalls[t] + 1 \in Nat
    BY DEF TypeOK
  <2> HIDE DEF Boot, ParaGet, Script, ReportLock, ReportAppend, ChildSample, ChildPost,
            ChildWait, ChildGetLock, ChildGet, Check, ClearSuspend, Resumed,
            ExitAlive, ExitClear, ExitDelete, ChildCrash, Child
  <2> QED
    BY <2>1, <2>2
<1>7. fault' \in FaultType
  <2>1. UNCHANGED fault \/ (cpc[t] \in ChildAccess /\ fault' = <<"child", cpc[t]>>)
    BY DEF Crash, Touch
  <2> QED
    BY <2>1 DEF TypeOK, FaultType
<1> QED
  BY <1>1, <1>2, <1>3, <1>4, <1>5, <1>6, <1>7 DEF TypeOK, parentVars

\* A call goes on to the next thread, or returns with none left.
LEMMA NextTargetTypes ==
    ASSUME TypeOK, ppc \notin {"idle", "gone"}, NextTarget
    PROVE  /\ todo' \in Seq(Threads) /\ ppc' \in ParentLabels
           /\ ppc' \notin {"idle", "gone"} => todo' # <<>>
<1>1. todo \in Seq(Threads) /\ todo # <<>> /\ todo' = Tail(todo)
  BY TargetIsThread DEF NextTarget
<1>2. todo' \in Seq(Threads) /\ Len(todo') = Len(todo) - 1 /\ Len(todo) \in Nat
  BY <1>1, HeadTailProperties, LenProperties
<1>3. ppc' = IF Len(todo) > 1 THEN "find" ELSE IF pop = "teardown" THEN "gone" ELSE "idle"
  BY DEF NextTarget, Goto
<1>4. ppc' \in ParentLabels
  BY <1>3 DEF ParentLabels, ParentAccess
<1>5. ppc' \notin {"idle", "gone"} => todo' # <<>>
  <2>1. SUFFICES ASSUME Len(todo) > 1 PROVE todo' # <<>>
    BY <1>3
  <2>2. Len(todo') # 0
    BY <1>2, <2>1
  <2> QED
    BY <2>2, EmptySeq
<1> QED
  BY <1>2, <1>4, <1>5

\* Where the parent is, and the threads it still has to treat, after a step.
LEMMA ParentPlace ==
    ASSUME TypeOK, Parent
    PROVE  /\ todo' \in Seq(Threads) /\ ppc' \in ParentLabels
           /\ ppc' \notin {"idle", "gone"} => todo' # <<>>
<1>1. ASSUME NEW op \in OpNames, Call(op)
      PROVE  /\ todo' \in Seq(Threads) /\ todo' # <<>> /\ ppc' \in ParentLabels
  <2>1. ppc' \in ParentLabels
    BY <1>1 DEF Call, Goto, Entry, ParentLabels, ParentAccess
  <2>2. CASE todo' = threads /\ threads # <<>>
    BY <2>1, <2>2 DEF TypeOK
  <2>3. ASSUME NEW t \in Listed, todo' = <<t>>
        PROVE  todo' \in Seq(Threads) /\ todo' # <<>>
    <3>1. t \in Threads
      BY ElementOfSeq DEF TypeOK, Listed
    <3> QED
      BY <2>3, <3>1
  <2> QED
    BY <1>1, <2>1, <2>2, <2>3 DEF Call
<1>2. ASSUME NEW t \in Threads, Create(t)
      PROVE  todo' \in Seq(Threads) /\ todo' # <<>> /\ ppc' \in ParentLabels
  BY <1>2 DEF Create, Goto, ParentLabels
<1>3. CASE ppc \notin {"idle", "gone"} /\ NextTarget
  BY <1>3, NextTargetTypes
<1>4. CASE UNCHANGED todo /\ ppc \notin {"idle", "gone"} /\ ppc' \in ParentLabels
  BY <1>4, TargetIsThread
<1>5. CASE UNCHANGED <<todo, ppc>>
  BY <1>5 DEF TypeOK
<1>6. Insert \/ InsertFails \/ Reap \/ Get \/ JoinGet \/ SetSuspend \/ Post
        => ppc \notin {"idle", "gone"} /\ NextTarget
  BY DEF Insert, InsertFails, Reap, Get, JoinGet, SetSuspend, Post, At
<1>7. Wait \/ GetLock \/ Join \/ PutLock \/ Put \/ Clear \/ SetKill \/ Sample
        => UNCHANGED todo /\ ppc \notin {"idle", "gone"} /\ ppc' \in ParentLabels
  BY DEF Wait, GetLock, Join, PutLock, Put, Clear, SetKill, Sample, At, Goto, ParentLabels, ParentAccess
<1>8. Find => /\ ppc \notin {"idle", "gone"}
              /\ NextTarget \/ (UNCHANGED todo /\ ppc' \in ParentLabels)
  BY DEF Find, At, Goto, AfterFind, ParentLabels, ParentAccess
<1>9. ParentCrash => UNCHANGED <<todo, ppc>>
  BY DEF ParentCrash, Crash, parentVars
<1> QED
  BY <1>1, <1>2, <1>3, <1>4, <1>5, <1>6, <1>7, <1>8, <1>9 DEF Parent

\* A step of the parent keeps the types.
LEMMA ParentTypes ==
    ASSUME TypeOK, BornWithPipe, Parent
    PROVE  TypeOK'
<1>1. /\ mem' \in [Threads -> {"none", "live", "freed"}]
      /\ rep' \in [Threads -> QueueType] /\ note' \in [Threads -> QueueType]
  BY ParentPipes DEF PipesStep, MemType
<1>2. /\ todo' \in Seq(Threads) /\ ppc' \in ParentLabels
      /\ ppc' \notin {"idle", "gone"} => todo' # <<>>
  BY ParentPlace
<1>3. ppc \notin {"idle", "gone"} => Target \in Threads
  BY TargetIsThread
<1>4. alive' \in [Threads -> BOOLEAN] /\ kill' \in [Threads -> BOOLEAN] /\ suspend' \in [Threads -> BOOLEAN]
  <2>1. \/ UNCHANGED alive
        \/ \E u, b : b \in BOOLEAN /\ alive' = [alive EXCEPT ![u] = b]
    BY DEF Parent, Call, Create, Insert, InsertFails, Find, Reap, Wait, GetLock, Get, Join,
           JoinGet, PutLock, Put, SetSuspend, Clear, SetKill, Sample, Post, ParentCrash,
           Crash, pipeVars
  <2>2. UNCHANGED kill \/ \E u : kill' = [kill EXCEPT ![u] = TRUE]
    BY DEF Parent, Call, Create, Insert, InsertFails, Find, Reap, Wait, GetLock, Get, Join,
           JoinGet, PutLock, Put, SetSuspend, Clear, SetKill, Sample, Post, ParentCrash,
           Crash, pipeVars
  <2>3. UNCHANGED suspend \/ \E u : suspend' = [suspend EXCEPT ![u] = TRUE]
    BY DEF Parent, Call, Create, Insert, InsertFails, Find, Reap, Wait, GetLock, Get, Join,
           JoinGet, PutLock, Put, SetSuspend, Clear, SetKill, Sample, Post, ParentCrash,
           Crash, pipeVars
  <2> QED
    BY <2>1, <2>2, <2>3 DEF TypeOK
<1>5. cpc' \in [Threads -> ChildLabels] /\ UNCHANGED <<csam, ccalls>>
  <2>1. \/ UNCHANGED cpc
        \/ \E u : cpc' = [cpc EXCEPT ![u] = "boot"]
    BY DEF Parent, Call, Create, Insert, InsertFails, Find, Reap, Wait, GetLock, Get, Join,
           JoinGet, PutLock, Put, SetSuspend, Clear, SetKill, Sample, Post, ParentCrash,
           Crash, childVars
  <2>2. UNCHANGED <<csam, ccalls>>
    BY DEF Parent, Call, Create, Insert, InsertFails, Find, Reap, Wait, GetLock, Get, Join,
           JoinGet, PutLock, Put, SetSuspend, Clear, SetKill, Sample, Post, ParentCrash,
           Crash, childVars
  <2> QED
    BY <2>1, <2>2 DEF TypeOK, ChildLabels
<1>6. threads' \in Seq(Threads)
  <2>1. \/ UNCHANGED threads
        \/ threads' = RemoveFirst(threads, Target)
        \/ Insert
    BY DEF Parent, Call, Create, InsertFails, Find, Reap, Wait, GetLock, Get, Join,
           JoinGet, PutLock, Put, SetSuspend, Clear, SetKill, Sample, Post, ParentCrash,
           Crash, parentVars, Unlink
  <2>2. RemoveFirst(threads, Target) \in Seq(Threads)
    BY RemoveFirstInSeq DEF TypeOK
  <2>3. ASSUME Insert PROVE threads' \in Seq(Threads)
    <3>1. threads' = <<Target>> \o threads /\ Target \in Threads
      BY <1>3, <2>3 DEF Insert, At
    <3> QED
      BY <3>1, ConsProperties DEF TypeOK
  <2> QED
    BY <2>1, <2>2, <2>3 DEF TypeOK
<1>7. pop' \in OpNames \cup {"none", "thread"}
  <2>1. UNCHANGED pop \/ pop' \in OpNames \/ pop' \in {"thread", "none"}
    BY DEF NextTarget, Returns, Parent, Call, Create, Insert, InsertFails, Find, Reap, Wait, GetLock, Get, Join,
           JoinGet, PutLock, Put, SetSuspend, Clear, SetKill, Sample, Post, ParentCrash,
           Crash, parentVars
  <2> QED
    BY <2>1 DEF TypeOK
<1>8. psam' \in Nat
  <2>1. UNCHANGED psam \/ (psam' = note[Target].sem /\ ppc \notin {"idle", "gone"})
                      \/ psam' = 0
    BY DEF Parent, Call, Create, Insert, InsertFails, Find, Reap, Wait, GetLock, Get, Join,
           JoinGet, PutLock, Put, SetSuspend, Clear, SetKill, Sample, Post, ParentCrash,
           Crash, parentVars, At
  <2>2. ASSUME NEW t \in Threads PROVE note[t].sem \in Nat
    BY DEF TypeOK, QueueType
  <2> QED
    BY <1>3, <2>1, <2>2 DEF TypeOK
<1>9. fault' \in FaultType
  <2>1. UNCHANGED fault \/ (ppc \in ParentAccess /\ fault' = <<"parent", ppc>>)
    BY DEF Parent, Call, Create, Insert, InsertFails, Find, Reap, Wait, GetLock, Get, Join,
           JoinGet, PutLock, Put, SetSuspend, Clear, SetKill, Sample, Post, ParentCrash,
           Crash, Touch
  <2> QED
    BY <2>1 DEF TypeOK, FaultType
<1> QED
  BY <1>1, <1>2, <1>4, <1>5, <1>6, <1>7, <1>8, <1>9 DEF TypeOK

\* A thread is started, and gets its pipe, once.
LEMMA BornStep ==
    ASSUME TypeOK, BornWithPipe, Next
    PROVE  BornWithPipe'
<1>1. ASSUME NEW t \in Threads, Child(t)
      PROVE  BornWithPipe'
  <2>1. \/ UNCHANGED <<cpc, mem>>
        \/ /\ cpc[t] # "unborn"
           /\ UNCHANGED mem \/ (mem[t] = "live" /\ mem' = [mem EXCEPT ![t] = "freed"])
           /\ \E l \in ChildLabels \ {"unborn"} : cpc' = [cpc EXCEPT ![t] = l]
    BY <1>1 DEF Boot, ParaGet, Script, ReportLock, ReportAppend, ChildSample, ChildPost,
            ChildWait, ChildGetLock, ChildGet, Check, ClearSuspend, Resumed,
            ExitAlive, ExitClear, ExitDelete, ChildCrash, Child, Crash, Touch, childVars,
            pipeVars, ChildGoto, ChildAt, ChildLabels, ChildAccess
  <2> QED
    BY <2>1 DEF TypeOK, BornWithPipe
<1>2. CASE Parent
  <2>1. ASSUME NEW t \in Threads, Create(t)
        PROVE  BornWithPipe'
    BY <2>1 DEF Create, TypeOK, BornWithPipe
  <2>2. CASE InsertFails \/ Reap \/ JoinGet
    <3>1. /\ mem[Target] = "live" /\ mem' = [mem EXCEPT ![Target] = "freed"]
          /\ UNCHANGED cpc
      BY <2>2 DEF InsertFails, Reap, JoinGet, Touch, childVars
    <3> QED
      BY <3>1 DEF TypeOK, BornWithPipe
  <2>3. CASE UNCHANGED <<cpc, mem>>
    BY <2>3 DEF BornWithPipe
  <2> QED
    BY <1>2, <2>1, <2>2, <2>3
    DEF Parent, Call, Insert, Find, Wait, GetLock, Get, Join, PutLock, Put, SetSuspend,
        Clear, SetKill, Sample, Post, ParentCrash, Crash, childVars, pipeVars
<1> QED
  BY <1>1, <1>2 DEF Next

\* The first inductive invariant: the types, which need BornWithPipe only for the
\* pipes of the threads to come.
TypeInv == TypeOK /\ BornWithPipe

\* No thread is started yet: the types hold and no pipe exists.
LEMMA TypeInvInit == Init => TypeInv
<1> SUFFICES ASSUME Init PROVE TypeInv
  OBVIOUS
<1>1. EmptyQueue \in QueueType /\ <<>> \in Seq(Threads)
  BY EmptyIsQueue, EmptySeq
<1>2. BornWithPipe
  BY DEF Init, BornWithPipe
<1>3. TypeOK
  BY <1>1 DEF Init, TypeOK, ChildLabels, ParentLabels, FaultType
<1> QED
  BY <1>2, <1>3 DEF TypeInv

\* Every step of either side keeps the types and the pipes of threads to come.
LEMMA TypeInvNext == TypeInv /\ [Next]_vars => TypeInv'
<1> SUFFICES ASSUME TypeOK, BornWithPipe, [Next]_vars PROVE TypeInv'
  BY DEF TypeInv
<1>1. CASE Next
  BY <1>1, ChildTypes, ParentTypes, BornStep DEF Next, TypeInv
<1>2. CASE UNCHANGED vars
  BY <1>2 DEF vars, pipeVars, childVars, parentVars, TypeOK, BornWithPipe, TypeInv
<1> QED
  BY <1>1, <1>2

\* The types and BornWithPipe hold together.
THEOREM TypeInvHolds == Spec => []TypeInv
BY TypeInvInit, TypeInvNext, PTL DEF Spec

\* Every variable of the two sides keeps its type, and a call that treats a thread
\* always has one to treat.
THEOREM TypeCorrect == Spec => []TypeOK
<1>1. TypeInv => TypeOK
  BY DEF TypeInv
<1> QED
  BY <1>1, TypeInvHolds, PTL

----------------------------------------------------------------------------
(* The queues: order, and the queue of MessageQueue.                       *)

\* A step on a queue that is in order leaves it in order, with all that was
\* accepted received when the batch is handed out.
LEMMA MessageStepInOrder ==
    ASSUME NEW c \in QueueType, NEW d \in QueueType, NEW m, NEW n,
           InOrder(c), MessageStep(c, d, m, n)
    PROVE  InOrder(d)
<1>1. /\ Len(c.q) \in Nat /\ c.sent \in Nat /\ c.recv \in Nat /\ c.q \in Seq(Nat)
      /\ Len(c.q) = c.sent - c.recv /\ \A i \in 1..Len(c.q) : c.q[i] = c.recv + i
  <2>1. c.q \in Seq(Nat) /\ c.sent \in Nat /\ c.recv \in Nat
    BY DEF QueueType
  <2> QED
    BY <2>1, LenProperties DEF InOrder
<1>2. CASE SameMessages(c, d)
  BY <1>2 DEF SameMessages, InOrder
<1>3. CASE d.q = Append(c.q, c.sent + 1) /\ d.sent = c.sent + 1 /\ d.recv = c.recv
  <2>1. /\ Len(d.q) = Len(c.q) + 1
        /\ \A i \in 1..(Len(c.q) + 1) : d.q[i] = IF i <= Len(c.q) THEN c.q[i] ELSE c.sent + 1
    <3>1. c.sent + 1 \in Nat
      BY <1>1
    <3> QED
      BY <1>1, <1>3, <3>1, AppendProperties
  <2>2. ASSUME NEW i \in 1..Len(d.q) PROVE d.q[i] = d.recv + i
    <3>1. CASE i <= Len(c.q)
      BY <1>1, <1>3, <2>1, <3>1
    <3>2. CASE i = Len(c.q) + 1
      BY <1>1, <1>3, <2>1, <3>2
    <3> QED
      BY <1>1, <2>1, <3>1, <3>2
  <2>3. Len(d.q) = d.sent - d.recv
    BY <1>1, <1>3, <2>1
  <2> QED
    BY <2>2, <2>3 DEF InOrder
<1>4. CASE d.q = <<>> /\ d.sent = c.sent /\ d.recv = c.recv + Len(c.q)
  BY <1>1, <1>4 DEF InOrder
<1> QED
  BY <1>2, <1>3, <1>4 DEF MessageStep

\* Every step of either side moves each pipe by one step of its two queues.
LEMMA NextPipes ==
    ASSUME TypeInv, [Next]_vars
    PROVE  PipesStep
<1>1. CASE Next
  BY <1>1, ChildPipes, ParentPipes DEF Next, TypeInv
<1>2. CASE UNCHANGED vars
  BY <1>2, PipesKept DEF vars, pipeVars, TypeInv
<1> QED
  BY <1>1, <1>2

\* Every step of either side keeps both queues of every pipe in order.
LEMMA FifoNext == TypeInv /\ Fifo /\ [Next]_vars => Fifo'
<1> SUFFICES ASSUME TypeInv, Fifo, [Next]_vars, NEW t \in Threads
             PROVE  InOrder(rep'[t]) /\ InOrder(note'[t])
  BY DEF Fifo, InOrder
<1>1. /\ rep[t] \in QueueType /\ note[t] \in QueueType
      /\ InOrder(rep[t]) /\ InOrder(note[t])
  BY DEF TypeInv, TypeOK, Fifo, InOrder
<1>2. /\ rep'[t] \in QueueType /\ note'[t] \in QueueType
      /\ MessageStep(rep[t], rep'[t], mem[t], mem'[t])
      /\ MessageStep(note[t], note'[t], mem[t], mem'[t])
  BY NextPipes DEF PipesStep, PipeStep
<1> QED
  BY <1>1, <1>2, MessageStepInOrder

\* The queues start empty, hence in order.
LEMMA FifoInit == Init => Fifo
BY EmptyIsQueue DEF Init, Fifo, InOrder

\* Reports and notes are handed out once each and in the order of sending,
\* whatever the two sides interleave and whichever allocation fails.
THEOREM FifoHolds == Spec => []Fifo
<1>1. Init => Fifo
  BY FifoInit
<1>2. TypeInv /\ Fifo /\ [Next]_vars => Fifo'
  BY FifoNext
<1> QED
  BY <1>1, <1>2, TypeInvHolds, PTL DEF Spec

\* One step of a queue in order, as a step of MessageQueue or a stutter.
LEMMA MessageStepRefines ==
    ASSUME TypeInv, Fifo, PipesStep, NEW t \in Threads
    PROVE  QueueStep(t)
<1>1. /\ rep[t] \in QueueType /\ note[t] \in QueueType
      /\ InOrder(rep[t]) /\ InOrder(note[t]) /\ mem[t] \in MemType /\ mem'[t] \in MemType
  BY DEF TypeInv, TypeOK, Fifo, InOrder, PipesStep, MemType
<1>2. /\ MessageStep(rep[t], rep'[t], mem[t], mem'[t])
      /\ MessageStep(note[t], note'[t], mem[t], mem'[t])
  BY DEF PipesStep, PipeStep
<1>3. \A c \in QueueType : InOrder(c) => /\ c.recv + Len(c.q) = c.sent
                                         /\ c.q = <<>> => c.recv + Len(c.q) = c.recv
  <2>1. ASSUME NEW c \in QueueType, InOrder(c)
        PROVE  /\ c.recv + Len(c.q) = c.sent
               /\ c.q = <<>> => c.recv + Len(c.q) = c.recv
    BY <2>1 DEF InOrder, QueueType
  <2> QED
    BY <2>1
<1>4. Reports(t)!Next \/ UNCHANGED <<rep[t].q, rep[t].sent, rep[t].recv, mem[t] # "freed">>
  <2>1. CASE SameMessages(rep[t], rep'[t]) /\ (mem[t] = "freed" => mem'[t] = "freed")
    BY <1>1, <2>1 DEF SameMessages, Reports!Next, Reports!Close, MemType
  <2>2. CASE /\ mem[t] = "live" /\ mem'[t] = "live"
             /\ rep'[t].q = Append(rep[t].q, rep[t].sent + 1)
             /\ rep'[t].sent = rep[t].sent + 1 /\ rep'[t].recv = rep[t].recv
    BY <2>2 DEF Reports!Next, Reports!Accept
  <2>3. CASE /\ mem[t] = "live" /\ mem'[t] \in {"live", "freed"}
             /\ rep'[t].q = <<>> /\ rep'[t].sent = rep[t].sent
             /\ rep'[t].recv = rep[t].recv + Len(rep[t].q)
    <3>1. rep'[t].recv = rep[t].sent /\ (rep[t].q = <<>> => rep'[t].recv = rep[t].recv)
      BY <1>1, <1>3, <2>3
    <3> QED
      BY <2>3, <3>1 DEF Reports!Next, Reports!HandOut, Reports!Close
  <2> QED
    BY <1>2, <2>1, <2>2, <2>3 DEF MessageStep
<1>5. Notes(t)!Next \/ UNCHANGED <<note[t].q, note[t].sent, note[t].recv, mem[t] # "freed">>
  <2>1. CASE SameMessages(note[t], note'[t]) /\ (mem[t] = "freed" => mem'[t] = "freed")
    BY <1>1, <2>1 DEF SameMessages, Notes!Next, Notes!Close, MemType
  <2>2. CASE /\ mem[t] = "live" /\ mem'[t] = "live"
             /\ note'[t].q = Append(note[t].q, note[t].sent + 1)
             /\ note'[t].sent = note[t].sent + 1 /\ note'[t].recv = note[t].recv
    BY <2>2 DEF Notes!Next, Notes!Accept
  <2>3. CASE /\ mem[t] = "live" /\ mem'[t] \in {"live", "freed"}
             /\ note'[t].q = <<>> /\ note'[t].sent = note[t].sent
             /\ note'[t].recv = note[t].recv + Len(note[t].q)
    <3>1. note'[t].recv = note[t].sent /\ (note[t].q = <<>> => note'[t].recv = note[t].recv)
      BY <1>1, <1>3, <2>3
    <3> QED
      BY <2>3, <3>1 DEF Notes!Next, Notes!HandOut, Notes!Close
  <2> QED
    BY <1>2, <2>1, <2>2, <2>3 DEF MessageStep
<1> QED
  BY <1>4, <1>5 DEF QueueStep

\* A pipe implements two queues of MessageQueue: each step of either side is an
\* acceptance, a hand-out of all that is pending, the deletion or nothing.
THEOREM PipesRefineQueues == Spec => PipesAreQueues
<1>1. Init => \A t \in Threads : Reports(t)!Init /\ Notes(t)!Init
  BY DEF Init, Reports!Init, Notes!Init, EmptyQueue
<1>2. TypeInv /\ Fifo /\ [Next]_vars => [\A t \in Threads : QueueStep(t)]_vars
  BY NextPipes, MessageStepRefines
<1> QED
  BY <1>1, <1>2, TypeInvHolds, FifoHolds, PTL DEF Spec, PipesAreQueues

----------------------------------------------------------------------------
(* The events.                                                             *)

\* czl_event_send reads the semaphore and posts it later: between the two, a
\* semaphore read as 0 stays 0, because each has one sender only.
EventsGuarded ==
    /\ \A t \in Threads : /\ rep[t].sem \in {0, 1} /\ note[t].sem \in {0, 1}
                          /\ cpc[t] \in {"rep_post", "init_post", "exit_post"} /\ csam[t] = 0
                                => rep[t].sem = 0
    /\ ppc = "post" /\ psam = 0 => note[Target].sem = 0

\* What a step may do to the two semaphores of one pipe, without posting.
SemsFall == \A t \in Threads : /\ rep'[t].sem \in {0, 1} /\ rep'[t].sem <= rep[t].sem
                               /\ note'[t].sem \in {0, 1} /\ note'[t].sem <= note[t].sem

\* A child's step posts nothing but its own report_event, and that guarded.
LEMMA ChildEvents ==
    ASSUME TypeInv, EventsGuarded, NEW t \in Threads, Child(t)
    PROVE  EventsGuarded'
<1>0. /\ rep[t] \in QueueType /\ note[t] \in QueueType /\ csam[t] \in Nat
      /\ rep \in [Threads -> QueueType] /\ note \in [Threads -> QueueType]
      /\ cpc \in [Threads -> ChildLabels] /\ csam \in [Threads -> Nat]
  BY DEF TypeInv, TypeOK
<1> DEFINE posting == {"rep_post", "init_post", "exit_post"}
<1>1. UNCHANGED <<ppc, psam, todo>>
  BY DEF Boot, ParaGet, Script, ReportLock, ReportAppend, ChildSample, ChildPost,
         ChildWait, ChildGetLock, ChildGet, Check, ClearSuspend, Resumed,
         ExitAlive, ExitClear, ExitDelete, ChildCrash, Child, Crash, parentVars
<1>2. CASE ChildPost(t)
  <2>1. /\ rep' = [rep EXCEPT ![t] = Posted(rep[t], csam[t])] /\ UNCHANGED note
        /\ csam' = [csam EXCEPT ![t] = 0]
        /\ cpc[t] \in posting
        /\ \E l \in {"run", "exit_sample", "exit_alive"} : cpc' = [cpc EXCEPT ![t] = l]
    BY <1>0, <1>2 DEF ChildPost, ChildAt, ChildGoto
  <2>2. Posted(rep[t], csam[t]).sem \in {0, 1}
    <3>1. Posted(rep[t], csam[t]).sem = IF csam[t] = 0 THEN rep[t].sem + 1 ELSE rep[t].sem
      BY <1>0, OtherIsQueue
    <3>2. rep[t].sem \in {0, 1} /\ (csam[t] = 0 => rep[t].sem = 0)
      BY <2>1 DEF EventsGuarded
    <3> QED
      BY <3>1, <3>2
  <2> QED
    BY <1>0, <1>1, <2>1, <2>2 DEF EventsGuarded, Target
<1>3. CASE ChildSample(t)
  <2>1. UNCHANGED <<rep, note>> /\ csam' = [csam EXCEPT ![t] = rep[t].sem]
    BY <1>3 DEF ChildSample, pipeVars
  <2>2. \E l \in posting : cpc' = [cpc EXCEPT ![t] = l]
    BY <1>3 DEF ChildSample, ChildGoto
  <2> QED
    BY <1>0, <1>1, <2>1, <2>2 DEF EventsGuarded, Target
<1>4. ASSUME SemsFall, UNCHANGED csam,
             UNCHANGED cpc \/ \E l \in ChildLabels \ posting : cpc' = [cpc EXCEPT ![t] = l]
      PROVE  EventsGuarded'
  <2>1. ASSUME NEW u \in Threads, cpc'[u] \in posting, csam'[u] = 0
        PROVE  rep'[u].sem = 0
    <3>1. cpc[u] \in posting /\ csam[u] = 0
      BY <1>0, <1>4, <2>1
    <3>2. rep[u].sem = 0
      BY <3>1 DEF EventsGuarded
    <3> QED
      BY <1>4, <3>2 DEF SemsFall
  <2>2. ppc = "post" => Target \in Threads
    BY TargetIsThread DEF TypeInv
  <2>3. ppc' = "post" /\ psam' = 0 => note'[Target'].sem = 0
    BY <1>1, <1>4, <2>2 DEF EventsGuarded, SemsFall, Target
  <2> QED
    BY <1>4, <2>1, <2>3 DEF EventsGuarded, SemsFall
<1>5. UNCHANGED <<rep, note>> => SemsFall
  BY DEF SemsFall, EventsGuarded
<1>6. ASSUME NEW d \in QueueType, rep' = [rep EXCEPT ![t] = d], d.sem = rep[t].sem, UNCHANGED note
      PROVE  SemsFall
  BY <1>0, <1>6 DEF SemsFall, EventsGuarded
<1>7. ASSUME NEW d \in QueueType, note' = [note EXCEPT ![t] = d], UNCHANGED rep,
             d.sem = note[t].sem \/ (note[t].sem > 0 /\ d.sem = note[t].sem - 1)
      PROVE  SemsFall
  <2>1. \A u \in Threads : rep[u].sem \in {0, 1} /\ note[u].sem \in {0, 1}
    BY DEF EventsGuarded
  <2>2. d.sem \in {0, 1} /\ d.sem <= note[t].sem
    BY <1>7, <2>1
  <2> QED
    BY <1>0, <1>7, <2>1, <2>2 DEF SemsFall
<1>8. ~ChildPost(t) /\ ~ChildSample(t) => SemsFall
  <2>1. CASE UNCHANGED <<rep, note>>
    BY <1>5, <2>1
  <2>2. CASE ReportLock(t)
    BY <1>0, <1>6, <2>2, OtherIsQueue DEF ReportLock
  <2>3. CASE ReportAppend(t)
    BY <1>0, <1>6, <2>3, OtherIsQueue, AppendedIsQueue DEF ReportAppend
  <2>4. CASE ChildWait(t)
    <3>1. note' = [note EXCEPT ![t] = [note[t] EXCEPT !.sem = @ - 1]] /\ UNCHANGED rep /\ note[t].sem > 0
      BY <1>0, <2>4 DEF ChildWait
    <3>2. PICK d : d = [note[t] EXCEPT !.sem = @ - 1]
      OBVIOUS
    <3>3. d \in QueueType /\ d.sem = note[t].sem - 1
      BY <1>0, <3>1, <3>2, TakenIsQueue
    <3> QED
      BY <1>7, <3>1, <3>2, <3>3
  <2>5. CASE ChildGetLock(t)
    <3>1. note' = [note EXCEPT ![t] = [note[t] EXCEPT !.lock = "child"]] /\ UNCHANGED rep
      BY <1>0, <2>5 DEF ChildGetLock
    <3> QED
      BY <1>0, <1>7, <3>1, OtherIsQueue
  <2>6. CASE ChildGet(t)
    BY <1>0, <1>7, <2>6, OtherIsQueue, DrainedIsQueue DEF ChildGet
  <2>7. CASE Resumed(t)
    <3>1. PICK b \in BOOLEAN : b = (note[t].q # <<>>)
      OBVIOUS
    <3>2. PICK d : d = [note[t] EXCEPT !.sem = @ - 1, !.stuck = @ \/ b]
      OBVIOUS
    <3>3. note' = [note EXCEPT ![t] = d] /\ UNCHANGED rep /\ note[t].sem > 0
      BY <1>0, <2>7, <3>1, <3>2 DEF Resumed
    <3>4. d \in QueueType /\ d.sem = note[t].sem - 1
      BY <1>0, <3>2, <3>3, TakenIsQueue
    <3> QED
      BY <1>7, <3>3, <3>4
  <2> QED
    BY <2>1, <2>2, <2>3, <2>4, <2>5, <2>6, <2>7
    DEF Child, Boot, ParaGet, Script, Check, ClearSuspend, ExitAlive, ExitClear, ExitDelete,
        ChildCrash, Crash, ChildPost, ChildSample, pipeVars
<1>9. ~ChildPost(t) /\ ~ChildSample(t) =>
         /\ UNCHANGED csam
         /\ UNCHANGED cpc \/ \E l \in ChildLabels \ posting : cpc' = [cpc EXCEPT ![t] = l]
  BY DEF Boot, ParaGet, Script, ReportLock, ReportAppend,
         ChildWait, ChildGetLock, ChildGet, Check, ClearSuspend, Resumed,
         ExitAlive, ExitClear, ExitDelete, ChildCrash, Child, Crash, childVars, ChildGoto,
         ChildLabels, ChildAccess
<1> QED
  BY <1>2, <1>3, <1>4, <1>8, <1>9

\* The parent's step posts nothing but the notify_event of the thread it treats,
\* and that guarded.
LEMMA ParentEvents ==
    ASSUME TypeInv, EventsGuarded, Parent
    PROVE  EventsGuarded'
<1> DEFINE posting == {"rep_post", "init_post", "exit_post"}
<1>0. /\ rep \in [Threads -> QueueType] /\ note \in [Threads -> QueueType]
      /\ cpc \in [Threads -> ChildLabels] /\ psam \in Nat
      /\ \A u \in Threads : rep[u].sem \in {0, 1} /\ note[u].sem \in {0, 1}
  BY DEF TypeInv, TypeOK, EventsGuarded
<1>1. ppc \notin {"idle", "gone"} => Target \in Threads
  BY TargetIsThread DEF TypeInv
<1>2. UNCHANGED csam /\ (UNCHANGED cpc \/ \E u : cpc' = [cpc EXCEPT ![u] = "boot"])
  BY DEF Parent, Call, Create, Insert, InsertFails, Find, Reap, Wait, GetLock, Get, Join,
         JoinGet, PutLock, Put, SetSuspend, Clear, SetKill, Sample, Post, ParentCrash,
         Crash, childVars
<1>3. ASSUME SemsFall
      PROVE  \A u \in Threads : /\ rep'[u].sem \in {0, 1} /\ note'[u].sem \in {0, 1}
                                /\ cpc'[u] \in posting /\ csam'[u] = 0 => rep'[u].sem = 0
  <2>1. ASSUME NEW u \in Threads, cpc'[u] \in posting, csam'[u] = 0
        PROVE  rep'[u].sem = 0
    <3>1. cpc[u] \in posting /\ csam[u] = 0
      BY <1>0, <1>2, <2>1
    <3>2. rep[u].sem = 0
      BY <3>1 DEF EventsGuarded
    <3> QED
      BY <1>3, <3>2 DEF SemsFall
  <2> QED
    BY <1>3, <2>1 DEF SemsFall
<1>4. CASE Post
  <2>0. PICK t \in Threads : t = Target
    BY <1>1, <1>4 DEF Post, At
  <2>1. /\ note' = [note EXCEPT ![t] = Posted(note[t], psam)] /\ UNCHANGED <<rep, cpc>>
        /\ ppc = "post" /\ ppc' # "post"
    BY <1>0, <1>4, <2>0 DEF Post, At, childVars, NextTarget, Goto
  <2>2. Posted(note[t], psam).sem \in {0, 1}
    <3>1. Posted(note[t], psam).sem = IF psam = 0 THEN note[t].sem + 1 ELSE note[t].sem
      BY <1>0, OtherIsQueue
    <3>2. note[t].sem \in {0, 1} /\ (psam = 0 => note[t].sem = 0)
      BY <1>0, <2>0, <2>1 DEF EventsGuarded
    <3> QED
      BY <3>1, <3>2
  <2>3. \A u \in Threads : rep'[u].sem = rep[u].sem /\ note'[u].sem \in {0, 1}
    BY <1>0, <2>1, <2>2
  <2> QED
    BY <1>0, <1>2, <2>1, <2>3 DEF EventsGuarded
<1>5. CASE Sample
  <2>1. /\ UNCHANGED <<rep, note, todo, cpc, csam>> /\ psam' = note[Target].sem
    BY <1>5 DEF Sample, pipeVars, childVars
  <2> QED
    BY <2>1 DEF EventsGuarded, Target
<1>6. ASSUME ~Post, ~Sample
      PROVE  ppc' # "post" \/ UNCHANGED <<ppc, psam, todo, note>>
  BY <1>6 DEF Parent, Call, Create, Insert, InsertFails, Find, Reap, Wait, GetLock, Get, Join,
         JoinGet, PutLock, Put, SetSuspend, Clear, SetKill, ParentCrash, AfterFind,
         Crash, parentVars, pipeVars, Goto, NextTarget, Entry
<1>7. ASSUME NEW t \in Threads, NEW d \in QueueType, rep' = [rep EXCEPT ![t] = d], UNCHANGED note,
             d.sem = rep[t].sem \/ (rep[t].sem > 0 /\ d.sem = rep[t].sem - 1)
      PROVE  SemsFall
  <2>1. d.sem \in {0, 1} /\ d.sem <= rep[t].sem
    BY <1>0, <1>7
  <2> QED
    BY <1>0, <1>7, <2>1 DEF SemsFall
<1>8. ASSUME NEW t \in Threads, NEW d \in QueueType, note' = [note EXCEPT ![t] = d],
             UNCHANGED rep, d.sem = note[t].sem
      PROVE  SemsFall
  BY <1>0, <1>8 DEF SemsFall
<1>9. ASSUME ~Post
      PROVE  SemsFall
  <2>1. CASE UNCHANGED <<rep, note>>
    BY <1>0, <2>1 DEF SemsFall
  <2>2. ASSUME Reap \/ JoinGet \/ Wait \/ GetLock \/ Get \/ PutLock \/ Put
        PROVE  SemsFall
    <3>0. PICK t \in Threads : t = Target
      BY <1>1, <2>2 DEF Reap, JoinGet, Wait, GetLock, Get, PutLock, Put, At
    <3>1. rep[t] \in QueueType /\ note[t] \in QueueType /\ rep[t].lock \in {"free", "child", "parent"}
      BY <1>0 DEF QueueType
    <3>2. CASE Reap \/ JoinGet
      <4>1. PICK d : d = [Drained(rep[t]) EXCEPT !.lock = rep[t].lock]
        OBVIOUS
      <4>2. UNCHANGED note /\ (UNCHANGED rep \/ rep' = [rep EXCEPT ![t] = d])
        BY <1>0, <3>0, <3>2, <4>1 DEF Reap, JoinGet
      <4>3. d \in QueueType /\ d.sem = rep[t].sem
        BY <3>1, <4>1, OtherIsQueue
      <4> QED
        BY <1>7, <2>1, <4>2, <4>3
    <3>3. CASE Wait
      <4>1. PICK d : d = [rep[t] EXCEPT !.sem = @ - 1]
        OBVIOUS
      <4>2. UNCHANGED note /\ rep' = [rep EXCEPT ![t] = d] /\ rep[t].sem > 0
        BY <1>0, <3>0, <3>3, <4>1 DEF Wait
      <4>3. d \in QueueType /\ d.sem = rep[t].sem - 1
        BY <3>1, <4>1, <4>2, TakenIsQueue
      <4> QED
        BY <1>7, <4>2, <4>3
    <3>4. CASE GetLock
      <4>1. UNCHANGED note /\ rep' = [rep EXCEPT ![t] = [rep[t] EXCEPT !.lock = "parent"]]
        BY <1>0, <3>0, <3>4 DEF GetLock
      <4> QED
        BY <1>7, <3>1, <4>1, OtherIsQueue
    <3>5. CASE Get
      BY <1>7, <3>0, <3>1, <3>5, OtherIsQueue, DrainedIsQueue DEF Get
    <3>6. CASE PutLock
      <4>1. UNCHANGED rep /\ note' = [note EXCEPT ![t] = [note[t] EXCEPT !.lock = "parent"]]
        BY <1>0, <3>0, <3>6 DEF PutLock
      <4> QED
        BY <1>8, <3>1, <4>1, OtherIsQueue
    <3>7. CASE Put
      BY <1>8, <3>0, <3>1, <3>7, OtherIsQueue, AppendedIsQueue DEF Put
    <3> QED
      BY <2>2, <3>2, <3>3, <3>4, <3>5, <3>6, <3>7
  <2> QED
    BY <1>9, <2>1, <2>2
    DEF Parent, Call, Create, Insert, InsertFails, Find, Join, SetSuspend, Clear, SetKill,
        Sample, ParentCrash, Crash, pipeVars
<1>10. ASSUME ~Post, ~Sample
       PROVE  EventsGuarded'
  <2>1. ppc' = "post" /\ psam' = 0 => note'[Target'].sem = 0
    BY <1>6, <1>10 DEF EventsGuarded, Target
  <2> QED
    BY <1>3, <1>9, <1>10, <2>1 DEF EventsGuarded
<1> QED
  BY <1>4, <1>5, <1>10

\* The two sides start with both events down.
LEMMA EventsInit == Init => EventsGuarded
BY DEF Init, EventsGuarded, EmptyQueue

\* The test and the post of czl_event_send are two steps, yet no semaphore ever
\* counts more than one wake-up: each has a single sender.
THEOREM SemBinaryHolds == Spec => []SemBinary
<1>1. TypeInv /\ EventsGuarded /\ [Next]_vars => EventsGuarded'
  <2> SUFFICES ASSUME TypeInv, EventsGuarded, [Next]_vars PROVE EventsGuarded'
    OBVIOUS
  <2>1. CASE Next
    BY <2>1, ChildEvents, ParentEvents DEF Next
  <2>2. CASE UNCHANGED vars
    BY <2>2 DEF vars, pipeVars, childVars, parentVars, EventsGuarded, Target
  <2> QED
    BY <2>1, <2>2
<1>2. EventsGuarded => SemBinary
  BY DEF EventsGuarded, SemBinary
<1> QED
  BY <1>1, <1>2, EventsInit, TypeInvHolds, PTL DEF Spec

----------------------------------------------------------------------------
(* Who holds a pipe.                                                       *)

\* The threads the parent keeps a pipe of: those listed, and the one it has just
\* started and is about to list.
Held == Listed \cup {t \in Threads : ParentOn(t, {"insert"})}

\* The list holds a thread once, and a call treats listed threads, each once; only
\* the thread being started is not listed yet.
ListInv ==
    /\ IsInjective(threads) /\ IsInjective(todo)
    /\ IF ppc = "insert" THEN ToSet(todo) = {Target} /\ Target \notin Listed
                         ELSE ToSet(todo) \subseteq Listed

\* What call the parent is in, by its label.
CallInv ==
    /\ ppc = "clear" => pop \in {"kill", "teardown"}
    /\ pop = "kill" => ppc \in {"clear", "set_kill", "sample", "post"} /\ Len(todo) = 1
    /\ ppc = "set_kill" => pop = "kill"
    /\ pop = "teardown" => ppc \in {"find", "reap", "clear", "sample", "post"}

\* As long as the parent has not given it away, the pipe of a thread it holds is
\* live, and alive is cleared only by the child that ends.  A child that is still
\* to look at alive finds it cleared if the parent does not come back.
HeldInv ==
    /\ \A t \in Held : /\ cpc[t] # "unborn"
                       /\ ~Given(t) => mem[t] = "live" /\ (alive[t] \/ cpc[t] = "done")
    /\ \A t \in Threads :
          /\ cpc[t] = "exit_delete" => ~alive[t]
          /\ mem[t] = "freed" /\ cpc[t] # "done" => "insert" \in Faults
          /\ mem[t] = "live" /\ cpc[t] \notin {"exit_clear", "done"} /\ alive[t] => Kept(t)
          /\ ParentOn(t, {"reap", "join_get"}) => cpc[t] = "done"

HoldInv == ListInv /\ CallInv /\ HeldInv

\* A step of the parent lets go of a pipe by deleting it or by clearing alive.
KeptStep == \A t \in Threads :
    Kept(t) /\ ~Kept(t)' => mem'[t] = "freed" \/ (ppc = "clear" /\ Target = t)

\* What a child's step does to what the two sides know of each other.
LEMMA ChildMoves ==
    ASSUME TypeOK, NEW t \in Threads, Child(t)
    PROVE  /\ UNCHANGED <<threads, ppc, pop, todo, psam, kill>>
           /\ \/ UNCHANGED <<mem, alive, cpc>>
              \/ /\ UNCHANGED <<mem, alive>> /\ cpc[t] \notin {"unborn", "exit_clear", "done"}
                 /\ \E l \in ChildLabels \ {"unborn", "done"} :
                       /\ cpc' = [cpc EXCEPT ![t] = l]
                       /\ l = "exit_delete" => ~alive[t]
                       /\ l = "exit_clear" => alive[t]
              \/ /\ UNCHANGED mem /\ cpc[t] = "exit_clear"
                 /\ cpc' = [cpc EXCEPT ![t] = "done"] /\ alive' = [alive EXCEPT ![t] = FALSE]
              \/ /\ UNCHANGED alive /\ cpc[t] = "exit_delete" /\ mem[t] = "live"
                 /\ cpc' = [cpc EXCEPT ![t] = "done"] /\ mem' = [mem EXCEPT ![t] = "freed"]
BY SMTT(30) DEF Boot, ParaGet, Script, ReportLock, ReportAppend, ChildSample, ChildPost,
       ChildWait, ChildGetLock, ChildGet, Check, ClearSuspend, Resumed,
       ExitAlive, ExitClear, ExitDelete, ChildCrash, Child, Crash, Touch, childVars,
       pipeVars, parentVars, ChildGoto, ChildAt, ChildLabels, ChildAccess

\* A child's step leaves it to the parent who holds what: the child ends in the
\* one way that goes with alive.
LEMMA ChildHold ==
    ASSUME TypeOK, HoldInv, NEW t \in Threads, Child(t)
    PROVE  HoldInv'
<1>1. UNCHANGED <<threads, ppc, pop, todo, kill>>
  BY ChildMoves
<1>2. /\ Held' = Held /\ \A u \in Threads : Given(u)' <=> Given(u)
      /\ \A u \in Threads : ParentOn(u, {"reap", "join_get"})' <=> ParentOn(u, {"reap", "join_get"})
  BY <1>1 DEF Held, Listed, Given, ParentOn, Target
<1>2a. \A u \in Threads : Kept(u)' <=> Kept(u)
  BY <1>1, <1>2 DEF Kept, Listed, ParentOn, Target
<1>3. ListInv' /\ CallInv'
  BY <1>1 DEF HoldInv, ListInv, CallInv, Listed, Target
<1>4. HeldInv'
  <2>0. cpc \in [Threads -> ChildLabels] /\ alive \in [Threads -> BOOLEAN]
        /\ mem \in [Threads -> MemType] /\ HeldInv /\ Held \subseteq Threads
    <3>1. Listed \subseteq Threads
      BY ElementOfSeq DEF TypeOK, Listed
    <3> QED
      BY <3>1 DEF TypeOK, MemType, HoldInv, Held
  <2>1. CASE UNCHANGED <<mem, alive, cpc>>
    BY <1>1, <1>2, <1>2a, <2>0, <2>1 DEF HeldInv
  <2>2. CASE /\ UNCHANGED <<mem, alive>> /\ cpc[t] \notin {"unborn", "exit_clear", "done"}
             /\ \E l \in ChildLabels \ {"unborn", "done"} :
                   /\ cpc' = [cpc EXCEPT ![t] = l]
                   /\ l = "exit_delete" => ~alive[t]
                   /\ l = "exit_clear" => alive[t]
    BY <1>1, <1>2, <1>2a, <2>0, <2>2 DEF HeldInv
  <2>3. CASE /\ UNCHANGED mem /\ cpc[t] = "exit_clear"
             /\ cpc' = [cpc EXCEPT ![t] = "done"] /\ alive' = [alive EXCEPT ![t] = FALSE]
    BY <1>1, <1>2, <1>2a, <2>0, <2>3 DEF HeldInv
  <2>4. CASE /\ UNCHANGED alive /\ cpc[t] = "exit_delete" /\ mem[t] = "live"
             /\ cpc' = [cpc EXCEPT ![t] = "done"] /\ mem' = [mem EXCEPT ![t] = "freed"]
    BY <1>1, <1>2, <1>2a, <2>0, <2>4 DEF HeldInv, MemType
  <2> QED
    BY <2>1, <2>2, <2>3, <2>4, ChildMoves
<1> QED
  BY <1>3, <1>4 DEF HoldInv


\* The list as a set; a call in progress treats threads of it.
LEMMA TargetHeld ==
    ASSUME TypeOK, ListInv, ppc \notin {"idle", "gone"}
    PROVE  /\ Target \in Threads /\ Target \in ToSet(todo)
           /\ Target \in Held /\ (ppc # "insert" => Target \in Listed)
<1>1. Target \in Threads /\ todo \in Seq(Threads) /\ todo # <<>>
  BY TargetIsThread
<1>2. Target \in ToSet(todo)
  BY <1>1, TailProperties DEF ListInv, Target
<1> QED
  BY <1>1, <1>2 DEF ListInv, Held, ParentOn

LEMMA ListedIsRange == ASSUME TypeOK PROVE Listed = ToSet(threads) /\ Listed \subseteq Threads
<1>1. threads \in Seq(Threads)
  BY DEF TypeOK
<1> QED
  BY <1>1, LenProperties, ElementOfSeq DEF Listed, ToSet

\* What going on to the next thread of a call does.
LEMMA NextMoves ==
    ASSUME TypeOK, ListInv, CallInv, ppc \notin {"idle", "gone"}, NextTarget
    PROVE  /\ todo' \in Seq(Threads) /\ IsInjective(todo')
           /\ ToSet(todo') = ToSet(todo) \ {Target}
           /\ \/ ppc' = "find" /\ pop' = pop /\ pop # "kill" /\ ppc # "insert"
              \/ ppc' = "idle" /\ pop' = "none" /\ pop # "teardown" /\ ToSet(todo') = {}
              \/ ppc' = "gone" /\ pop' = "none" /\ pop = "teardown" /\ ToSet(todo') = {}
<1>1. todo \in Seq(Threads) /\ todo # <<>> /\ todo' = Tail(todo) /\ IsInjective(todo)
  BY TargetIsThread DEF NextTarget, ListInv
<1>2. /\ todo' \in Seq(Threads) /\ IsInjective(todo') /\ Len(todo') = Len(todo) - 1
      /\ ToSet(todo') = ToSet(todo) \ {Target}
  BY <1>1, TailProperties DEF Target
<1>3. Len(todo) \in Nat /\ Len(todo') \in Nat /\ DOMAIN todo' = 1..Len(todo')
  BY <1>1, <1>2, LenProperties
<1>4. CASE Len(todo) > 1
  <2>1. ToSet(todo') # {}
    <3>1. 1 \in DOMAIN todo'
      BY <1>2, <1>3, <1>4
    <3> QED
      BY <3>1 DEF ToSet
  <2>2. ppc # "insert"
    BY <1>2, <2>1 DEF ListInv
  <2>3. ppc' = "find" /\ pop' = pop /\ pop # "kill"
    <3>1. ppc' = "find" /\ pop' = pop
      BY <1>4 DEF NextTarget, Returns, Goto
    <3>2. pop = "kill" => Len(todo) = 1
      BY DEF CallInv
    <3>3. \A n \in Nat : n > 1 => n # 1
      OBVIOUS
    <3>4. Len(todo) # 1
      BY <1>3, <1>4, <3>3
    <3> QED
      BY <3>1, <3>2, <3>4
  <2> QED
    BY <1>2, <2>2, <2>3
<1>5. CASE ~(Len(todo) > 1)
  <2>1. ToSet(todo') = {}
    <3>1. DOMAIN todo' = {}
      BY <1>2, <1>3, <1>5
    <3> QED
      BY <3>1 DEF ToSet
  <2>2. /\ ppc' = IF pop = "teardown" THEN "gone" ELSE "idle"
        /\ pop' = "none"
    BY <1>5 DEF NextTarget, Returns, Goto
  <2> QED
    BY <1>2, <2>1, <2>2
<1> QED
  BY <1>4, <1>5

\* A step that leaves the pipes and the children alone and neither gives back nor
\* gives away a pipe keeps what the parent knows.
LEMMA HeldKeeps ==
    ASSUME TypeOK, HeldInv, UNCHANGED <<mem, alive, cpc>>,
           Held' \subseteq Held,
           \A t \in Held' : Given(t) => Given(t)',
           \A t \in Threads : Kept(t) => Kept(t)',
           \A t \in Threads : ParentOn(t, {"reap", "join_get"})' => cpc[t] = "done"
    PROVE  HeldInv'
BY DEF HeldInv

\* A step inside a call: the thread stays the same, and clear gives its pipe away.
LEMMA WithinHold ==
    ASSUME TypeOK, HoldInv,
           \/ Find /\ ~NextTarget
           \/ Wait \/ GetLock \/ Join \/ PutLock \/ Put \/ Clear \/ SetKill \/ Sample
    PROVE  HoldInv' /\ KeptStep
<1>0. /\ ppc \in ParentLabels \ {"idle", "gone", "insert"} /\ UNCHANGED <<threads, todo, pop, mem, cpc>>
      /\ ppc' \in ParentLabels \ {"idle", "gone", "insert", "find"}
  <2>1. CASE Find /\ ~NextTarget
    BY <2>1 DEF Find, At, Goto, AfterFind, ParentLabels, ParentAccess, childVars, pipeVars
  <2>2. CASE Wait \/ GetLock \/ Join \/ PutLock \/ Put \/ Clear \/ SetKill \/ Sample
    BY <2>2 DEF Wait, GetLock, Join, PutLock, Put, Clear, SetKill, Sample, At, Goto,
           ParentLabels, ParentAccess, childVars, pipeVars
  <2> QED
    BY <2>1, <2>2
<1>1. Target \in Threads /\ Target \in ToSet(todo) /\ Target \in Listed
  BY <1>0, TargetHeld DEF HoldInv
<1>2. UNCHANGED <<Target, Listed>> /\ Held = Listed /\ Held' = Listed
  BY <1>0 DEF Target, Listed, Held, ParentOn
<1>3. ListInv'
  BY <1>0, <1>2 DEF HoldInv, ListInv
<1>4. CallInv'
  <2>1. pop = "kill" => Clear \/ SetKill \/ Sample
    BY DEF HoldInv, CallInv, Find, Wait, GetLock, Join, PutLock, Put, At
  <2>2. /\ ppc' = "clear" => pop = "teardown"
        /\ ppc' = "set_kill" => pop = "kill"
    BY DEF Find, Wait, GetLock, Join, PutLock, Put, Clear, SetKill, Sample, At, Goto, AfterFind
  <2>3. pop = "kill" => ppc' \in {"set_kill", "sample", "post"}
    BY <2>1 DEF Clear, SetKill, Sample, Goto
  <2>4. pop = "teardown" => ppc' \in {"reap", "clear", "sample", "post"}
    BY DEF HoldInv, CallInv, Find, Wait, GetLock, Join, PutLock, Put, Clear, SetKill, Sample, At,
           Goto, AfterFind
  <2> QED
    BY <1>0, <1>2, <2>2, <2>3, <2>4 DEF HoldInv, CallInv
<1>5. ASSUME NEW t \in Threads, ParentOn(t, {"reap", "join_get"})' PROVE cpc[t] = "done"
  <2>1. t = Target /\ ppc' \in {"reap", "join_get"}
    BY <1>2, <1>5 DEF ParentOn
  <2>2. CASE Join
    BY <2>1, <2>2 DEF Join
  <2>3. CASE ~Join
    <3>1. Find /\ ~alive[Target]
      BY <2>1, <2>3 DEF Find, Wait, GetLock, PutLock, Put, Clear, SetKill, Sample, At, Goto, AfterFind
    <3>2. ~Given(Target)
      BY <1>1, <3>1 DEF Given, Find, At, ParentOn
    <3> QED
      BY <1>1, <1>2, <2>1, <3>1, <3>2 DEF HoldInv, HeldInv
  <2> QED
    BY <2>2, <2>3
<1>6. CASE Clear
  <2>1. /\ alive' = [alive EXCEPT ![Target] = FALSE] /\ UNCHANGED kill /\ ppc = "clear"
        /\ pop \in {"kill", "teardown"} /\ ppc' = IF pop = "kill" THEN "set_kill" ELSE "sample"
    BY <1>6 DEF Clear, At, Goto, HoldInv, CallInv
  <2>2. /\ Given(Target)' /\ \A t \in Threads : Given(t) => Given(t)'
    BY <1>0, <1>2, <2>1 DEF Given, ParentOn
  <2>3. alive \in [Threads -> BOOLEAN]
    BY DEF TypeOK
  <2>3a. \A t \in Threads : Kept(t) => t = Target \/ Kept(t)'
    BY <1>0, <1>2 DEF Kept, Given, ParentOn
  <2>4. HeldInv'
    BY <1>0, <1>1, <1>2, <1>5, <2>1, <2>2, <2>3, <2>3a, ListedIsRange DEF HoldInv, HeldInv
  <2> QED
    BY <1>3, <1>4, <2>1, <2>3a, <2>4 DEF HoldInv, KeptStep
<1>7. CASE ~Clear
  <2>1. UNCHANGED alive
    BY <1>7 DEF Find, Wait, GetLock, Join, PutLock, Put, SetKill, Sample, pipeVars
  <2>2. \A t \in Threads : Given(t) <=> Given(t)'
    BY <1>0, <1>2, <1>7 DEF Given, ParentOn, Find, Wait, GetLock, Join, PutLock, Put, SetKill, Sample,
       At, Goto, AfterFind, HoldInv, CallInv
  <2>2a. \A t \in Threads : Kept(t) => Kept(t)'
    BY <1>0, <1>2, <2>2 DEF Kept, ParentOn
  <2>3. HeldInv'
    BY <1>0, <1>2, <1>5, <2>1, <2>2, <2>2a, HeldKeeps, ListedIsRange DEF HoldInv
  <2> QED
    BY <1>3, <1>4, <2>2a, <2>3 DEF HoldInv, KeptStep
<1> QED
  BY <1>6, <1>7

\* A thread is treated without the list changing: the call goes on or returns.
LEMMA TreatedHold ==
    ASSUME TypeOK, HoldInv, ppc \notin {"idle", "gone", "insert"}, NextTarget,
           UNCHANGED <<threads, mem, alive, cpc>>, pop \notin {"kill", "teardown"}
    PROVE  HoldInv' /\ KeptStep
<1>1. Target \in Threads /\ Target \in ToSet(todo) /\ Target \in Listed
  BY TargetHeld DEF HoldInv
<1>2. /\ ppc' \in {"find", "idle", "gone"} /\ todo' \in Seq(Threads) /\ IsInjective(todo')
      /\ ToSet(todo') = ToSet(todo) \ {Target}
      /\ \/ ppc' = "find" /\ pop' = pop
         \/ ppc' = "idle" /\ pop' = "none" /\ pop # "teardown"
         \/ ppc' = "gone" /\ pop' = "none"
  BY NextMoves DEF HoldInv
<1>3. UNCHANGED Listed /\ Held = Listed /\ Held' = Listed
  BY <1>2 DEF Listed, Held, ParentOn
<1>4. ListInv' /\ CallInv'
  BY <1>2, <1>3 DEF HoldInv, ListInv, CallInv
<1>5. \A t \in Threads : ~Given(t) /\ (Kept(t) => Kept(t)')
  BY <1>2, <1>3 DEF Given, ParentOn, Kept
<1>6. HeldInv'
  BY <1>2, <1>3, <1>5, HeldKeeps, ListedIsRange DEF HoldInv, ParentOn
<1> QED
  BY <1>4, <1>5, <1>6 DEF HoldInv, KeptStep

\* The thread that is treated leaves the list: its pipe was deleted, which only
\* happens to a child that ended, or kill or the teardown gave the pipe away.
LEMMA UnlinkedHold ==
    ASSUME TypeOK, HoldInv, ppc \notin {"idle", "gone", "insert"}, NextTarget, Unlink(Target),
           UNCHANGED <<alive, cpc>>,
           \/ mem' = [mem EXCEPT ![Target] = "freed"] /\ cpc[Target] = "done" /\ ppc # "post"
           \/ UNCHANGED mem /\ pop \in {"kill", "teardown"} /\ ppc = "post"
    PROVE  HoldInv' /\ KeptStep
<1>1. Target \in Threads /\ Target \in ToSet(todo) /\ Target \in Listed
  BY TargetHeld DEF HoldInv
<1>2. /\ ppc' \in {"find", "idle", "gone"} /\ todo' \in Seq(Threads) /\ IsInjective(todo')
      /\ ToSet(todo') = ToSet(todo) \ {Target}
      /\ \/ ppc' = "find" /\ pop' = pop /\ pop # "kill"
         \/ ppc' = "idle" /\ pop' = "none" /\ pop # "teardown"
         \/ ppc' = "gone" /\ pop' = "none"
  BY NextMoves DEF HoldInv
<1>3. threads' \in Seq(Threads) /\ IsInjective(threads') /\ ToSet(threads') = ToSet(threads) \ {Target}
  BY RemoveFirstProperties DEF Unlink, TypeOK, HoldInv, ListInv
<1>4. Held = Listed /\ Held' = Listed' /\ Listed' = Listed \ {Target}
  <2>1. Listed' = ToSet(threads')
    BY <1>3, LenProperties DEF Listed, ToSet
  <2> QED
    BY <1>2, <1>3, <2>1, ListedIsRange DEF Held, ParentOn
<1>5. ListInv' /\ CallInv'
  BY <1>2, <1>3, <1>4 DEF HoldInv, ListInv, CallInv
<1>5a. \A t \in Threads : t # Target => ~Given(t) /\ (Kept(t) <=> Kept(t)')
  BY <1>2, <1>4, ListedIsRange DEF Kept, Given, ParentOn, Held
<1>5b. \A t \in Threads : ~ParentOn(t, {"reap", "join_get"})'
  BY <1>2 DEF ParentOn
<1>6. CASE UNCHANGED mem /\ pop \in {"kill", "teardown"} /\ ppc = "post"
  <2>1. ~Kept(Target)
    BY <1>6 DEF Kept, Given, ParentOn
  <2>2. HeldInv'
    BY <1>1, <1>4, <1>5a, <1>5b, <1>6, <2>1, ListedIsRange DEF HoldInv, HeldInv
  <2> QED
    BY <1>5, <1>5a, <2>1, <2>2 DEF HoldInv, KeptStep
<1>7. CASE mem' = [mem EXCEPT ![Target] = "freed"] /\ cpc[Target] = "done" /\ ppc # "post"
  <2>1. mem \in [Threads -> {"none", "live", "freed"}]
    BY DEF TypeOK
  <2>2. HeldInv'
    BY <1>1, <1>4, <1>5a, <1>5b, <1>7, <2>1, ListedIsRange DEF HoldInv, HeldInv
  <2>3. mem'[Target] = "freed"
    BY <1>1, <1>7, <2>1
  <2> QED
    BY <1>5, <1>5a, <2>2, <2>3 DEF HoldInv, KeptStep
<1> QED
  BY <1>6, <1>7

\* A started thread enters the list, or its pipe is deleted while it runs.
LEMMA InsertHold ==
    ASSUME TypeOK, HoldInv, Insert \/ InsertFails
    PROVE  HoldInv' /\ KeptStep
<1>0. ppc = "insert" /\ NextTarget /\ UNCHANGED <<alive, cpc, kill>>
  BY DEF Insert, InsertFails, At, childVars, pipeVars
<1>1. /\ Target \in Threads /\ Target \notin Listed /\ ToSet(todo) = {Target}
      /\ pop \notin {"kill", "teardown"} /\ Held = Listed \cup {Target}
  BY <1>0, TargetHeld DEF HoldInv, ListInv, CallInv, Held, ParentOn
<1>2. ppc' = "idle" /\ pop' = "none" /\ todo' \in Seq(Threads) /\ IsInjective(todo') /\ ToSet(todo') = {}
  BY <1>0, <1>1, NextMoves DEF HoldInv
<1>3. CallInv' /\ Held' = Listed' /\ \A t \in Threads : ~Given(t) /\ ~Given(t)' /\ ~ParentOn(t, {"reap", "join_get"})'
  BY <1>0, <1>1, <1>2 DEF CallInv, Held, Given, ParentOn
<1>4. CASE Insert
  <2>1. /\ threads' \in Seq(Threads) /\ IsInjective(threads')
        /\ ToSet(threads') = {Target} \cup ToSet(threads)
    BY <1>1, <1>4, ConsProperties, ListedIsRange DEF Insert, TypeOK, HoldInv, ListInv
  <2>2. Listed' = Held
    <3>1. Listed' = ToSet(threads')
      BY <2>1, LenProperties DEF Listed, ToSet
    <3> QED
      BY <1>1, <2>1, <3>1, ListedIsRange
  <2>3. ListInv'
    BY <1>2, <2>1 DEF ListInv
  <2>4. UNCHANGED mem
    BY <1>4 DEF Insert, pipeVars
  <2>4a. \A t \in Threads : Kept(t) => Kept(t)'
    BY <1>1, <1>3, <2>2 DEF Kept, ParentOn
  <2>5. HeldInv'
    BY <1>0, <1>1, <1>3, <2>2, <2>4, <2>4a, HeldKeeps, ListedIsRange DEF HoldInv
  <2> QED
    BY <1>3, <2>3, <2>4a, <2>5 DEF HoldInv, KeptStep
<1>5. CASE InsertFails
  <2>1. /\ UNCHANGED threads /\ mem' = [mem EXCEPT ![Target] = "freed"] /\ "insert" \in Faults
        /\ UNCHANGED Listed
    BY <1>5 DEF InsertFails, Listed
  <2>2. ListInv'
    BY <1>2, <2>1 DEF ListInv, HoldInv
  <2>3. mem \in [Threads -> {"none", "live", "freed"}]
    BY DEF TypeOK
  <2>3a. \A t \in Threads : Kept(t) => t = Target \/ Kept(t)'
    BY <1>1, <1>3, <2>1 DEF Kept, ParentOn
  <2>4. HeldInv'
    BY <1>0, <1>1, <1>3, <2>1, <2>3, <2>3a, ListedIsRange DEF HoldInv, HeldInv
  <2> QED
    BY <1>1, <1>3, <2>1, <2>2, <2>3, <2>3a, <2>4 DEF HoldInv, KeptStep
<1> QED
  BY <1>4, <1>5

\* A call begins: with one listed thread, with the whole list or with a new thread.
LEMMA CallHold ==
    ASSUME TypeOK, HoldInv, NEW op \in OpNames, Call(op)
    PROVE  HoldInv' /\ KeptStep
<1>0. /\ ppc = "idle" /\ pop' = op /\ ppc' \in {"find", "sample", "clear"} /\ ppc' = Entry(op)
      /\ UNCHANGED <<threads, mem, alive, kill, cpc, Listed>>
  BY DEF Call, At, Goto, Entry, pipeVars, childVars, Listed
<1>1. /\ \A t \in Threads : ~Given(t) /\ ~Given(t)' /\ (Kept(t) => Kept(t)')
      /\ Held = Listed /\ Held' = Listed
  BY <1>0 DEF HoldInv, CallInv, Given, ParentOn, Held, Entry, Kept
<1>2. /\ todo' \in Seq(Threads) /\ IsInjective(todo') /\ ToSet(todo') \subseteq Listed
      /\ op = "kill" => Len(todo') = 1
  <2>1. CASE \E t \in Listed : todo' = <<t>>
    <3>1. PICK t \in Listed : todo' = <<t>>
      BY <2>1
    <3>2. t \in Threads /\ Len(<<t>>) = 1 /\ DOMAIN <<t>> = {1} /\ <<t>> \in Seq(Threads) /\ <<t>>[1] = t
      BY ListedIsRange
    <3> QED
      BY <3>1, <3>2 DEF IsInjective, ToSet
  <2>2. CASE todo' = threads /\ op # "kill"
    BY <2>2, ListedIsRange DEF TypeOK, HoldInv, ListInv
  <2> QED
    BY <2>1, <2>2 DEF Call, WalksAll
<1>3. ListInv' /\ CallInv'
  BY <1>0, <1>2 DEF ListInv, CallInv, HoldInv, Entry
<1>4. \A t \in Threads : ~ParentOn(t, {"reap", "join_get"})'
  BY <1>0 DEF ParentOn
<1>5. HeldInv'
  BY <1>0, <1>1, <1>4, HeldKeeps, ListedIsRange DEF HoldInv
<1> QED
  BY <1>1, <1>3, <1>5 DEF HoldInv, KeptStep

LEMMA CreateHold ==
    ASSUME TypeOK, HoldInv, NEW t \in Threads, Create(t)
    PROVE  HoldInv' /\ KeptStep
<1>0. /\ ppc = "idle" /\ pop' = "thread" /\ ppc' = "insert" /\ todo' = <<t>>
      /\ UNCHANGED <<threads, kill, Listed>> /\ cpc[t] = "unborn"
      /\ mem' = [mem EXCEPT ![t] = "live"] /\ alive' = [alive EXCEPT ![t] = TRUE]
      /\ cpc' = [cpc EXCEPT ![t] = "boot"]
  BY DEF Create, At, ChildAt, Goto, Listed
<1>1. <<t>> \in Seq(Threads) /\ DOMAIN <<t>> = {1} /\ <<t>>[1] = t /\ Head(<<t>>) = t
  OBVIOUS
<1>2. Target' = t /\ IsInjective(todo') /\ ToSet(todo') = {t}
  BY <1>0, <1>1 DEF Target, IsInjective, ToSet
<1>3. /\ \A u \in Threads : ~Given(u) /\ ~Given(u)' /\ ~ParentOn(u, {"reap", "join_get"})'
      /\ Held = Listed /\ Held' = Listed \cup {t}
  BY <1>0, <1>2 DEF HoldInv, CallInv, Given, ParentOn, Held
<1>4. t \notin Listed
  BY <1>0, <1>3 DEF HoldInv, HeldInv
<1>5. ListInv' /\ CallInv'
  BY <1>0, <1>2, <1>4 DEF HoldInv, ListInv, CallInv
<1>6. /\ mem \in [Threads -> {"none", "live", "freed"}] /\ alive \in [Threads -> BOOLEAN]
      /\ cpc \in [Threads -> ChildLabels]
  BY DEF TypeOK
<1>6a. \A u \in Threads : (Kept(u) => Kept(u)') /\ (u = t => Kept(u)')
  BY <1>0, <1>2, <1>3 DEF Kept, ParentOn
<1>7. HeldInv'
  BY <1>0, <1>3, <1>6, <1>6a, ListedIsRange DEF HoldInv, HeldInv
<1> QED
  BY <1>5, <1>6a, <1>7 DEF HoldInv, KeptStep

\* Every step of the parent keeps who holds what.
LEMMA ParentHold ==
    ASSUME TypeOK, HoldInv, Parent
    PROVE  HoldInv' /\ KeptStep
<1>1. ASSUME NEW op \in OpNames, Call(op) PROVE HoldInv' /\ KeptStep
  BY <1>1, CallHold
<1>2. ASSUME NEW t \in Threads, Create(t) PROVE HoldInv' /\ KeptStep
  BY <1>2, CreateHold
<1>3. CASE Insert \/ InsertFails
  BY <1>3, InsertHold
<1>4. CASE Wait \/ GetLock \/ Join \/ PutLock \/ Put \/ Clear \/ SetKill \/ Sample
  BY <1>4, WithinHold
<1>5. CASE Find
  <2>1. CASE NextTarget
    <3>1. /\ ppc = "find" /\ UNCHANGED <<threads, mem, alive, cpc, kill>>
          /\ pop = "thrsta" \/ UNCHANGED todo
      BY <1>5 DEF Find, At, pipeVars, childVars
    <3>2. pop = "thrsta"
      <4>1. todo \in Seq(Threads) /\ todo # <<>> /\ todo' = Tail(todo)
        BY <2>1, <3>1, TargetIsThread DEF NextTarget
      <4>2. Len(todo') # Len(todo)
        BY <4>1, HeadTailProperties, LenProperties
      <4> QED
        BY <3>1, <4>2
    <3> QED
      BY <2>1, <3>1, <3>2, TreatedHold
  <2>2. CASE ~NextTarget
    BY <1>5, <2>2, WithinHold
  <2> QED
    BY <2>1, <2>2
<1>6. CASE Reap \/ JoinGet
  <2>1. /\ ppc \in {"reap", "join_get"} /\ NextTarget /\ UNCHANGED <<alive, cpc>> /\ Unlink(Target)
        /\ mem' = [mem EXCEPT ![Target] = "freed"]
    BY <1>6 DEF Reap, JoinGet, At, childVars
  <2>2. cpc[Target] = "done"
    BY <2>1, TargetIsThread DEF HoldInv, HeldInv, ParentOn
  <2> QED
    BY <2>1, <2>2, UnlinkedHold
<1>8. CASE Get \/ SetSuspend
  <2>1. /\ ppc \in {"get_in", "set_suspend"} /\ NextTarget /\ UNCHANGED <<threads, mem, alive, cpc>>
    BY <1>8 DEF Get, SetSuspend, At, childVars
  <2>2. pop \notin {"kill", "teardown"}
    BY <2>1 DEF HoldInv, CallInv
  <2> QED
    BY <2>1, <2>2, TreatedHold
<1>9. CASE Post
  <2>1. /\ ppc = "post" /\ NextTarget /\ UNCHANGED <<mem, alive, cpc>>
        /\ IF pop \in {"kill", "teardown"} THEN Unlink(Target) ELSE UNCHANGED threads
    BY <1>9 DEF Post, At, childVars
  <2>2. CASE pop \in {"kill", "teardown"}
    BY <2>1, <2>2, UnlinkedHold
  <2>3. CASE pop \notin {"kill", "teardown"}
    BY <2>1, <2>3, TreatedHold
  <2> QED
    BY <2>2, <2>3
<1>10. CASE ParentCrash
  <2>1. UNCHANGED <<threads, ppc, pop, todo, mem, alive, kill, cpc>>
    BY <1>10 DEF ParentCrash, Crash, pipeVars, childVars, parentVars
  <2> QED
    BY <2>1 DEF HoldInv, ListInv, CallInv, HeldInv, Held, Listed, Given, Kept,
        ParentOn, Target, KeptStep
<1> QED
  BY <1>1, <1>2, <1>3, <1>4, <1>5, <1>6, <1>8, <1>9, <1>10 DEF Parent

LEMMA HoldInit == Init => HoldInv
<1> SUFFICES ASSUME Init PROVE HoldInv
  OBVIOUS
<1>1. ToSet(<<>>) = {} /\ IsInjective(<<>>) /\ Listed = {} /\ Held = {}
  BY DEF Init, ToSet, IsInjective, Listed, Held, ParentOn
<1> QED
  BY <1>1 DEF Init, HoldInv, ListInv, CallInv, HeldInv, ParentOn

THEOREM HoldInvHolds == Spec => []HoldInv
<1>1. TypeInv /\ HoldInv /\ [Next]_vars => HoldInv'
  <2> SUFFICES ASSUME TypeInv, HoldInv, [Next]_vars PROVE HoldInv'
    OBVIOUS
  <2>1. CASE Next
    BY <2>1, ChildHold, ParentHold DEF Next, TypeInv
  <2>2. CASE UNCHANGED vars
    BY <2>2 DEF vars, pipeVars, childVars, parentVars, HoldInv, ListInv, CallInv, HeldInv, Held,
                Listed, Given, Kept, ParentOn, Target
  <2> QED
    BY <2>1, <2>2
<1> QED
  BY <1>1, HoldInit, TypeInvHolds, PTL DEF Spec

----------------------------------------------------------------------------
(* The locks, the wake-ups and the spare nodes of a pipe.                  *)

\* What holds of the two queues of one pipe: a lock is taken exactly while one side
\* is in its critical section, a queue with messages has used its spare node, and
\* its reader has a wake-up ahead.
QueueOK(t) ==
    /\ rep[t].lock = "child" <=> cpc[t] = "rep_in"
    /\ rep[t].lock = "parent" <=> ParentOn(t, {"get_in"})
    /\ note[t].lock = "child" <=> cpc[t] = "get_in"
    /\ note[t].lock = "parent" <=> ParentOn(t, {"put_in"})
    /\ rep[t].q # <<>> => /\ ~rep[t].spare
                          /\ \/ rep[t].sem > 0
                             \/ cpc[t] = "rep_sample"
                             \/ cpc[t] = "rep_post" /\ csam[t] = 0
                             \/ ParentOn(t, {"get_lock", "get_in"})
                             \/ rep[t].stuck
    /\ note[t].q # <<>> => /\ ~note[t].spare
                           /\ \/ note[t].sem > 0
                              \/ ParentOn(t, {"sample"})
                              \/ ParentOn(t, {"post"}) /\ psam = 0
                              \/ cpc[t] \in {"get_lock", "get_in"}
                              \/ note[t].stuck

QueueInv == \A t \in Threads : QueueOK(t)

\* The fields of a queue that its messages do not show.
Marks(c, d) == d.lock = c.lock /\ d.spare = c.spare /\ d.stuck = c.stuck

LEMMA AppendFields ==
    ASSUME NEW c \in QueueType
    PROVE  /\ Appended(c).lock = "free" /\ ~Appended(c).spare /\ Appended(c).stuck = c.stuck
           /\ NotAppended(c).lock = "free" /\ ~NotAppended(c).spare
           /\ NotAppended(c).stuck = c.stuck /\ NotAppended(c).q = c.q /\ NotAppended(c).sem = c.sem
BY DEF Appended, NotAppended, QueueType

LEMMA DrainFields ==
    ASSUME NEW c \in QueueType
    PROVE  /\ Drained(c).lock = "free" /\ Drained(c).q = <<>>
           /\ NotDrained(c).lock = "free" /\ NotDrained(c).spare = c.spare /\ NotDrained(c).q = c.q
           /\ c.q # <<>> => NotDrained(c).stuck
<1>1. Drained(c).lock = "free" /\ Drained(c).q = <<>>
  BY DEF Drained, QueueType
<1>2. NotDrained(c).lock = "free" /\ NotDrained(c).spare = c.spare /\ NotDrained(c).q = c.q
  BY DEF NotDrained, QueueType
<1>3. ASSUME c.q # <<>> PROVE NotDrained(c).stuck
  <2>1. NotDrained(c).stuck = (c.stuck \/ c.q # <<>>)
    BY DEF NotDrained, QueueType
  <2> QED
    BY <1>3, <2>1
<1> QED
  BY <1>1, <1>2, <1>3

LEMMA PostFields ==
    ASSUME NEW c \in QueueType, NEW n \in Nat
    PROVE  /\ Marks(c, Posted(c, n)) /\ Posted(c, n).q = c.q
           /\ Posted(c, n).sem = IF n = 0 THEN c.sem + 1 ELSE c.sem
<1>1. CASE n = 0
  BY <1>1 DEF Posted, QueueType, Marks
<1>2. CASE n # 0
  BY <1>2 DEF Posted, Marks
<1> QED
  BY <1>1, <1>2

LEMMA LockFields ==
    ASSUME NEW c \in QueueType, NEW l \in {"free", "child", "parent"}
    PROVE  LET d == [c EXCEPT !.lock = l]
           IN  d.lock = l /\ d.q = c.q /\ d.spare = c.spare /\ d.sem = c.sem /\ d.stuck = c.stuck
BY DEF QueueType

LEMMA TakenFields ==
    ASSUME NEW c \in QueueType, NEW d, d = [c EXCEPT !.sem = @ - 1]
    PROVE  Marks(c, d) /\ d.q = c.q
BY DEF QueueType, Marks

\* A child's step keeps the queues of every pipe in order: those of the other
\* threads stay as they are.
LEMMA ChildQueues ==
    ASSUME TypeInv, QueueInv, NEW t \in Threads, Child(t)
    PROVE  QueueInv'
<1>0. /\ rep[t] \in QueueType /\ note[t] \in QueueType /\ csam[t] \in Nat
      /\ rep \in [Threads -> QueueType] /\ note \in [Threads -> QueueType]
      /\ cpc \in [Threads -> ChildLabels] /\ csam \in [Threads -> Nat]
      /\ rep[t].sem \in Nat /\ note[t].sem \in Nat /\ QueueOK(t)
  BY DEF TypeInv, TypeOK, QueueType, QueueInv
<1>1. UNCHANGED <<ppc, psam, todo, Target>> /\ \A u, L : ParentOn(u, L)' <=> (ppc \in L /\ Target = u)
  BY DEF Boot, ParaGet, Script, ReportLock, ReportAppend, ChildSample, ChildPost,
         ChildWait, ChildGetLock, ChildGet, Check, ClearSuspend, Resumed,
         ExitAlive, ExitClear, ExitDelete, ChildCrash, Child, Crash, parentVars, Target, ParentOn
<1>2. ASSUME QueueOK(t)',
             \A u \in Threads \ {t} : /\ rep'[u] = rep[u] /\ note'[u] = note[u]
                                      /\ cpc'[u] = cpc[u] /\ csam'[u] = csam[u]
      PROVE  QueueInv'
  <2>1. ASSUME NEW u \in Threads, u # t PROVE QueueOK(u)'
    <3>1. rep'[u] = rep[u] /\ note'[u] = note[u] /\ cpc'[u] = cpc[u] /\ csam'[u] = csam[u] /\ QueueOK(u)
      BY <1>2, <2>1 DEF QueueInv
    <3> QED
      BY <1>1, <3>1 DEF QueueOK, ParentOn
  <2> QED
    BY <1>2, <2>1 DEF QueueInv
<1>3. \A u \in Threads \ {t} : /\ rep'[u] = rep[u] /\ note'[u] = note[u]
                               /\ cpc'[u] = cpc[u] /\ csam'[u] = csam[u]
  <2>1. \/ UNCHANGED rep \/ \E d : rep' = [rep EXCEPT ![t] = d]
    BY DEF Boot, ParaGet, Script, ReportLock, ReportAppend, ChildSample, ChildPost,
         ChildWait, ChildGetLock, ChildGet, Check, ClearSuspend, Resumed,
         ExitAlive, ExitClear, ExitDelete, ChildCrash, Child, Crash, pipeVars
  <2>2. \/ UNCHANGED note \/ \E d : note' = [note EXCEPT ![t] = d]
    BY DEF Boot, ParaGet, Script, ReportLock, ReportAppend, ChildSample, ChildPost,
         ChildWait, ChildGetLock, ChildGet, Check, ClearSuspend, Resumed,
         ExitAlive, ExitClear, ExitDelete, ChildCrash, Child, Crash, pipeVars
  <2>3. /\ UNCHANGED cpc \/ \E d : cpc' = [cpc EXCEPT ![t] = d]
        /\ UNCHANGED csam \/ \E d : csam' = [csam EXCEPT ![t] = d]
    BY DEF Boot, ParaGet, Script, ReportLock, ReportAppend, ChildSample, ChildPost,
         ChildWait, ChildGetLock, ChildGet, Check, ClearSuspend, Resumed,
         ExitAlive, ExitClear, ExitDelete, ChildCrash, Child, Crash, childVars, ChildGoto
  <2> QED
    BY <1>0, <2>1, <2>2, <2>3
<1>4. QueueOK(t)'
  <2>1. CASE Boot(t) \/ ParaGet(t) \/ Script(t) \/ Check(t) \/ ClearSuspend(t)
             \/ ExitAlive(t) \/ ExitClear(t) \/ ExitDelete(t) \/ ChildCrash(t)
    <3>1. /\ UNCHANGED <<rep, note>>
          /\ \/ UNCHANGED <<cpc, csam>>
             \/ /\ UNCHANGED csam /\ cpc[t] \notin {"rep_in", "get_in", "rep_sample", "rep_post", "get_lock"}
                /\ \E l \in ChildLabels \ {"rep_in", "get_in"} : cpc' = [cpc EXCEPT ![t] = l]
      BY <2>1 DEF Boot, ParaGet, Script, Check, ClearSuspend, ExitAlive, ExitClear, ExitDelete,
         ChildCrash, Crash, childVars, pipeVars, ChildGoto, ChildAt, ChildLabels, ChildAccess
    <3> QED
      BY <1>0, <1>1, <2>1, <3>1 DEF QueueOK, ParentOn
  <2>2. CASE ChildSample(t)
    <3>1. /\ UNCHANGED <<rep, note>> /\ csam'[t] = rep[t].sem
          /\ cpc[t] \in {"rep_sample", "init_sample", "exit_sample"}
          /\ cpc'[t] \in {"rep_post", "init_post", "exit_post"} /\ (cpc[t] = "rep_sample" => cpc'[t] = "rep_post")
      BY <1>0, <2>2 DEF ChildSample, pipeVars, ChildAt, ChildGoto
    <3> QED
      BY <1>0, <1>1, <3>1 DEF QueueOK, ParentOn
  <2>3. CASE ReportLock(t)
    <3>1. /\ rep'[t] = [rep[t] EXCEPT !.lock = "child"] /\ UNCHANGED note /\ rep[t].lock = "free"
          /\ cpc[t] = "rep_lock" /\ cpc'[t] = "rep_in"
      BY <1>0, <2>3 DEF ReportLock, ChildAt, ChildGoto
    <3>2. /\ rep'[t].lock = "child" /\ rep'[t].q = rep[t].q /\ rep'[t].spare = rep[t].spare
          /\ rep'[t].sem = rep[t].sem /\ rep'[t].stuck = rep[t].stuck
      BY <1>0, <3>1, LockFields
    <3> QED
      BY <1>0, <1>1, <3>1, <3>2 DEF QueueOK, ParentOn
  <2>4. CASE ReportAppend(t)
    <3>1. /\ rep'[t] \in {Appended(rep[t]), NotAppended(rep[t])} /\ UNCHANGED note
          /\ cpc[t] = "rep_in" /\ cpc'[t] = "rep_sample"
      BY <1>0, <2>4 DEF ReportAppend, ChildAt, ChildGoto
    <3>2. rep'[t].lock = "free" /\ ~rep'[t].spare
      BY <1>0, <3>1, AppendFields
    <3> QED
      BY <1>0, <1>1, <3>1, <3>2 DEF QueueOK, ParentOn
  <2>5. CASE ChildPost(t)
    <3>1. /\ rep'[t] = Posted(rep[t], csam[t]) /\ UNCHANGED note
          /\ cpc[t] \in {"rep_post", "init_post", "exit_post"} /\ cpc'[t] \in {"run", "exit_sample", "exit_alive"}
      BY <1>0, <2>5 DEF ChildPost, ChildAt, ChildGoto
    <3>2. /\ Marks(rep[t], rep'[t]) /\ rep'[t].q = rep[t].q
          /\ rep'[t].sem = IF csam[t] = 0 THEN rep[t].sem + 1 ELSE rep[t].sem
      BY <1>0, <3>1, PostFields
    <3> QED
      BY <1>0, <1>1, <3>1, <3>2 DEF QueueOK, ParentOn, Marks
  <2>6. CASE ChildWait(t)
    <3>1. /\ note'[t] = [note[t] EXCEPT !.sem = @ - 1] /\ UNCHANGED rep /\ note[t].sem > 0
          /\ cpc[t] = "wait_sem" /\ cpc'[t] = "get_lock"
      BY <1>0, <2>6 DEF ChildWait, ChildAt, ChildGoto
    <3>2. Marks(note[t], note'[t]) /\ note'[t].q = note[t].q
      BY <1>0, <3>1, TakenFields
    <3> QED
      BY <1>0, <1>1, <3>1, <3>2 DEF QueueOK, ParentOn, Marks
  <2>7. CASE ChildGetLock(t)
    <3>1. /\ note'[t] = [note[t] EXCEPT !.lock = "child"] /\ UNCHANGED rep /\ note[t].lock = "free"
          /\ cpc[t] = "get_lock" /\ cpc'[t] = "get_in"
      BY <1>0, <2>7 DEF ChildGetLock, ChildAt, ChildGoto
    <3>2. /\ note'[t].lock = "child" /\ note'[t].q = note[t].q /\ note'[t].spare = note[t].spare
      BY <1>0, <3>1, LockFields
    <3> QED
      BY <1>0, <1>1, <3>1, <3>2 DEF QueueOK, ParentOn
  <2>8. CASE ChildGet(t)
    <3>1. /\ note'[t] \in {Drained(note[t]), NotDrained(note[t])} /\ UNCHANGED rep
          /\ cpc[t] = "get_in" /\ cpc'[t] = "run"
      BY <1>0, <2>8 DEF ChildGet, ChildAt, ChildGoto
    <3>2. /\ note'[t].lock = "free"
          /\ \/ note'[t].q = <<>>
             \/ /\ note'[t].q = note[t].q /\ note'[t].spare = note[t].spare
                /\ note[t].q # <<>> => note'[t].stuck
      BY <1>0, <3>1, DrainFields
    <3> QED
      BY <1>0, <1>1, <3>1, <3>2 DEF QueueOK, ParentOn
  <2>9. CASE Resumed(t)
    <3>1. PICK b \in BOOLEAN : b = (note[t].q # <<>>)
      OBVIOUS
    <3>2. /\ note'[t] = [note[t] EXCEPT !.sem = @ - 1, !.stuck = @ \/ b] /\ UNCHANGED rep
          /\ note[t].sem > 0 /\ cpc[t] = "suspended" /\ cpc'[t] = "run"
      BY <1>0, <2>9, <3>1 DEF Resumed, ChildAt, ChildGoto
    <3>3. PICK c : c = note[t]
      OBVIOUS
    <3>4. PICK d : d = [c EXCEPT !.sem = @ - 1, !.stuck = @ \/ b]
      OBVIOUS
    <3>5. d.lock = c.lock /\ d.q = c.q /\ d.spare = c.spare /\ (b => d.stuck)
      BY <1>0, <3>3, <3>4 DEF QueueType
    <3>6. note'[t] = d
      BY <3>2, <3>3, <3>4
    <3> QED
      BY <1>0, <1>1, <3>1, <3>2, <3>3, <3>5, <3>6 DEF QueueOK, ParentOn
  <2> QED
    BY <2>1, <2>2, <2>3, <2>4, <2>5, <2>6, <2>7, <2>8, <2>9
    DEF Child, Boot, ParaGet, Script, Check, ClearSuspend, ExitAlive, ExitClear, ExitDelete,
        ChildCrash, Crash, pipeVars
<1> QED
  BY <1>2, <1>3, <1>4

\* The parent's step does: it works on the queues of the thread it treats.
LEMMA ParentQueues ==
    ASSUME TypeInv, QueueInv, Parent
    PROVE  QueueInv'
<1>0. /\ rep \in [Threads -> QueueType] /\ note \in [Threads -> QueueType] /\ psam \in Nat
      /\ cpc \in [Threads -> ChildLabels] /\ csam \in [Threads -> Nat]
      /\ \A u \in Threads : rep[u].sem \in Nat /\ note[u].sem \in Nat /\ QueueOK(u)
  BY DEF TypeInv, TypeOK, QueueType, QueueInv
<1> DEFINE In == {"get_lock", "get_in", "put_in", "sample", "post"}
           Same(u) == rep'[u] = rep[u] /\ note'[u] = note[u] /\ csam'[u] = csam[u]
<1>1. ASSUME NEW u \in Threads, Same(u), ~ParentOn(u, In), ~ParentOn(u, {"get_in", "put_in"})',
             \/ cpc'[u] = cpc[u]
             \/ cpc[u] = "unborn" /\ cpc'[u] = "boot"
      PROVE  QueueOK(u)'
  BY <1>0, <1>1 DEF QueueOK, ParentOn
<1>2. UNCHANGED csam
  BY DEF Parent, Call, Create, Insert, InsertFails, Find, Reap, Wait, GetLock, Get, Join,
         JoinGet, PutLock, Put, SetSuspend, Clear, SetKill, Sample, Post, ParentCrash,
         Crash, childVars
<1>3. ASSUME (\E op \in OpNames : Call(op)) \/ Insert \/ InsertFails \/ Find \/ Join \/ SetSuspend
             \/ Clear \/ SetKill
      PROVE  QueueInv'
  <2>1. /\ UNCHANGED <<rep, note, cpc>> /\ ppc \notin In /\ ppc' \notin {"get_in", "put_in"}
    BY <1>3 DEF Call, Insert, InsertFails, Find, Join, SetSuspend, Clear, SetKill, At, Goto, Entry,
       AfterFind, NextTarget, pipeVars, childVars
  <2> QED
    BY <1>1, <1>2, <2>1 DEF QueueInv, ParentOn
<1>4. ASSUME NEW t \in Threads, Create(t) PROVE QueueInv'
  <2>1. /\ UNCHANGED <<rep, note>> /\ ppc \notin In /\ ppc' \notin {"get_in", "put_in"}
        /\ cpc[t] = "unborn" /\ cpc' = [cpc EXCEPT ![t] = "boot"]
    BY <1>4 DEF Create, At, Goto, ChildAt
  <2> QED
    BY <1>0, <1>1, <1>2, <2>1 DEF QueueInv, ParentOn
<1>5. CASE ParentCrash
  <2>1. UNCHANGED <<rep, note, cpc, csam, ppc, todo, psam>>
    BY <1>5 DEF ParentCrash, Crash, pipeVars, childVars, parentVars
  <2> QED
    BY <2>1 DEF QueueInv, QueueOK, ParentOn, Target
<1>6. ASSUME Reap \/ Wait \/ GetLock \/ Get \/ JoinGet \/ PutLock \/ Put \/ Sample \/ Post
      PROVE  QueueInv'
  <2>0. PICK t \in Threads : t = Target
    BY <1>6, TargetIsThread DEF TypeInv, Reap, Wait, GetLock, Get, JoinGet, PutLock, Put, Sample, Post, At
  <2>1. /\ rep[t] \in QueueType /\ note[t] \in QueueType /\ QueueOK(t)
        /\ rep[t].sem \in Nat /\ note[t].sem \in Nat /\ rep[t].lock \in {"free", "child", "parent"}
    BY <1>0 DEF QueueType
  <2>2. UNCHANGED cpc
    BY <1>6 DEF Reap, Wait, GetLock, Get, JoinGet, PutLock, Put, Sample, Post, childVars
  <2>3. Target' = Target \/ ppc' \in {"find", "idle", "gone"}
    BY <1>6 DEF Target, Reap, Wait, GetLock, Get, JoinGet, PutLock, Put, Sample, Post, NextTarget, Goto
  <2>4. ASSUME NEW u \in Threads, u # t PROVE QueueOK(u)'
    <3>1. Same(u)
      <4>1. /\ UNCHANGED rep \/ \E d : rep' = [rep EXCEPT ![t] = d]
            /\ UNCHANGED note \/ \E d : note' = [note EXCEPT ![t] = d]
        BY <1>6, <2>0 DEF Reap, Wait, GetLock, Get, JoinGet, PutLock, Put, Sample, Post, pipeVars
      <4> QED
        BY <1>0, <1>2, <2>4, <4>1
    <3>2. ~ParentOn(u, In) /\ ~ParentOn(u, {"get_in", "put_in"})'
      BY <2>0, <2>3, <2>4 DEF ParentOn
    <3> QED
      BY <1>1, <2>2, <3>1, <3>2
  <2>5. QueueOK(t)'
    <3>1. CASE Reap \/ JoinGet
      <4>1. /\ ppc \in {"reap", "join_get"} /\ ppc' \in {"find", "idle", "gone"} /\ UNCHANGED note
            /\ rep'[t] = rep[t] \/ rep'[t] = [Drained(rep[t]) EXCEPT !.lock = rep[t].lock]
        BY <1>0, <2>0, <3>1 DEF Reap, JoinGet, At, Goto, NextTarget
      <4>2. Drained(rep[t]) \in QueueType /\ Drained(rep[t]).q = <<>>
        BY <2>1, DrainedIsQueue
      <4>3. [Drained(rep[t]) EXCEPT !.lock = rep[t].lock].lock = rep[t].lock
            /\ [Drained(rep[t]) EXCEPT !.lock = rep[t].lock].q = <<>>
        BY <2>1, <4>2, LockFields
      <4>4. \/ rep'[t] = rep[t]
            \/ rep'[t].lock = rep[t].lock /\ rep'[t].q = <<>>
        BY <4>1, <4>3
      <4> QED
        BY <1>2, <2>1, <2>2, <4>1, <4>4 DEF QueueOK, ParentOn
    <3>2. CASE Wait
      <4>1. /\ ppc = "wait_sem" /\ ppc' = "get_lock" /\ UNCHANGED note /\ Target' = t
            /\ rep'[t] = [rep[t] EXCEPT !.sem = @ - 1]
        BY <1>0, <2>0, <3>2 DEF Wait, At, Goto, Target
      <4>2. Marks(rep[t], rep'[t]) /\ rep'[t].q = rep[t].q
        BY <2>1, <4>1, TakenFields
      <4> QED
        BY <1>2, <2>1, <2>2, <4>1, <4>2 DEF QueueOK, ParentOn, Marks
    <3>3. CASE GetLock
      <4>1. /\ ppc = "get_lock" /\ ppc' = "get_in" /\ UNCHANGED note /\ Target' = t
            /\ rep'[t] = [rep[t] EXCEPT !.lock = "parent"] /\ rep[t].lock = "free"
        BY <1>0, <2>0, <3>3 DEF GetLock, At, Goto, Target
      <4>2. rep'[t].lock = "parent" /\ rep'[t].q = rep[t].q /\ rep'[t].spare = rep[t].spare
        BY <2>1, <4>1, LockFields
      <4> QED
        BY <1>2, <2>0, <2>1, <2>2, <4>1, <4>2 DEF QueueOK, ParentOn
    <3>4. CASE Get
      <4>1. /\ ppc = "get_in" /\ ppc' \in {"find", "idle", "gone"} /\ UNCHANGED note
            /\ rep'[t] \in {Drained(rep[t]), NotDrained(rep[t])}
        BY <1>0, <2>0, <3>4 DEF Get, At, Goto, NextTarget
      <4>2. /\ rep'[t].lock = "free"
            /\ \/ rep'[t].q = <<>>
               \/ /\ rep'[t].q = rep[t].q /\ rep'[t].spare = rep[t].spare
                  /\ rep[t].q # <<>> => rep'[t].stuck
        BY <2>1, <4>1, DrainFields
      <4> QED
        BY <1>2, <2>0, <2>1, <2>2, <4>1, <4>2 DEF QueueOK, ParentOn
    <3>5. CASE PutLock
      <4>1. /\ ppc = "put_lock" /\ ppc' = "put_in" /\ UNCHANGED rep /\ Target' = t
            /\ note'[t] = [note[t] EXCEPT !.lock = "parent"] /\ note[t].lock = "free"
        BY <1>0, <2>0, <3>5 DEF PutLock, At, Goto, Target
      <4>2. /\ note'[t].lock = "parent" /\ note'[t].q = note[t].q /\ note'[t].spare = note[t].spare
            /\ note'[t].sem = note[t].sem /\ note'[t].stuck = note[t].stuck
        BY <2>1, <4>1, LockFields
      <4> QED
        BY <1>2, <2>0, <2>1, <2>2, <4>1, <4>2 DEF QueueOK, ParentOn
    <3>6. CASE Put
      <4>1. /\ ppc = "put_in" /\ ppc' = "sample" /\ UNCHANGED rep /\ Target' = t
            /\ note'[t] \in {Appended(note[t]), NotAppended(note[t])}
        BY <1>0, <2>0, <3>6 DEF Put, At, Goto, Target
      <4>2. note'[t].lock = "free" /\ ~note'[t].spare
        BY <2>1, <4>1, AppendFields
      <4> QED
        BY <1>2, <2>0, <2>1, <2>2, <4>1, <4>2 DEF QueueOK, ParentOn
    <3>7. CASE Sample
      <4>1. /\ ppc = "sample" /\ ppc' = "post" /\ UNCHANGED <<rep, note>> /\ Target' = t
            /\ psam' = note[t].sem
        BY <2>0, <3>7 DEF Sample, At, Goto, Target, pipeVars
      <4> QED
        BY <1>2, <2>0, <2>1, <2>2, <4>1 DEF QueueOK, ParentOn
    <3>8. CASE Post
      <4>1. /\ ppc = "post" /\ ppc' \in {"find", "idle", "gone"} /\ UNCHANGED rep
            /\ note'[t] = Posted(note[t], psam)
        BY <1>0, <2>0, <3>8 DEF Post, At, Goto, NextTarget
      <4>2. /\ Marks(note[t], note'[t]) /\ note'[t].q = note[t].q
            /\ note'[t].sem = IF psam = 0 THEN note[t].sem + 1 ELSE note[t].sem
        BY <1>0, <2>1, <4>1, PostFields
      <4> QED
        BY <1>0, <1>2, <2>0, <2>1, <2>2, <4>1, <4>2 DEF QueueOK, ParentOn, Marks
    <3> QED
      BY <1>6, <3>1, <3>2, <3>3, <3>4, <3>5, <3>6, <3>7, <3>8
  <2> QED
    BY <2>4, <2>5 DEF QueueInv
<1> QED
  BY <1>3, <1>4, <1>5, <1>6 DEF Parent

LEMMA QueueInit == Init => QueueInv
BY DEF Init, QueueInv, QueueOK, EmptyQueue, ParentOn

THEOREM QueueInvHolds == Spec => []QueueInv
<1>1. TypeInv /\ QueueInv /\ [Next]_vars => QueueInv'
  <2> SUFFICES ASSUME TypeInv, QueueInv, [Next]_vars PROVE QueueInv'
    OBVIOUS
  <2>1. CASE Next
    BY <2>1, ChildQueues, ParentQueues DEF Next
  <2>2. CASE UNCHANGED vars
    BY <2>2 DEF vars, pipeVars, childVars, parentVars, QueueInv, QueueOK, ParentOn, Target
  <2> QED
    BY <2>1, <2>2
<1> QED
  BY <1>1, QueueInit, TypeInvHolds, PTL DEF Spec

\* Neither direction of a pipe loses a wake-up.
THEOREM NoLostWakeupHolds == Spec => []NoLostWakeup
<1>1. QueueInv => NoLostWakeup
  BY DEF QueueInv, QueueOK, NoLostWakeup, NoLostReport, NoLostNote
<1> QED
  BY <1>1, QueueInvHolds, PTL

\* The two sides never work on one queue at the same time: under the lock they
\* exclude each other, and without it the parent works only after the child ended.
THEOREM RaceFreeHolds == Spec => []RaceFree
<1>1. QueueInv /\ HoldInv => RaceFree
  BY DEF QueueInv, QueueOK, HoldInv, HeldInv, RaceFree, ParentOn
<1> QED
  BY <1>1, QueueInvHolds, HoldInvHolds, PTL

\* An access to a freed pipe happens in the three windows only.
LEMMA FaultsKnown ==
    ASSUME TypeInv, HoldInv, KnownFaults, Next
    PROVE  KnownFaults'
<1>1. \/ fault = NoFault /\ UNCHANGED fault
      \/ \E t \in Threads : ChildCrash(t)
      \/ ParentCrash
  <2>1. ASSUME NEW t \in Threads, Child(t)
        PROVE  (fault = NoFault /\ UNCHANGED fault) \/ ChildCrash(t)
    BY <2>1 DEF Child, Boot, ParaGet, Script, ReportLock, ReportAppend, ChildSample, ChildPost,
         ChildWait, ChildGetLock, ChildGet, Check, ClearSuspend, Resumed, ExitAlive, ExitClear, ExitDelete, Touch
  <2>2. ASSUME Parent PROVE (fault = NoFault /\ UNCHANGED fault) \/ ParentCrash
    <3>1. CASE \/ \E op \in OpNames : Call(op)
               \/ \E t \in Threads : Create(t)
               \/ Insert \/ InsertFails \/ Find \/ Reap
      BY <3>1 DEF Call, Create, Insert, InsertFails, Find, Reap, Touch
    <3>2. CASE Wait \/ GetLock \/ Get \/ Join \/ JoinGet
      BY <3>2 DEF Wait, GetLock, Get, Join, JoinGet, Touch
    <3>3. CASE PutLock \/ Put \/ SetSuspend \/ Clear \/ SetKill \/ Sample \/ Post
      BY <3>3 DEF PutLock, Put, SetSuspend, Clear, SetKill, Sample, Post, Touch
    <3> QED
      BY <2>2, <3>1, <3>2, <3>3 DEF Parent
  <2> QED
    BY <2>1, <2>2 DEF Next
<1>2. CASE fault = NoFault /\ UNCHANGED fault
  BY <1>2 DEF KnownFaults
<1>3. ASSUME NEW t \in Threads, ChildCrash(t) PROVE KnownFaults'
  <2>1. mem[t] = "freed" /\ cpc[t] \in ChildAccess /\ fault' = <<"child", cpc[t]>>
    BY <1>3 DEF ChildCrash, Crash
  <2>2. "insert" \in Faults
    BY <2>1 DEF HoldInv, HeldInv, ChildAccess
  <2> QED
    BY <2>1, <2>2 DEF KnownFaults
<1>4. CASE ParentCrash
  <2>1. /\ mem[Target] = "freed" /\ ppc \in ParentAccess /\ fault' = <<"parent", ppc>> /\ UNCHANGED pop
    BY <1>4 DEF ParentCrash, Crash, parentVars
  <2>2. Target \in Held /\ Target \in ToSet(todo)
    BY <2>1, TargetHeld DEF TypeInv, HoldInv, ParentAccess
  <2>3. Given(Target)
    BY <2>1, <2>2 DEF HoldInv, HeldInv
  <2>4. pop \in {"kill", "teardown"} /\ ppc \in {"set_kill", "sample", "post"}
    BY <2>1, <2>2, <2>3 DEF Given, ParentOn, ParentAccess
  <2> QED
    BY <2>1, <2>4 DEF KnownFaults
<1> QED
  BY <1>1, <1>2, <1>3, <1>4

\* A pipe is lost at one place: where the parent clears alive of a child that is
\* past its look at it.
LEMMA LostStep ==
    ASSUME TypeInv, HoldInv, Next, NEW t \in Threads, ~Orphan(t), Orphan(t)'
    PROVE  ppc = "clear" /\ Target = t /\ cpc[t] \in {"exit_clear", "done"}
<1>0. /\ mem'[t] = "live" /\ cpc'[t] \in {"exit_clear", "done"} /\ ~Kept(t)'
      /\ mem \in [Threads -> {"none", "live", "freed"}] /\ cpc \in [Threads -> ChildLabels]
      /\ TypeOK
  BY DEF Orphan, TypeInv, TypeOK
<1>1. ASSUME NEW u \in Threads, Child(u) PROVE FALSE
  <2>1. UNCHANGED <<threads, ppc, pop, todo>>
    BY <1>0, <1>1, ChildMoves
  <2>2. ~Kept(t)
    BY <1>0, <2>1 DEF Kept, Given, Listed, ParentOn, Target
  <2>3. mem[t] = "live" /\ cpc[t] \notin {"exit_clear", "done"} => ~alive[t]
    BY <2>2 DEF HoldInv, HeldInv
  <2>4. ~(mem[t] = "live" /\ cpc[t] \in {"exit_clear", "done"})
    BY <2>2 DEF Orphan
  <2> QED
    BY <1>0, <1>1, <2>3, <2>4, ChildMoves
<1>2. CASE Parent
  <2>1. KeptStep
    BY <1>0, <1>2, ParentHold
  <2>2. \/ UNCHANGED cpc /\ (mem[t] = "live" \/ mem' = mem)
        \/ \E u \in Threads : cpc' = [cpc EXCEPT ![u] = "boot"] /\ mem' = [mem EXCEPT ![u] = "live"]
    <3>1. ASSUME NEW u \in Threads, Create(u)
          PROVE  cpc' = [cpc EXCEPT ![u] = "boot"] /\ mem' = [mem EXCEPT ![u] = "live"]
      BY <3>1 DEF Create
    <3>2. CASE \/ \E op \in OpNames : Call(op)
               \/ Insert \/ Find \/ Wait \/ GetLock \/ Get \/ Join \/ PutLock \/ Put
               \/ SetSuspend \/ Clear \/ SetKill \/ Sample \/ Post \/ ParentCrash
      BY <3>2 DEF Call, Insert, Find, Wait, GetLock, Get, Join, PutLock, Put, SetSuspend, Clear,
             SetKill, Sample, Post, ParentCrash, Crash, pipeVars, childVars
    <3>3. CASE InsertFails \/ Reap \/ JoinGet
      <4>1. UNCHANGED cpc /\ mem' = [mem EXCEPT ![Target] = "freed"]
        BY <3>3 DEF InsertFails, Reap, JoinGet, childVars
      <4> QED
        BY <1>0, <4>1
    <3> QED
      BY <1>2, <3>1, <3>2, <3>3 DEF Parent
  <2>3. cpc[t] = cpc'[t] /\ mem[t] = "live"
    BY <1>0, <2>2
  <2>4. Kept(t)
    BY <1>0, <2>3 DEF Orphan
  <2> QED
    BY <1>0, <2>1, <2>3, <2>4 DEF KeptStep
<1> QED
  BY <1>1, <1>2 DEF Next

\* The memory of a pipe is given back by the last side that can reach it: a freed
\* pipe is accessed in the three windows only, a live one is lost only where alive
\* is cleared too late for the child, and no spare node is overwritten.
THEOREM PipesFreedOnceHolds == Spec => PipesFreedOnce
<1>1. Init => KnownFaults
  BY DEF Init, KnownFaults
<1>2. TypeInv /\ HoldInv /\ KnownFaults /\ [Next]_vars => KnownFaults'
  BY FaultsKnown DEF vars, parentVars, KnownFaults
<1>3. TypeInv /\ HoldInv /\ [Next]_vars =>
        [ \A t \in Threads : ~Orphan(t) /\ Orphan(t)' =>
             /\ ppc = "clear" /\ Target = t
             /\ cpc[t] \in {"exit_clear", "done"} ]_vars
  BY LostStep
<1>4. QueueInv => SpareFree
  <2> SUFFICES ASSUME QueueInv, NEW t \in Threads, NEW c \in {rep[t], note[t]}, c.q # <<>>
               PROVE  ~c.spare
    BY DEF SpareFree
  <2> QED
    BY DEF QueueInv, QueueOK
<1>5. Spec => [](TypeInv /\ HoldInv /\ QueueInv)
  BY TypeInvHolds, HoldInvHolds, QueueInvHolds, PTL
<1>6. Spec => [](KnownFaults /\ SpareFree)
  BY <1>1, <1>2, <1>4, <1>5, PTL DEF Spec
<1>7. Spec => LostByClearOnly
  BY <1>3, <1>5, PTL DEF Spec, LostByClearOnly
<1> QED
  BY <1>6, <1>7 DEF PipesFreedOnce

\* A pipe deleted by wait, listen or waitfor has handed out all its child reported.
LEMMA ReadersGetAllStep ==
    ASSUME TypeInv, Fifo, HoldInv, [Next]_vars,
           NEW t \in Threads, mem[t] = "live", mem'[t] = "freed", "get" \notin Faults,
           ParentOn(t, {"join_get"}) \/ (ParentOn(t, {"reap"}) /\ pop \in {"wait", "listen"})
    PROVE  rep'[t].recv = rep'[t].sent
<1>0. /\ rep \in [Threads -> QueueType] /\ rep[t] \in QueueType /\ InOrder(rep[t])
      /\ mem \in [Threads -> {"none", "live", "freed"}]
      /\ Target = t /\ ppc \in {"join_get", "reap"} /\ cpc[t] = "done"
      /\ rep[t].lock \in {"free", "child", "parent"}
  BY DEF TypeInv, TypeOK, Fifo, HoldInv, HeldInv, ParentOn, QueueType
<1>1. Reap \/ JoinGet
  <2>1. mem' # mem
    BY <1>0
  <2>2. ASSUME NEW u \in Threads, Child(u) PROVE FALSE
    <3>1. cpc[u] = "exit_delete" /\ mem' = [mem EXCEPT ![u] = "freed"]
      BY <2>1, <2>2, ChildMoves DEF TypeInv
    <3>2. u = t
      BY <1>0, <3>1
    <3> QED
      BY <1>0, <3>1, <3>2
  <2>3. Parent
    BY <2>1, <2>2 DEF Next, vars, pipeVars
  <2> QED
    BY <1>0, <2>1, <2>3 DEF Parent, Call, Create, Insert, InsertFails, Find, Wait, GetLock, Get, Join,
         PutLock, Put, SetSuspend, Clear, SetKill, Sample, Post, ParentCrash, Crash, pipeVars, At
<1>2. \/ rep'[t] = [Drained(rep[t]) EXCEPT !.lock = rep[t].lock]
      \/ rep'[t] = rep[t] /\ rep[t].q = <<>>
  BY <1>0, <1>1 DEF Reap, JoinGet, At, ParentOn
<1>3. CASE rep'[t] = [Drained(rep[t]) EXCEPT !.lock = rep[t].lock]
  <2>1. PICK d \in QueueType : d = Drained(rep[t]) /\ d.recv = rep[t].sent /\ d.sent = rep[t].sent
    BY <1>0, DrainedIsQueue
  <2>2. SameMessages(d, [d EXCEPT !.lock = rep[t].lock])
    BY <1>0 DEF QueueType, SameMessages
  <2> QED
    BY <1>3, <2>1, <2>2 DEF SameMessages
<1>4. CASE rep'[t] = rep[t] /\ rep[t].q = <<>>
  <2>1. Len(rep[t].q) = 0 /\ Len(rep[t].q) = rep[t].sent - rep[t].recv
    BY <1>0, <1>4 DEF InOrder
  <2> QED
    BY <1>0, <1>4, <2>1 DEF QueueType
<1> QED
  BY <1>2, <1>3, <1>4

\* What a child reported last is handed out, unless an allocation fails.
THEOREM ReadersGetAllHolds == Spec => ReadersGetAll
<1>1. TypeInv /\ Fifo /\ HoldInv /\ [Next]_vars =>
        [ \A t \in Threads :
            (/\ mem[t] = "live" /\ mem'[t] = "freed"
             /\ ParentOn(t, {"join_get"}) \/ (ParentOn(t, {"reap"}) /\ pop \in {"wait", "listen"})
             /\ "get" \notin Faults)
            => rep'[t].recv = rep'[t].sent ]_vars
  BY ReadersGetAllStep
<1> QED
  BY <1>1, TypeInvHolds, FifoHolds, HoldInvHolds, PTL DEF Spec, ReadersGetAll

=============================================================================
