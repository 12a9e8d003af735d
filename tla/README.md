# TLA+ models and proofs for the CZL interpreter

CZL (`src/code`) is a scripting language whose interpreter does its own memory
management, runs every script thread in a virtual machine (VM) of its own, and
calls script functions from operating-system timers.  This directory holds TLA+
models of the parts of it that are hard to test, TLC configurations that check
them on small instances, and proofs, checked by TLAPS, of the properties that
should hold for every instance.

Contents: [inventory](#inventory), [modules](#modules-and-the-code),
[runs](#runs), [proofs](#proofs), [what the models say about the
code](#what-the-models-say-about-the-code), [not modelled](#not-modelled),
[plan](#plan).


## Inventory

The program is about 27 000 lines of C of its own (`czl_*.c`, `czl_*.h`); the
rest of `src/code` is vendored (sqlite, mysql, pcre) or prebuilt.

| Component | Code | State | Operations |
|---|---|---|---|
| VM threads and pipes | `czl_lib.c` 4442–5330, `czl_opt.h` 19–50 | one *pipe* per child: report and notify queues with a lock and a semaphore each; bytes `alive`, `kill`, `suspend`; the parent's `threads_head` and `threads_hash` | `thread wait listen waitfor report notify notifyAll thrsta suspend resume kill`, the child's start and exit, the teardown of a VM |
| Thread groups | `czl_lib.c` 5372–5670 | the handle: list, `cur` and `recv` cursors, `count`, `limit` | `threads scheduler send recv`, release of the handle |
| Timers | `czl_lib.c` 3326–3440, `czl_vm.c` 11690–11830, `czl_opt.h` 19–30 | `timers_head`, `timers_hash`, `timer_next`, `timerEventCnt`, `timer_mutex` | `timer kill reset`, event threads, the callback loop |
| Page pools | `czl_mm.c` 275–422, 524–1458 | pools of pages of equal slots: BUF (raw), VAR (table entries), OBJ (movable objects with handles) | allocate, free, compaction, rank and its adaptation |
| Cache, system blocks | `czl_mm.c` 20–270, 425–520, 715–800, 1459–1584 | size classes with chains of resident nodes; blocks of the system heap | allocate, free, resize, collection, `setCache` |
| Memory limit | `czl_vm.c` 2700–2760, `czl_mm.c` | `mm_limit`, `mm_cnt` | retry of a failed allocation, `setMem`, out-of-memory handler |
| References | `czl_opt.c`, `czl_vm.c` 4900–5360, 7100–7330 | counts on objects (`rc`), marks on those a reference leads through (`rf`), a list of the references to each variable or element | copy, assignment, deletion, taking a reference, the way to an element |
| Tables | `czl_vm.c` 3400–3900, 5500–5760, `czl_lib.c` 3880–4040 | a list of entries, a hash index over them, the cursor of a `foreach` | read, assign, `ins`, delete, unite, sort, loop, copy |
| Arrays, stacks, queues, strings | `czl_vm.c`, `czl_lib.c` | length, capacity, elements | insert, delete, resize, copy |
| Calls, coroutines | `czl_vm.c` 114–490, 780–1152, `czl_opt.h` 361–488, `czl_lib.c` 4305–4455 | per function: one array of variables and a stack of those moved away, registers, state, the instance it works for; per coroutine: variables, place | call, recursion, return, yield, `coroutine resume reset kill` |
| Statements, exceptions | `czl_vm.c` 8880–8990, 9690–10620 | the array of instructions, blocks open while it is written, `next` and jump addresses | count, write, patch, run, throw, catch |
| Expressions | `czl_paser.c` 1500–2600, `czl_vm.c` 2190–2700, 9330–9480, `czl_opt.h` 30–270 | the tree, `reg_sign`, two registers | parse, count, order, give registers, evaluate |
| Hot update | `czl_vm.c`, `czl_paser.c` | code of a running VM | swap |
| Lexer, declarations, classes | `czl_paser.c` | the source, tables of names | parse |
| Library | `czl_lib.c` | none of its own | strings, mathematics, files |
| Network | `czl_tcp.c czl_udp.c czl_http.c czl_ws.c` | connections, buffers | accept, read, write, close |
| Serial port, SQL, registry, shell | `czl_com.c czl_sql.c czl_reg.c czl_shell.c` | handles of the system | wrappers |

How they interact:

- *Parent and child VM* share nothing but the pipe.  Each is one OS thread; a
  child that calls `thread()` is itself a parent, by the same code.  They
  communicate by the two queues, the two semaphores and three unguarded bytes.
- *Timer threads* of the operating system touch a VM's timer list under
  `timer_mutex`; the VM thread reads `timerEventCnt` without it at its checkpoints
  (loop back-edges), and there also the pipe's `kill` and `suspend`.
- *All objects* of a VM are allocated from the pools.  The interpreter holds
  handles (slots of the BUF pool `mmp_obj`) to objects in OBJ pools, because a
  free may move other objects.  The memory driver, when an allocation fails,
  compacts the pools and empties the cache, then tries again.
- *Release of a handle* of an external resource (a thread group) runs the
  resource's release function, which is how a group is freed.

Which behaviours are hard, and what makes each component correct:

| Component | Hard | Correct when |
|---|---|---|
| VM threads | two threads between every two accesses; a pipe deleted by either side; a test and a post of a semaphore in two steps; allocation failures half-way through a call | messages once each, in order; no wake-up lost; queues exclusive; no access to a freed pipe, none leaked; waiters and killed children go on |
| Thread groups | threads end between test and use; cursors over a list that shrinks and grows in `send` | cursors listed; the limit kept; `send` and `recv` return; one side deletes a pipe |
| Timers | event threads reorder the list the callback loop walks; callbacks delete and create timers, nest and throw | cursor never dangles; events counted exactly; each answered |
| Page pools | long sequences of calls; one-byte ids and counts; objects that move under handles; refusals of the system | each slot in one place; chains exact; handles and objects point to each other; counters exact |
| References | counts and marks kept one by one along paths that assignments change; what refers outlives what is referred to | counts exact; nothing holds itself; a write reaches the holders it should |
| Tables | a hash computed before the table grows or takes a new hash key; loops over a table that changes; entries that move | list and index agree; a loop visits what is left; the script sees an ordered map |
| Calls | variables and references to them move at each recursion, suspension and exception | a call reads what is its own; nothing is left behind |
| Statements | jumps patched in two passes, shortened through others | the count is exact; the machine follows the nesting of the statements |
| Expressions | a tree changed token by token; two registers for any number of results | the tree is the one meant; each result is read as it was computed |
| Cache | only the neighbour of a freed node is looked at; three origins of a block; a limit changed while blocks are held | free nodes first; no block twice; accounting exact; room enough |

`PROJECT.json` lists every hazard at its line with the properties that cover it.


## Modules and the code

The data of messages, objects and timers is abstracted to numbers or model
values; the control (tests, early returns, error paths, the order of accesses) is
kept.  `PROJECT.json` maps every definition to its lines.  In each module the
operators whose comment begins with `Mutant:` are mutations of the definition that
follows: a plausible mistake in that code, with which some property must fail.
They are used by no specification.

### VmThreads, MessageQueue

One parent, a set of children.  The variables are the fields of
`czl_thread_pipe` (`alive`, `kill`, `suspend`, and per direction a queue record
with messages, spare node, lock, semaphore), whether its memory is live
(`mem`), the program counters of the children (`cpc`) and of the parent (`ppc`,
with the call `pop` and the threads `todo` it still has to treat), and `fault`.

An action is one access to shared memory: `sem_getvalue` and `sem_post` of
`czl_event_send` are two (`Sample`, `Post`; `ChildSample`, `ChildPost`); taking
a lock and the critical section are two (`GetLock`, `Get`); the child's exit is
`ChildSample`, `ChildPost`, `ExitAlive`, then `ExitClear` or `ExitDelete`.
`Call` enters a library call; `Find` is `czl_thread_find`, `Reap` what a call does with
a child it found dead, `Wait`, `GetLock` and `Get` the `wait` of a living one, `Join`
and `JoinGet` `waitfor`, `PutLock`, `Put`, `Sample` and `Post` a `notify`, `SetSuspend`
`suspend`, `Clear` and `SetKill` the two stores of `kill` and of the teardown.  All accesses go through `Touch`; the first
access to a freed pipe sets `fault`, after which nothing happens, since the
behaviour of the program is undefined from there.  The code's allocation
failures are disjuncts guarded by `Faults`.

`Listed` is the list as the program can still reach it.  In the teardown that is the part not walked past:
the other calls unlink what they delete or kill, the teardown frees the list as a whole.

`recv`, `sent` and `stuck` are history: how many messages were accepted and
handed out, and whether a wake-up was spent without emptying the queue.

`MessageQueue` is what a direction of the pipe promises: accept one, hand out the
whole batch, close.  `VmThreads` implements it twice (`Reports(t)`, `Notes(t)`;
`PipesAreQueues`).

### ThreadGroup

A group and its children, with queues as counters.

| Code | Actions |
|---|---|
| `czl_sys_threads` | `StartOne`, `Started` |
| `czl_sys_send`, `czl_threads_send` | `SendAll`, `SendEach` |
| `czl_sys_send`, `czl_scheduler_send` | `Send`, then `Pick`, `DropDead`, `Chosen`, `Push`, `Create`, `CreateFails` |
| `czl_sys_recv` | `Recv` |
| `czl_threads_free`, `czl_scheduler_free` | `Free`, then per thread `FreeEach` (`alive`), `FreeKill`, `FreePost`; `FreeCrash` when the child deleted the pipe in between |
| `czl_run_thread` (the child) | `Handle`, `Report`, `Exit`, `ExitClear`, `ExitDelete` |

The loop of `czl_scheduler_send` is split at each test of `alive`, at the append and
at the start of a thread, because a child may end in between.

### Timers

`Fire` is the operating system; `ReadGp` and `Mark` are the event thread it starts
(`czl_timer_event`): it reads `t->gp` before it locks, then marks the timer and moves
it to the head of the list.  `Check` is the test of `CZL_CTiS`; `Begin`, `Pop`,
`Return`, `Test`, `Again`, `Throw` are `czl_timer_cb_fun_run`.  `Arm`, `Publish`, `Fill`
are `czl_sys_timer` with `czl_timer_create`: the OS timer runs before the list has the
timer.  When the registration fails `Publish` frees the timer and keeps the mutex, and `Disarm` is the
`timer_delete` that comes after (`czl_vm.c:11713`).  A `timer_settime` that fails (`czl_lib.c:3405`) frees
before it deletes too, but that timer does not run; nothing is left of it.  `Delete`, `Free` are
`czl_timer_delete`.  A critical section is an action.  `script` says what the
script does besides: delete, create, throw, fail (`insert`), and *jumps*.  Checkpoints are compiled into
every branch, loop, `try` and `goto`, so a callback that has or calls one re-enters the callback loop.  A plain
script has callbacks of straight-line statements only; one run covers it, of which exact
counting holds, and an unrestricted one.

### BufPool

One pool of raw slots.  `MallocCreate`, `MallocFails`, `MallocRest` and
`MallocFree` are the paths of `czl_mm_malloc_heap`, `FreeSlot` is
`czl_mm_free_buf` with `czl_mm_sp_break` and `czl_mm_sp_delete`.  The list of freed
slots of a page is a set, so the slot taken is any of them.  A VM owns its pools:
a call is one action.

### ObjPool

One pool of movable objects with its handles: the same allocation with handles
(`czl_mm_malloc_heap`, the part for objects), the paths of `czl_mm_free_ov` by rank, and
`czl_mm_fill_page`, whose passes over the free chain and moves are steps of their
own.  `cell` and `loc` are the two directions of the link between a slot and its
handle.  `freeNum` (`fn`) is kept apart from the free list (`fl`), because the
code keeps it apart.  `czl_mm_fill_page` begins at `Entry`: when `freeNum` says that all slots are
free the page is freed as it is (`FreeWhole`), else it is scanned.  `wild` records that a move found no slot where
`freeNum` promised one, or that a page was freed with objects.  `setup` is how an instance begins: which ranks the script may set, whether
collections adapt them, what may be refused.

### Cache, Memory

Cache nodes and system blocks: `TakeNode` and `CreateNode` are `czl_mm_cache_alloc`,
`SysAlloc` is `czl_mm_sys_alloc`, `PageAlloc` a request small enough for a page slot;
`Free` is `czl_mm_free` with `czl_mm_cache_free` and `czl_mm_sys_free`; `KeepBlock`,
`KeepSlot` and `SysRealloc` are the paths of a resize; `Scan` and `Collect` are
`czl_mm_cache_scan` and `czl_mm_cache_gc`; `SetCache` is `setCache`.  Sizes are counted
in units above the largest page slot.  The run has two of the 8188 size classes
(`CZL_MM_CACHE_RANGE`); classes interact only through the counters.  `Memory`, which the
three modules about memory extend, says what a set of blocks occupies.


### Table, OrderedMap

One table and one loop over it, in addresses that stand for slots of a VAR pool.
`tab` is the record `czl_table` with the fields of its entries: `next` and `last` are the
list, `down` and `up` the chains, whose first entry has its bucket's address for `up`,
as in the code.  `Read`, `Assign`, `Ins`, `Delete`, `Unite` (`t += u`, one entry), `Sort` are
the script's operations, `LoopBegin`, `LoopNext`, `LoopBreak` are `foreach`, `Share`,
`Unshare`, `Drop` the life of a second holder, `MoveEntry` is `czl_mm_update_tabkv`, at any time.
Growth, shrinking and the change of the hash key are parts of these actions.  Hashes are
a constant: `HashOf[k]` is the hash under each hash key, and `IndexOf[size]` takes a hash to its
bucket; `MCTable` gives the one of `CZL_INDEX_CAC`.  `Slots` are addresses, numbers above those of
buckets (up to `MaxSize`), so that `up` can be told apart as the code tells it, by its range.  `flaw` names a step that
leaves the table wrong (see below); nothing is claimed after it.  `OrderedMap` is what the
script sees: one action per call, with the keys it names and the place it gives them.  `order`, read off the
list, and `call`, which notes the call that each step is, implement it, so that a step cannot pass for the effect of
another call.  `call` is history; no action reads it, and TLC tells states apart without it (`VIEW State`).

### Values

Variables, and containers with one element: the loops of the code over elements treat each by
itself.  `heap` has what each location holds, counts, marks, lists of references, and the path
of containers a reference to an element leads through.  A statement is an action:
`SetInt`, `SetVar` (`x[0] = y`), `RefVar` (`x = &y[0]`), `SetNull`, `NewList` (`x = {y}`), `Exit`.  Each is
the composition of the code's functions, as operators on the heap: `StepIn` and `Walk` are
`czl_get_member_res`, `ValCopy`, `ValDel`, `RefCopy`, `RefBreak`, `RefObjDelete` are the functions of these
names.  `bad` names what went wrong in a statement, after which the program is not followed.

### Compile

Two machines side by side.  `st` is the state of `czl_ast_serialize`, computed at the start
from a function's tree: `CompileBlock` is `czl_compile_block`, `OpcodeCreate` is
`czl_opcode_create`, `SetJump` is `czl_set_break_jump`, `CloseBranch`, `CloseLoop`, `CloseTry` what is done at the
end of a block.  `pc` then follows the instructions (`Follow`, `Settle`), while `at` follows the
statements of the tree by their nesting (`Enter`, `AtEnd`, `GoOn`, `Then`, `Reach`, `Handled`, which model
no code: they are the meaning).  `Step` runs an expression with a chosen outcome; `Throw` lets
one fail (`czl_exception_handle`, `czl_try_find`).

### Expr

`Token` and `Stop` take a token of the expression (`czl_exp_analysis` with the insertion of a
node), `Convert` writes the instructions (`czl_exp_tree_to_stack` up to `czl_set_exp_reg`), and the other
actions are the instructions of the machine.  Values are terms, so that two are equal only when
they were computed alike; the meaning is the term of the tree the tokens were written from
(`Write`, `Meaning`, `Term`).  `Needs`, `Kept`, `Fresh` and the names in `Odd` say which expressions meet one of the
faults listed below.

### Calls

`m` is the machine: `mem` the cells of all buffers (what a variable holds, its record as a reference
or the list of those that refer to it), `fun` the functions, `ctl` the stack of calls, both those in
a `czl_fun_run` of their own and those in the same one.  `s` is what the script means: each call has
its own variables.  `Call`, `Argument`, `Start` are the phases of `czl_fun_run_prepare`; `Return` and `Yield` are
`CZL_UFR`; `Throw` is `czl_exception_handle` down to where the exception is caught; `Create`, `Resume`,
`KillOrReset`, `Restart` are the library calls; `Instruction` assigns, takes a reference, uses a register and
a loop counter, or enters a try.  `Backup`, `LocVarsSet`, `Restore`, `ParasBackup`, `ParasCopy`, `LocVarsFree`, `VarsDelete`
are the functions of these names.  The operators on `s` (`Drop`, `Gone`, `EnterCall`, `Sleeps`, `Unwound`, `Ends`,
`SResult`, ...) and `BufferOf` model no code.  `odd` names what went wrong, after which the script is not
followed.


## Runs

A property that joins related statements is the conjunction of operators of its
own, one per statement; the names after it in brackets are those.  Deadlock is not
checked: a script that has ended, or a parent that waits for a message nobody sends, is
a legal end in every run.

| Run | Instance | Checks |
|---|---|---|
| `ThreadsFaults` | 1 child, all calls, all failures, 3 reports, 2 notes | `TypeOK`; `SemBinary`; `NoLostWakeup` (`NoLostReport`, `NoLostNote`); `RaceFree`: a queue has one user at a time; `PipesFreedOnce` (`KnownFaults`: a freed pipe is reached in three windows only; `SpareFree`; `LostByClearOnly`: a pipe that nobody will free is lost in one step only); `PipesAreQueues`: both directions implement `MessageQueue` |
| `ThreadsLive` | 1 child, no failures, weak fairness | `WaiterServed`: a waiting parent is served; `KilledTerminates`; `ReadersGetAll`: readers hand out what a dead child left |
| `GroupCalls` | both kinds, 3 threads, limit 2, 4 sends, starts and messages that fail | `CursorsLive` (`TypeOK`, `CursorsListed`, `ListedPipesLive`); `WithinLimit`; `FreedWhenDone`: no pipe freed under its child, and none under the parent but while it frees the group; `CallsEnd` |
| `TimersAll` | 1 or 3 timers at first, plain or unrestricted script, nesting to 2 | `EventsExact` (`EventCntExact`, `TakesMarked`: the loop takes only timers with an event); `CursorLive` (`TypeOK`, `NextListed`, `ListedLive`, `LockReturned`: the mutex stays locked after a failed registration only); `EventAnswered` |
| `BufPages` | 4 pages of up to 3 slots, a limit below their sum, the system may refuse | `TypeOK`; `Partition`; `ChainsExact`; `OnlyHeadHasRest`; `CountExact` |
| `ObjMoves` | 4 objects, 3 pages; ranks changed and adapted, or handles refused, or both refused from rank 0 | `PoolExact` (`TypeOK`, `SlotsExact`, `HandlesExact`, `ChainsExact`); `CountersExact` (`FreeNumExact`, `SumExact`, and for every step `WildOnlyAfterWrap`); `FillDescends`: compaction ends |
| `CacheBlocks` | 4 blocks, 2 classes, cache size changes, the system may refuse | `NodesExact` (`TypeOK`, chains, `FreeFirst`, `RoomEnough`); `CountsExact` |
| `TableOps` | 3 slots, a number and two strings, 2 hash keys, first sizes 3 and 16, chains of 2 | `ListExact`; `IndexExact`: a key in use is found, no other; `LoopOwes`: a loop still comes to what it owes; `IsOrderedMap`: each step has the effect of its own call |
| `ValuesOps` | 3 variables, 3 containers, one index, 2 marks | `CountsExact`; `NoCycle`; `MarkedAlone`; `WritesSeen`: an assignment is seen through its target and what shares it by reference, and nowhere else |
| `CompileRuns` | 11 452 functions: each statement with a block in each, some three deep; break, continue, return, gotos and labels | `SizeExact`; `InStep` |
| `ExprRuns` | all expressions of up to 2 of 13 operators, of 3 in groups, of 4 and 5 of few, with elements and members, written with few or all brackets | `Translated`: taken as the tree meant, with as many instructions as counted; `Right`: the result and every write as meant |
| `CallsRun` | 21 scripts, up to 3 calls within the main function, 2 coroutines, 2 instances | `Kept`: what a call reads is its own; `Balanced`: stack, states, buffers and lists of references in step |

Why the bounds are enough.  *Threads*: children share nothing with one another, so
one child shows everything about a pipe; the calls that walk the list treat each child
by itself.  Three messages make a batch of two and one more before or after it.
`CallsPerLoop` is the number of calls between two checkpoints: 2 for safety, and 1 in
`ThreadsLive`, where a killed child then meets its checkpoint after one wake-up.  *Groups*: limit 2 with 3 threads lets a
dropped thread be replaced, at either end of the list.  A second thread is started
at the third send at the earliest (the mean of the waiting messages has to exceed 1), and
one more send comes to a thread that ended and that a cursor points to.
*Timers*: three are needed for a cursor with a neighbour on both sides; a fourth
adds no relative position.  `Width` 8 keeps a wrapped counter visible.  *Pools*: a
page of three slots has a first, an inner and a last one; four pages let the free
chain have an inner page while another is made; the limit 14 refuses the largest
page and admits a smaller one, so the halving takes place.  `ByteRange` is kept just
above what counts reach, so a wrap is in reach of the run.  *Cache*: four nodes on
two classes put a freed node between busy ones.  *Tables*: three keys, two of which
collide under the first hash key and not under the second, fill a table of three, grow it, and
leave a chain of the length at which it takes another hash key; from 16 the table shrinks.
An entry has at most two neighbours in each of its lists.  *Values*: three containers nest
twice and share; with three variables one holds, one refers and one writes.  *Statements*: a jump is
patched by what its block and the one around it leave behind, so each kind in each kind is what
matters; the third level shows slots that an inner block of the same kind has used.
`MaxSilent` 12 bounds the places passed between two events; no run of the trees here needs more.
*Expressions*: an operator is inserted below or above one other; three operators make the tree
rotate past an ancestor; a third register is needed from five on.  *Calls*: two calls of a function
below the running one give a buffer below the top; three functions, registers, loop counters, references
and methods are given to the scripts in the combinations that can meet.  A value is told by the depth of the
call that wrote it.  Symmetry is declared over pages,
handles, nodes and threads in runs without liveness; no definition tells two of them
apart.

Fairness.  `ThreadsLive` assumes weak fairness of each child and of a parent that is
in a call: the operating system schedules every runnable thread.  A child's choice
at `Script` is the script's, and nothing forces it to exit.  Weak fairness of the
parent is *not* assumed when it is idle.  A blocked `sem_wait` is a disabled action;
each semaphore has a single waiter, so no strong fairness is needed.  `GroupCalls`
assumes weak fairness of the parent inside a call (`Call`) only: children may live for
ever.  `CallsEnd` also rests on the bound of threads: a `send` all of whose new threads
ended before it looked at them would start others for ever.  `TimersAll` assumes it of
the event threads (`ReadGp`, `Mark`), of the VM thread inside the callback loop (`VmRun`)
and at the checkpoints (`Check`), which a script comes to again and again.  The operating
system's firing of a timer is not fair: nothing forces an event.

`WaiterServed` excludes a queue that is `stuck`, that is, one whose wake-up a failed
allocation or a suspended child has spent.  `KilledTerminates` is for a child whose loop
makes one call per turn; a child that waits twice between checkpoints may sleep for
ever after `kill`, because `kill` posts once.


## Proofs

TLAPS proves, for every value of the constants that meets the modules' assumptions:

| Module | Theorem | States |
|---|---|---|
| `VmThreads_proof` | `TypeCorrect` | types; a call in progress has a thread to treat |
| | `FifoHolds` | messages once each and in order |
| | `SemBinaryHolds` | no semaphore exceeds 1 |
| | `PipesRefineQueues` | both directions of every pipe implement `MessageQueue` |
| | `RaceFreeHolds` | the two sides are never at work on the same queue |
| | `NoLostWakeupHolds` | a queue with messages has a wake-up ahead |
| | `PipesFreedOnceHolds` | a freed pipe is reached in the known windows only, and lost only where `alive` is cleared too late |
| | `ReadersGetAllHolds` | what a dead child reported is handed out before its pipe goes |
| `ThreadGroup_proof` | `CursorsLiveHolds` | cursors and lists hold threads whose pipes are there |
| | `WithinLimitHolds` | the list stays within the first limit |
| | `FreedWhenDoneHolds` | no pipe is freed under its child, none under the parent but while it frees the group |
| `Timers_proof` | `CursorLiveHolds` | the loop's cursor is a listed timer; listed timers are live, once; a freed one is armed, and the mutex kept, after a failed registration only |
| | `EventsExactHolds` | in a plain script the count of events is exact, the loop takes timers with an event |
| `BufPool_proof` | `TypeCorrect` | one-byte fields stay within the slots of a page |
| | `PartitionHolds` | no slot handed out twice, none lost, `useNum` exact |
| | `ChainsHold` | both chains hold exactly the right pages, once |
| | `OnlyHeadHolds` | untouched slots exist on the newest page only |
| | `CountExactHolds` | what is charged is what the pages occupy, within the limit |
| `ObjPool_proof` | `PoolExactHolds` | slots, handles and chains stay in step through moves and deletions; a handle dangles only into a page freed with its objects |
| | `CountersExactHolds` | `freeNum` and the sum of the ranks are exact; no move without a slot, no page freed with objects, before a wrap |
| | `FillDescendsHolds` | every step of a compaction brings it nearer its end |
| `Cache_proof` | `NodesExactHolds` | chains, busy marks and holders agree, free nodes first, room enough |
| | `CountsExactHolds` | both counters are what nodes and blocks occupy |
| `Table_proof` | `ListStaysExact` | the list is linked both ways over exactly the entries in use; `tail`, `count`, `foreach_inx` are right |
| | `IndexStaysExact` | every key is found; the chains lead back to their buckets |
| | `LoopReachesAll` | a `foreach` still reaches every key it owes |
| | `TableIsOrderedMap` | every step that leaves the table sound is the step of `OrderedMap` for its call |

`ChainLemmas` has what they share.  About chains: what `RemoveFirst`, a new head, a new last element
and an insertion do to the length, the elements and the absence of repetitions of a sequence, and to its
order: `Before(s, x, y)` is a total order of the elements of a chain (`OrderIsTotal`), which a removal keeps and
an insertion extends (`RemoveFirstOrder`, `ConsOrder`, `TailOrder`, `InsertAtChain`).  About counters: `Memory` states a sum of
sizes as the number of the bytes of a set of blocks (`Bytes`), so that a change of one block is a
difference of two finite sets (`BytesGrow`, `BytesResize`, `BytesWithin`) and no sum over a set, which is a recursive
definition, is needed.  The models charge by numbers, as the code does; only the properties speak of bytes.

*VmThreads.*  `TypeInv` adds to the types that a thread has a pipe exactly from its
start on, without which starting a thread could revive a freed pipe.
`MessageStep` classifies what any step does to one queue, and `ChildPipes` and
`ParentPipes` show, one case per action, that every step is one of the three.
Order (`FifoNext`) and the implementation of `MessageQueue` (`MessageStepRefines`)
follow from the classification alone; the hand-out of *all* accepted messages needs
order, which counts them.  `EventsGuarded` strengthens `SemBinary`: whoever read a
semaphore as 0 and has not posted yet still finds it 0, because each semaphore has
a single sender: the child for `report_event`, the parent for `notify_event`.

`HoldInv` says who may reach a pipe: a thread the parent holds (`Held`: it is listed, or about to be) has a live pipe and
either `alive` or a child that is done, *until the parent has given the pipe away* (`Given`: by clearing `alive` in `kill` or the
teardown).  The three windows of `KnownFaults` are the labels at which something has been given and is still used.
That reap and the join of `waitfor` come after the child is done is its last conjunct, and all of `RaceFree` rests on it.
`QueueInv` adds, per queue, that its lock is taken exactly while a side is in its critical section, and that messages
have used up the spare node and have a wake-up ahead, which is `NoLostWakeup`.

*ThreadGroup.*  The cursors need `ListInv` (once in the list; a call that goes along it is at one of its threads) and `LifeInv`:
until the group is freed only the child clears `alive`, so whoever finds it cleared may delete the pipe.  The limit needs `RoomInv`:
`count` never counts fewer threads than the list has, `limit` only goes down, and when a thread is about to be started, or the
cursor is empty and one will be, there is room for it.  `SentInv` bounds the
messages waiting.

*Timers.*  `CursorInv` is `CursorLive` with the place of the VM thread.  `EventsExact` needs an order: event threads put a timer at the head
of the list, the loop takes timers from the cursor on, and a callback may delete any.  `OrderInv` says that a timer
without an event stands before one with an event only across the cursor: the loop is past the one and will come to the other.  With the exact
count (`CountInv`) the loop that has events left finds one with an event next.  The assumptions added for it: timers are finitely many,
fewer than the counter's width (they are heap objects and the counter is an `unsigned long`), and a script begins with each
of its timers in the list once.

*BufPool.*  `Inv` is the conjunction of `TypeOK`, `Partition` and `ChainsExact`.
`Partition` alone is not inductive: `MallocCreate` gives a page outside the chain
its first slot, and only `ChainsExact` says that such a page has no slots from an
earlier life; `MallocFree` takes a slot from the page heading the free chain, and
only `ChainsExact` says that it has one.  `Partition` speaks of one page at a time
(`PageOK`), so each call is one lemma about one header (`NewPage`, `TakeRest`,
`TakeFreed`, `GiveBack`, `EmptyPage`) and one about the rest of the pool
(`CreateInv`, `RestInv`, `FreedInv`, `FreeInv`, `FailInv`).  `OnlyHeadHasRest` is
inductive relative to `Inv`: when a page is made the old head has no untouched slot
by the guard, and a page behind the head after a removal was behind the head before.
The assumptions are `HeapMax \in 1..255` (the slot id is a byte; the source has 200)
and that sizes are natural numbers.

*ObjPool.*  Four layers.  One page (`PageOK`: in use, freed and untouched slots are apart and are all, unless it is the page being emptied;
`freeNum` is exact unless handles may be refused), with a lemma per change of a header.  One pool (`PoolOK`: its pages, the two chains and
the sum of the ranks), with a lemma per function: `TakenOK`, `SlotFreedOK`, `DeletedOK`, `RestOK`, `CreatedOK`, `ReleasedOK`, `AdaptedOK`,
`SlotGivenUpOK`.  The handles (`HandlesOK`), which need to know of the pages only which slots are in use: `BindOK`, `UnbindOK`, `MoveOK`,
`ReplaceOK`.  And `ObjInv`, with what holds while `czl_mm_fill_page` is at work (`Filling`): its page is on the free chain, it has objects
left, and the other pages have a freed slot for each of them (`RoomLeft`), or some `freeNum` has wrapped around.  That is why
`WildOnlyAfterWrap` holds: a page on the free chain with objects has fewer slots free than slots, so that it is
freed whole only when its `freeNum` has wrapped; a pass ends in `move` only when `freeNum` of the others promises room for all slots that are not free
(`RoomFound`; an unwrapped `freeNum` promises no more than there is), and a move takes one object and one slot (`RoomMoved`).
`FillDescends` follows: a pass starts again only at a freer page, and a move takes an object from the page.  Neither chain
alone would do: only the free chain says that the next page has a slot, only the chain of all pages that a deleted page is
counted among those whose ranks are summed.  The assumptions: `HeapMax` is less than the range of a byte, a script's settings are
bytes, and `Nil` is neither a handle nor a place.

*Cache.*  `FreeFirst` looks at neighbours, as `czl_mm_cache_free` does; it is not inductive, since a node may be taken from the middle.
`BusyLast` is: behind a busy node all are busy.  `Separate` and `BusyHeld` say where nodes are and who holds them; the counters
are inductive with the finiteness of what they count.

*Table.*  The properties read the table as the code does, by following links; the invariant says what is found there.  `Linked(fwd, back,
first, q, x)`: the sequence `q` has no entry twice, `first` leads to it, `fwd` and `back` go along it both ways, and its first entry points
back at `x`.  `Parts(t, n, l, C)`: the list of `t` is `l` (with the tail, the count and a cursor in use or null), its `n` chains are
`C`, each entry is in the chain of its key's hash under the *current* hash key, no key is there twice, and a string keeps the right hash.
`TableInv`, the inductive invariant, is that a sound table has parts, that `order` is read off it, and that what a loop owes is ahead of
its cursor.  None of its parts is inductive alone: a search needs the chains, an insertion the list, a deletion both, and `Rehash` rebuilds
the chains from the list with the hashes that the strings keep.

Functions defined along positions (`Follow`, `Rehash`) need induction, which the prover lacks for operators; `PositionInduction` has it for a
*set* of positions, since `<` is well-founded: the smallest position missing has one before it.  `FollowFrom` says that the links
found along a linked sequence are that sequence, `RehashOK` that the rebuilt buckets are those of the hashes.  Above them there is a
lemma per function for the parts (`InsertParts`, `CutParts`, `RelinkParts`, `MoveParts`, `SortedParts`, `MovedParts`, `EmptyParts`) and one for
what the script sees (`InsertEffect`, `CutEffect`, `MoveEffect`, `SortEffect`, `RenameEffect`, `CursorEffect`): the order of the keys
gains one at a place, loses one, has one moved, is shuffled or stays, and what is ahead of the cursor loses at most the key that the
step is about.  `CreateEffect` puts them together for `czl_create_tabkv`, where the insertion may follow a growth and a new hash key.  There
is then one lemma per action (`ReadStep` to `MoveEntryStep`), with the conclusion `StepOK`, and `NextStep` collects them.
`MapAdd`, `MapPut`, `MapMove`, `MapDelete`, `MapSort`, `MapClear` and `MapUnseen` take these effects to the actions of `OrderedMap`; which
one a step may have is fixed by its `call`.

The steps that `flaw` names are those at which the invariant may break: a bucket computed before a new hash key (*stale*), an entry united unseen
(*union*), an entry put behind itself (*self*), or the loop's cursor taken along (*cursor*, *nested*).  The proof covers all others: no further step
of the model does harm, for any keys and hashes.  The assumptions:
entries are finitely many and no bucket has the address of one; numbers and strings are apart, and null is neither; a table
with `MaxSize` buckets is at least twice as large as there are keys, so that the model's index never grows past it; each key has a hash under each hash
key, and `IndexOf` leads to a bucket of the table.  `IndexOf` need not be onto, nor sizes powers of two.

Only model-checked: liveness (`WaiterServed`, `KilledTerminates`, `CallsEnd`,
`EventAnswered`), which is out of the prover's reach (`FillDescendsHolds` is the safety part of such a property);
`Values`, `Compile`, `Expr` and `Calls`, whose data (nested containers,
trees) asks for recursive operators, of which the prover has no induction.


## What the models say about the code

The models follow the code where it goes wrong as well; what they met is listed here.  Those
marked * were also seen with the interpreter itself.  In the models of data the states after such a step
carry its name, and no property is claimed of them.

Comments that do not hold:

- The child posts `report_event` on its way out so that the parent cannot block on a child that
  has exited (`czl_lib.c:5077`).  A parent that takes this post with one `wait()`, and waits again
  before the child clears `alive`, blocks for good.
- Timers with events are at the head of the list (`czl_lib.c:3341`).  `czl_timer_create`
  (`czl_vm.c:11722`) puts a timer without one there, and the loop takes it.
- An unused page is given back at once (`czl_mm.c:11`).  `czl_mm_free_buf` (1121) asks whether the first
  free page has a next page, in the chain of *all* pages.
- The size of a table is a power of two (`czl_vm.h`, `czl_table`); `czl_table_new` takes the number of
  entries in a list.  `IndexOf` is then not onto the buckets, and `Table` has such sizes.
- `czl_ref_obj_delete` must be called before the value is deleted (`czl_vm.c:5107`); `czl_fun_local_vars_restore`
  (294), the deletion of an array and that of a table call it after.
- Two registers suffice for any expression (`czl_vm.c:2109`): not for `(a+b)*((c+d)*(e+f))`.* A register
  is free once its operator is done (2095): not across an index.

Threads, timers, memory:

- A freed pipe is accessed in three windows: `kill` after it cleared `alive`, the
  teardown likewise, and a child whose registration failed.  `KnownFaults` states that
  there is no other.  `kill` and the teardown leak the pipe of a thread whose child has passed its own
  test of `alive` (`czl_lib.c:5078`) when they clear it; `LostByClearOnly` states that no pipe is lost otherwise.
- `czl_threads_free` (`czl_lib.c:5379`) leaves the pipe of a thread that ended by itself
  to nobody, and uses a pipe twice more after it cleared `alive`; the child may delete it in between
  (`FreeCrash`).
- `setRank` (`czl_lib.c:3618`) tests the old rank, and so stores any value.
- The cache (`czl_mm.c:32`) grows past `mm_limit`, which it never looks at.
- When `timers_hash` cannot grow `czl_timer_create` (`czl_vm.c:11711`) returns with
  `timer_mutex` locked (`locked` in `Timers`), after it freed a timer that the operating system still runs (11713).
- A branch, a loop, a `try` or a `goto` inside a callback re-enters the callback loop (`czl_vm.c:9097`), which then takes
  timers whose events the outer loop has counted; `EventCntExact` is stated for callbacks without.
- A handle that cannot be allocated leaves `freeNum` one too low (`czl_mm.c:678`);
  `WildOnlyAfterWrap` shows that this stays harmless until the byte wraps.  Then `freeNum` may be that of an empty
  page, which `czl_mm_fill_page` deletes at once (`czl_mm.c:903`), with the objects it has.
- A thread of a scheduler may end between the test of `alive` and the message (`czl_lib.c:5559`), which is
  then never read.  A list expression sent through a pipe is evaluated twice, once to measure and once to
  copy (`czl_lib.c:1060`).  While the handler of an out-of-memory exception runs the limit is 4 GB, and a
  `setMem` in it is undone (`czl_vm.c:2743`).  `czl_mm_cache_scan` below the first class has index -1 (`czl_mm.c:166`).

Tables (`flaw`):

- *stale*: the index of a key is computed before the table is copied, grows or takes a new hash key, and
  used after (`czl_vm.c:3518`).
- *union*: `t += u` looks for an entry by its value and adds its key unseen (`czl_vm.c:5666`); `t -= u` deletes by
  value too; `t += t` never ends.
- *self*: `ins` of a key behind itself.  *cursor*: `ins` moves the entry the loop comes to next.  *nested*: a
  loop in a loop over the same table has the same cursor (`czl_vm.c:3664`).

Values (`bad`): *freed*, *null*: an element is freed before those that refer to it get its value; *path*, *lock*: a
container on the path of a reference is replaced or deleted while marked; *list*: a list is evaluated while the
value it reads is being dropped; *confused*: the list of an element is taken for that of a variable; *shared*: a marked container is
shared after all.  `full` only says that the containers of the instance are used up.

Statements (`odd`):

- *break*, *continue*: a loop's slot is set when the loop is written, and read before by a block in a `do` or a
  timer (`czl_vm.c:9932`).
- *kind*: an arm after a nested branch has the type of that branch (`czl_vm.c:8031`).  *end*: a case that ends in a block
  is left through the block's own jump (`czl_vm.c:10395`).  *default*: a switch with nothing but a default.
- *lost*, *later*: a try is looked for along `next` (`czl_vm.c:8903`): none is found, a circle is followed, or one further on
  catches.  A `try(continue)` without parameters leaves `exceptionCode` set, and the handler executes the failing
  instruction again.

Expressions (`Odd`):

- `(a+b)*((c+d)*(e+f))`*; `t[i+1] = t[j+1] + c`, `t[(i+1)*(j-1)] = a+b` and `t[i+1] + b*c`*, since an index resets `reg_sign` of the
  expression around it (`czl_paser.c:2184`).
- `a && (b=5)` with a false writes b* (`czl_opt.h:42`).
- `(a+b)*c + (!e)`: an operand that was never set is compared (`czl_vm.c:9419`).*
- `c ? b & d : e` and `a ++ + b` are syntax errors, `x = (b + c;` is not; `2 && 2` is 2.  An expression of more than
  128 results writes past its array (`czl_vm.c:2677`).

Calls (`odd`):

- *nested*: a call of a function within the arguments of its own recursive call, `ack(m-1, ack(m, n-1))`, crashes*: the
  instructions read the array of the outer call's arguments (`czl_vm.c:134`).
- *kept*: a local variable that held a reference in one call and a number in the next, or that holds one in a function that is
  called again, keeps its record, which is read as a list* (`czl_vm.c:162`, 296, 375).
- *home*: a reference passed on by a recursive call, and one that is suspended, is at another address than its record
  says.
- *bare*: a function with registers and no variables restores them from the wrong buffer* (`czl_vm.c:281`).
- *grab*: a method without variables is free for another instance as soon as a call within it returns (`czl_vm.c:412`).
- *missed*, *past*: the function asked for its try is the one at the bottom of the loop, or the one just left (`czl_vm.c:8947`):
  with a try in the caller only, or in the callee only, the search runs past the end.*  *wrong*: the same function is
  asked whether it yields (8956), so another is suspended.
- *forgot*: the end of a coroutine clears the place where a direct call of its function was suspended (939).
- Local variables without a value have that of an earlier call.*  A direct recursive call of a function with a
  parameter `&` crashes the parser (`czl_vm.c:554`).*


## Not modelled

*Hot update* needs the parser of declarations and the whole call stack.  The *network modules* keep their state in the
system's sockets; what they add (lists of connections, partial frames) is a candidate for later.  Arrays, stacks and
queues as sequences, strings, and the mathematical and file functions are sequential code whose results are data and
which a test shows one call at a time; that elements which hold references move when an array is resized is noted
here only.  Serial port, SQL and registry are wrappers with no state of their own.  The *memory driver* (the order
over all pools after a failed allocation) is modelled per pool.  Of *expressions* the quick registers chosen by type
are left out, of *statements* the declarations, classes and the lexer, and the functions that a script may register for
exceptions (`czl_vm.c:8918`).  The values of a *table* are plain: the deletion of one that holds much may start a collection
that moves the table (`CZL_MM_RT_GC`), and `czl_delete_tabkv_node` goes on with its old place (`czl_vm.c:3659`).  `reset()` of a timer only changes the period of
the OS timer.  The encoding of values sent through a pipe is abstracted: a message is a number.  Thresholds and ranks are computed in
`float` by the code (`0.005 * rank * num`); the model uses the exact quotient.  The vendored libraries (sqlite, mysql, pcre),
more than half of the source tree, are not part of the system.


## Plan

What is left to model, in order: arrays, stacks and queues against sequences (growth, shrinking, the references of elements that
move); the memory driver, composing `Cache` with pools as counters; references stored in elements, added to `Values`; the TCP and
WebSocket servers; hot update between two checkpoints.

What is left to prove: `Values`, first.  Its heap is finite and its statements are compositions of functions on it, but these walk nested
containers recursively; they would have to be restated as what they leave in the heap, as `Rehash` is for tables.  The bound on nesting that the
instance has would go with it.  `Compile`, `Expr` and `Calls` are checked on trees and scripts that are enumerated; a proof there is an
induction over trees.
