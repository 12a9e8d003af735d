------------------------------ MODULE Compile ------------------------------
(* From the tree of a function's statements to its array of instructions     *)
(* (czl_ast_serialize) and the run of that array.  The array is written in   *)
(* two passes over every block: czl_compile_block lays out the conditions of *)
(* the statements side by side, czl_opcode_create then appends the bodies    *)
(* and patches the jumps that lead to them.  What a jump is patched to comes *)
(* from a stack of blocks, from the instruction written last and from        *)
(* addresses noted in the tree.                                              *)
(*                                                                           *)
(* An expression is one instruction whose value, or failure, is chosen.      *)
(*                                                                           *)
(* Not every program comes out as it is written.  The reasons met are known  *)
(* to the model only, in odd, and what is claimed of the run is claimed of   *)
(* the programs that meet none:                                              *)
(*   break     jumps to where the slot of the loop says, which another block *)
(*             has set before: the loop sets it when it is written           *)
(*   continue  the same, or a loop that goes on at its end is asked before   *)
(*   kind      an arm gets the type of a branch nested in the arms before    *)
(*   end       a case that is left through the jump of a block within it     *)
(*   default   a switch with nothing but a default, which is never entered   *)
(*   lost      an exception for which next leads nowhere, or round for ever  *)
(*   later     an exception that a try further on catches                    *)
EXTENDS Naturals, Sequences, SequencesExt, FiniteSets, FiniteSetsExt, TLC

CONSTANTS
    Programs,   \* functions: statements of kind "fun"
    MaxNest,    \* CZL_MAX_CODE_NEST_LAYER, nested blocks
    MaxSilent   \* bound: places passed, or instructions, from one event to the next

----------------------------------------------------------------------------
(* The tree *)

\* A statement: has it a condition (or a value to return), has a loop an
\* expression before and after, has a try one for its exceptions; the arms of a
\* branch are its childs, with n conditions each, none for else and default.
\* A function has at most one label: in the block label[1], behind its
\* statement number label[2].
Statement(kind) == [k |-> kind, cond |-> TRUE, init |-> FALSE, step |-> FALSE,
                    body |-> <<>>, childs |-> <<>>, act |-> "", para |-> FALSE]
Arm(conds, stmts) == [n |-> conds, body |-> stmts]

\* A block is named by the path to its statement and 0 for the body or the
\* number of the arm, a statement by its block and its number in it.
Stmts(s, b) == IF b = 0 THEN s.body ELSE s.childs[b].body
RECURSIVE Node(_, _)
Node(p, path) ==
    IF path = <<>> THEN p
    ELSE LET key == Front(path) IN Stmts(Node(p, Front(key)), Last(key))[Last(path)]
Block(p, key) == Stmts(Node(p, Front(key)), Last(key))

\* A timer with neither a period nor tasks is a while (czl_get_ast_size).
RECURSIVE Tasks(_)
Tasks(stmts) == FoldLeft(LAMBDA n, s : n + (IF s.k = "task" THEN 1 ELSE 0)
        + (IF s.k = "timer" THEN 0 ELSE
              Tasks(s.body) + FoldLeft(LAMBDA m, c : m + Tasks(c.body), 0, s.childs)), 0, stmts)
Loop(s) == IF s.k = "timer" /\ ~s.cond /\ Tasks(s.body) = 0 THEN "while" ELSE s.k
Loops == {"while", "for", "foreach", "do", "timer"}
Inline(s) == Loop(s) \in {"do", "timer"}    \* its body is laid out at once

\* The parser gives an arm the type of the branch it has opened last, the one
\* the arm belongs to or one within the arms before (cur_branch_type).
RECURSIVE LastBranch(_, _)
LastBranch(stmts, t) == FoldLeft(LAMBDA u, s :
        FoldLeft(LAMBDA v, c : LastBranch(c.body, v),
                 LastBranch(s.body, IF s.k \in {"if", "switch"} THEN s.k ELSE u), s.childs),
    t, stmts)
ArmType(s, c) == FoldLeft(LAMBDA u, a : LastBranch(a.body, u),
                          LastBranch(s.body, s.k), SubSeq(s.childs, 1, c - 1))

\* czl_get_ast_size: the instructions of a block.
Bit(b) == IF b THEN 1 ELSE 0
RECURSIVE AstSize(_)
AstSize(stmts) == FoldLeft(LAMBDA n, s : n + AstSize(s.body) +
    (CASE s.k = "exp" -> 1
      [] s.k = "if" -> 3
      [] s.k = "switch" -> 2
      [] Loop(s) = "foreach" -> 2
      [] Loop(s) = "timer" -> Tasks(s.body) + Bit(s.cond) + 1
      [] Loop(s) = "do" -> 2
      [] Loop(s) \in {"while", "for"} -> 2 + 2 * Bit(s.cond) + Bit(s.init) + Bit(s.step)
      [] s.k = "task" -> 3
      [] s.k = "try" -> IF s.act = "continue" /\ ~s.para THEN 1 ELSE 2 + Bit(s.para)
      [] s.k = "return" -> 1 + Bit(s.cond)
      [] OTHER -> 1)
    + FoldLeft(LAMBDA m, c : m + 2 * c.n + AstSize(c.body) + 1, 0, s.childs), 0, stmts)
\* czl_check_fun_return
EndsInReturn(p) == p.body # <<>> /\ Last(p.body).k = "return"

----------------------------------------------------------------------------
(* The array while it is written: code, of which last is to lead to what      *)
(* comes next; the stack of blocks up to i; what is noted in the tree, by     *)
(* statement; the jumps to the label.                                         *)

\* An instruction; an expression is known by its place in the tree.  While the
\* body of a header is written the header waits: flag is 0xFF.  A jump that is
\* fixed is not skipped by those that lead to it (rt); lt is the end of a try,
\* or a foreach that starts.
Blank == [op |-> "none", ev |-> <<>>, next |-> 0, to |-> 0, wait |-> FALSE,
          fixed |-> FALSE, lt |-> FALSE, kind |-> ""]
Event(path, part, c, i) == <<path, part, c, i>>
Garbage == [flag |-> "none", type |-> "none", key |-> <<>>, next |-> 0, cond |-> 0,
            ends |-> FALSE, nextOf |-> <<0>>, condOf |-> <<0>>, early |-> FALSE]
Empty == [code |-> <<>>, last |-> 0, i |-> 0, slots |-> [d \in 0..MaxNest |-> Garbage],
          noted |-> <<>>, brk |-> <<>>, cont |-> <<>>,
          label |-> 0, gotos |-> <<>>, tries |-> <<>>, odd |-> {}]

Buf(st) == Len(st.code) + 1
Cur(st) == st.slots[st.i]
Put(st, ins) == [st EXCEPT !.code = Append(@, ins)]
\* czl_compile: an expression (CZL_CE), and one that leads to what follows it.
Exp(st, ev) == Put(st, [Blank EXCEPT !.op = "exp", !.ev = ev])
ExpOn(st, ev) == Put(st, [Blank EXCEPT !.op = "exp", !.ev = ev, !.next = Buf(st) + 1])
\* CZL_SOCN: the instruction written last leads to pc.
Join(st, pc) ==
    IF st.last = 0 THEN st
    ELSE IF st.code[st.last].wait THEN [st EXCEPT !.code[st.last].to = pc]
    ELSE [st EXCEPT !.code[st.last].next = pc]
Here(st) == Join(st, Buf(st))
WroteLast(st) == [st EXCEPT !.last = Len(st.code)]
Note(st, key, name, pc) == [st EXCEPT !.noted = (<<key, name>> :> pc) @@ @]
Noted(st, key, name) == st.noted[<<key, name>>]

\* A block on the stack: next and cond of its slot stay what they were, of
\* whichever block set them (nextOf, condOf: known to the model only), and the
\* cond of a loop that goes on at its end is known only there (early).
Push(st, flag, type, key, ends) ==
    [st EXCEPT !.i = @ + 1,
               !.slots[st.i + 1] = [@ EXCEPT !.flag = flag, !.type = type, !.key = key,
                                             !.ends = ends]]
Pop(st) == [st EXCEPT !.i = @ - 1]
\* The parser refuses blocks nested deeper (czl_code_blocks_count).
TooDeep(st) == st.i >= MaxNest
SetNext(st, pc) == [st EXCEPT !.slots[st.i].next = pc, !.slots[st.i].nextOf = Cur(st).key]
SetCond(st, pc, early) == [st EXCEPT !.slots[st.i].cond = pc, !.slots[st.i].condOf = Cur(st).key,
                                     !.slots[st.i].early = early]

\* czl_goto_flag_check, behind statement j of a block that starts at first.
Label(st, p, key, j, first) ==
    IF p.label[1] # key \/ p.label[2] > j THEN st
    ELSE IF p.label[2] = 0 THEN [st EXCEPT !.label = first]
    ELSE IF p.label[2] = j THEN [st EXCEPT !.label = Buf(st)] ELSE st

\* czl_set_break_jump and czl_set_continue_jump: the jumps of a block, when it
\* is written, to where the slot of the loop (or switch) around says.
IsTarget(slot, what) == \/ slot.flag = "loop"
                        \/ what = "break" /\ slot.flag = "branch" /\ slot.type = "switch"
SetJump(st, jump, pc) ==
    LET u == IF jump.last = 0 THEN st
             ELSE IF st.code[jump.last].wait THEN [st EXCEPT !.code[jump.last].to = pc]
             ELSE [st EXCEPT !.code[jump.last].next = jump.buf]
    IN [u EXCEPT !.code[jump.buf].to = pc]
SetJumps(st, jumps, what) ==
    LET ds == {d \in 0..st.i : IsTarget(st.slots[d], what)}
        slot == st.slots[Max(ds)]
        stale == IF what = "break" THEN slot.nextOf # slot.key ELSE slot.condOf # slot.key \/ slot.early
        pc == IF what = "break" THEN slot.next ELSE slot.cond
    IN IF jumps = <<>> THEN st
       ELSE FoldLeft(LAMBDA u, j : SetJump(u, j, pc),
                     [st EXCEPT !.odd = IF stale THEN @ \cup {what} ELSE @], jumps)

----------------------------------------------------------------------------
(* First pass: czl_compile_block                                             *)

\* The condition of a statement and its header, which is filled in later.
Header(st, path) ==
    LET u == ExpOn(Here(st), Event(path, "cond", 0, 0))
    IN Put(Note(u, path, "cond", Buf(u)), [Blank EXCEPT !.next = Buf(u) + 1])
\* What comes behind the statement follows here.
Behind(st, path) == WroteLast(Note(st, path, "next", Buf(st)))

CompileBranch(st, path, s) ==
    LET Cond(u, c, i) == Put(ExpOn(u, Event(path, "arm", c, i)), [Blank EXCEPT !.next = Buf(u) + 2])
        Conds(u, c) == FoldLeft(LAMBDA v, i : Cond(v, c, i), u, [i \in 1..s.childs[c].n |-> i])
    IN Behind(FoldLeft(Conds, Header(st, path), [c \in 1..Len(s.childs) |-> c]), path)

CompileLoop(st, path, s) ==
    LET init == IF s.init THEN WroteLast(Exp(Here(st), Event(path, "init", 0, 0))) ELSE Here(st)
        u == Here(init)
        v == IF s.cond THEN ExpOn(u, Event(path, "cond", 0, 0)) ELSE u
        each == [Blank EXCEPT !.ev = Event(path, "each", 0, 0)]
    IN IF s.k = "foreach" THEN Behind(Put(Note(Here(st), path, "cond", Buf(st)), each), path)
       ELSE Behind(Put(Note(v, path, "cond", Buf(v)), Blank), path)

\* czl_set_timer_init: the next of the instructions the timer around has for
\* its tasks is to note the time for this one.
SetTimerInit(st, pc) ==
    LET d == Max({e \in 0..st.i : st.slots[e].flag = "loop" /\ st.slots[e].type = "timer"})
        timer == Front(st.slots[d].key)
        n == Noted(st, timer, "tasks")
    IN Note([st EXCEPT !.code[n].op = "init", !.code[n].to = pc], timer, "tasks", n + 1)

Return(st, path, s) ==
    LET u == Here(st)
        v == IF s.cond THEN ExpOn(u, Event(path, "exp", 0, 0)) ELSE u
    IN WroteLast(Put(v, [Blank EXCEPT !.op = "return"]))

Goto(st) ==
    LET u == Here(st)
        header == IF u.last # 0 /\ u.code[u.last].wait THEN u.last ELSE 0
    IN WroteLast(Put([u EXCEPT !.gotos = <<[pc |-> Buf(u), header |-> header]>> \o @], Blank))

Jump(st, what) ==
    LET jump == <<[last |-> st.last, buf |-> Buf(st)]>>
        u == Put(st, [Blank EXCEPT !.op = "jump", !.fixed = TRUE])
    IN WroteLast(IF what = "break" THEN [u EXCEPT !.brk = jump \o @] ELSE [u EXCEPT !.cont = jump \o @])

RECURSIVE CompileBlock(_, _, _)

\* Loops that test at the end, and what is tried, are laid out at once.
CompileInline(st, p, path, s) ==
    LET n == IF Loop(s) = "timer" THEN Tasks(s.body) ELSE 0
        inits == FoldLeft(LAMBDA u, i : Put(u, [Blank EXCEPT !.next = Buf(u) + 1]),
                          Note(Here(st), path, "tasks", Buf(st)), [i \in 1..n |-> i])
        u == IF n > 0 THEN WroteLast(inits) ELSE st
        key == Append(path, 0)
        v == IF s.k = "try" THEN Push(u, "try", s.act, key, FALSE)
             ELSE Push(u, "loop", Loop(s), key, FALSE)
        w == Pop([CompileBlock(v, p, key) EXCEPT !.brk = st.brk, !.cont = st.cont])
    IN IF s.k = "try" THEN [Note(w, path, "next", Buf(w)) EXCEPT !.last = 0] ELSE Behind(w, path)

CompileTask(st, path) ==
    LET u == Header(st, path) IN Behind(SetTimerInit(u, Noted(u, path, "cond")), path)

CompileStatement(st, p, path, s) ==
    CASE s.k = "exp" -> WroteLast(Exp(Here(st), Event(path, "exp", 0, 0)))
      [] s.k \in {"if", "switch"} -> CompileBranch(st, path, s)
      [] s.k = "try" \/ Inline(s) -> CompileInline(st, p, path, s)
      [] s.k \in Loops /\ ~Inline(s) -> CompileLoop(st, path, s)
      [] s.k = "task" -> CompileTask(st, path)
      [] s.k = "return" -> Return(st, path, s)
      [] s.k \in {"break", "continue"} -> Jump(st, s.k)
      [] s.k = "goto" -> Goto(st)

\* Behind the last statement of a loop: where continue goes, which is known
\* only now, and what comes behind a loop that tests here.
EndOfLoop(st, path, s) ==
    LET type == Cur(st).type
        at == SetCond(st, Buf(st), FALSE)
        v == Here(at)
        cond == IF s.cond THEN ExpOn(v, Event(path, "cond", 0, 0)) ELSE v
    IN IF type = "foreach" THEN at
       ELSE IF type \in {"do", "timer"} THEN SetNext(cond, Buf(cond) + 1)
       ELSE IF type = "for" THEN WroteLast(Exp(v, Event(path, "step", 0, 0)))
       ELSE st

CloseLoop(st, path, s, first, save) ==
    LET type == Cur(st).type
        v == Join(st, save)
        jump == [Blank EXCEPT !.to = first]
        copy == [Here(st).code[save] EXCEPT !.wait = FALSE, !.lt = FALSE, !.op = "foreach"]
    IN CASE type = "foreach" -> Put(Here(st), copy)
         [] type = "do" -> Put(Note(st, path, "cond", Buf(st)), [jump EXCEPT !.op = "block"])
         [] type = "timer" -> Put(Note(st, path, "cond", Buf(st)),
                                  [jump EXCEPT !.op = IF s.cond THEN "sleep" ELSE "jump"])
         [] OTHER ->
              IF v.code[save].kind = "jump"
              THEN Put(v, [v.code[save] EXCEPT !.wait = FALSE, !.op = "jump"])
              \* the condition again; it leads nowhere but to the next instruction
              ELSE Put(Exp(v, v.code[save].ev), [v.code[save + 1] EXCEPT !.wait = FALSE, !.op = "block"])

CloseTry(st, path, s) ==
    LET u == Note(Here(st), path, "end", Buf(st))
        end == [Blank EXCEPT !.op = "jump", !.kind = s.act, !.lt = TRUE, !.fixed = TRUE]
        plain == s.act = "continue" /\ ~s.para
        v == Put(u, IF plain THEN end ELSE [end EXCEPT !.next = Buf(u) + 1])
        w == IF s.para THEN ExpOn(v, Event(path, "para", 0, 0)) ELSE v
        x == Put(Note(w, path, "cond", Buf(w)), [Blank EXCEPT !.op = "try", !.kind = s.act])
    IN IF plain THEN v
       ELSE IF s.act = "goto" THEN [x EXCEPT !.tries = <<Buf(w)>> \o @] ELSE x

\* Mutant: an arm that ends in a jump needs none of its own.
CloseBranchDead(st, key) ==
    IF st.last # 0 /\ st.code[st.last].op = "jump" THEN Note(st, key, "out", st.last)
    ELSE Put(Note(Join(st, Cur(st).next), key, "out", Buf(st)), [Blank EXCEPT !.op = "jump", !.to = Cur(st).next])
\* The jump out of an arm or a task.
CloseBranch(st, key) ==
    LET out == Cur(st).flag = "task" \/ Cur(st).type = "if" \/ Cur(st).ends
        u == IF out THEN Join(st, Cur(st).next) ELSE Here(st)
    IN Put(Note(u, key, "out", Buf(u)), [Blank EXCEPT !.op = "jump", !.fixed = ~out, !.to = Cur(st).next])

\* The end of a block that starts at first; save is where the loop is asked.
Close(st, p, key, first, save) ==
    LET path == Front(key)
        s == Node(p, path)
    IN CASE Cur(st).flag = "fun" ->
              IF EndsInReturn(p) THEN st ELSE Put(Here(st), [Blank EXCEPT !.op = "return"])
         [] Cur(st).flag = "try" -> CloseTry(st, path, s)
         [] Cur(st).flag = "loop" -> CloseLoop(st, path, s, first, save)
         [] OTHER -> CloseBranch(st, key)

CompileBlock(st, p, key) ==
    LET stmts == Block(p, key)
        first == Buf(st)
        fresh == [st EXCEPT !.brk = <<>>, !.cont = <<>>]
        One(u, j) == IF TooDeep(u) THEN u
                     ELSE Label(CompileStatement(u, p, Append(key, j), stmts[j]), p, key, j, first)
        End(u) == IF Cur(u).flag = "loop" THEN EndOfLoop(u, Front(key), Node(p, Front(key))) ELSE u
        Jumps(u) == SetJumps(SetJumps(u, u.brk, "break"), u.cont, "continue")
        Finish(u) == Close(Jumps(End(u)), p, key, first, Cur(u).cond)
    IN Finish(FoldLeft(One, IF stmts = <<>> THEN Label(fresh, p, key, 0, first) ELSE fresh,
                       [j \in 1..Len(stmts) |-> j]))

----------------------------------------------------------------------------
(* Second pass: czl_opcode_create                                            *)

\* Mutant: any jump is skipped, those of a break or the end of a try too.
TargetAny(st, pc) ==
    IF pc <= Len(st.code) /\ st.code[pc].op = "jump" THEN st.code[pc].to ELSE pc
\* Where a block leads to: a jump that stands there is skipped (CZL_IS_OJ).
Target(st, pc) ==
    LET skip == pc <= Len(st.code) /\ st.code[pc].op = "jump" /\ ~st.code[pc].wait /\ ~st.code[pc].fixed
    IN IF skip THEN st.code[pc].to ELSE pc
Next0(st, path) == SetNext(st, Target(st, Noted(st, path, "next")))

RECURSIVE OpcodeCreate(_, _, _, _)

\* The body under header h, which waits for it.
Under(st, p, key, h) ==
    LET u == OpcodeCreate([st EXCEPT !.last = h, !.code[h].wait = TRUE], p, key, TRUE)
    IN [u EXCEPT !.code[h].wait = FALSE]

\* One arm: a is [st, s: the header before, last: the header an else belongs to,
\* end: the jump out of the arm before].
CreateArm(a, p, path, s, c) ==
    LET n == s.childs[c].n
        type == ArmType(s, c)
        key == Append(path, c)
        final == c = Len(s.childs)
        u == Next0(Push(a.st, "branch", type, key, final), path)
        out == Cur(u).next
        h == a.s + 2
        end == h + 2 * (n - 1)
        Odd(v) == [v EXCEPT !.odd = @ \cup (IF type # s.k THEN {"kind"} ELSE {})
                                      \cup (IF s.k = "switch" /\ c = 1 /\ n = 0 THEN {"default"} ELSE {})]
        \* the other conditions lead to the body as well, the last one on
        Cond(v, q) == [v EXCEPT !.code[q].op = IF type = "if" THEN "block" ELSE "case",
                                !.code[q].to = v.code[h].to]
        Conds(v) == FoldLeft(Cond, v, [i \in 1..n |-> h + 2 * (i - 1)])
        On(v) == IF final THEN [v EXCEPT !.code[end].next = out] ELSE v
        \* the arm before goes on with this one
        Through(v) ==
            LET ins == v.code[a.end + 1] IN
            IF a.end = 0 THEN v
            ELSE [v EXCEPT !.code[a.end].to = IF ins.op = "jump" /\ ins.fixed THEN ins.to ELSE a.end + 1,
                           !.odd = IF a.end # Noted(v, Append(path, c - 1), "out") THEN @ \cup {"end"} ELSE @]
        Next1(v) == IF type = "if" THEN [st |-> v, s |-> end, last |-> end, end |-> a.end]
                    ELSE [st |-> Through(v), s |-> end, last |-> end, end |-> Len(v.code)]
    IN IF n = 0 THEN [a EXCEPT !.st = Odd(Pop(OpcodeCreate([u EXCEPT !.last = a.last], p, key, TRUE)))]
       ELSE Next1(On(Conds(Odd(Pop(Under(u, p, key, h))))))

CreateBranch(st, p, path, s) ==
    LET h == Noted(st, path, "cond")
        u == Next0(Push(st, "branch", "if", Append(path, 0), Cur(st).ends), path)
        v == IF s.childs = <<>> THEN [u EXCEPT !.code[h].next = Cur(u).next] ELSE u
        w == IF s.k = "switch" THEN [st EXCEPT !.code[h].op = "switch"]
             ELSE [Pop(Under(v, p, Append(path, 0), h)) EXCEPT !.code[h].op = "block"]
    IN FoldLeft(LAMBDA a, c : CreateArm(a, p, path, s, c),
                [st |-> w, s |-> h, last |-> h, end |-> 0], [c \in 1..Len(s.childs) |-> c]).st

CreateLoop(st, p, path, s) ==
    LET h == Noted(st, path, "cond")
        key == Append(path, 0)
        type == IF s.k = "for" /\ ~s.step THEN "while" ELSE Loop(s)
        u == Next0(Push(st, "loop", type, key, Cur(st).ends), path)
        v == [u EXCEPT !.code[h].next = Cur(u).next]
        op == IF s.cond THEN "block" ELSE "jump"
        w == IF s.k = "foreach" THEN SetCond([v EXCEPT !.code[h].op = "foreach", !.code[h].lt = TRUE], h, TRUE)
             ELSE SetCond([v EXCEPT !.code[h].op = op, !.code[h].kind = op], h - Bit(s.cond), type = "for")
    IN IF Inline(s) THEN Pop(OpcodeCreate(v, p, key, FALSE)) ELSE Pop(Under(w, p, key, h))

CreateTask(st, p, path) ==
    LET h == Noted(st, path, "cond")
        u == Next0(Push(st, "task", "task", Append(path, 0), FALSE), path)
        v == [u EXCEPT !.code[h].next = Cur(u).next]
    IN [Pop(Under(v, p, Append(path, 0), h)) EXCEPT !.code[h].op = "task"]

CreateTry(st, p, path, s) ==
    LET u == Next0(Push(st, "try", s.act, Append(path, 0), FALSE), path)
        v == [u EXCEPT !.code[Noted(u, path, "end")].to = Cur(u).next]
        w == IF s.act = "continue" /\ ~s.para THEN v
             ELSE [v EXCEPT !.code[Noted(u, path, "cond")].to = Cur(u).next]
    IN Pop(OpcodeCreate(w, p, Append(path, 0), FALSE))

OpcodeCreate(st, p, key, flag) ==
    LET One(u, j) ==
            LET s == Block(p, key)[j]
                path == Append(key, j)
            IN CASE TooDeep(u) -> u
                 [] s.k \in {"if", "switch"} -> CreateBranch(u, p, path, s)
                 [] s.k \in Loops -> CreateLoop(u, p, path, s)
                 [] s.k = "task" -> CreateTask(u, p, path)
                 [] s.k = "try" -> CreateTry(u, p, path, s)
                 [] OTHER -> u
    IN FoldLeft(One, IF flag THEN CompileBlock(st, p, key) ELSE st,
                [j \in 1..Len(Block(p, key)) |-> j])

\* czl_goto_init and czl_try_goto_init: at the label a jump is skipped.
SetGoto(st, goto) ==
    LET at == IF st.code[st.label].op = "jump" THEN st.code[st.label].to ELSE st.label
        u == [st EXCEPT !.label = at, !.code[goto.pc].op = "jump", !.code[goto.pc].to = at]
    IN IF goto.header = 0 THEN u ELSE [u EXCEPT !.code[goto.header].to = at]
SetTryGoto(st, pc) ==
    LET at == IF st.code[st.label].op = "jump" THEN st.code[st.label].to ELSE st.label
    IN [st EXCEPT !.label = at, !.code[pc].to = at]

\* czl_ast_serialize
Serialize(p) ==
    LET fun == [Garbage EXCEPT !.flag = "fun", !.type = "fun", !.key = <<0>>]
        Gotos(st) == FoldLeft(SetTryGoto, FoldLeft(SetGoto, st, st.gotos), st.tries)
    IN Gotos(OpcodeCreate([Empty EXCEPT !.slots[0] = fun], p, <<0>>, TRUE))

----------------------------------------------------------------------------
(* The machine (czl_fun_run): from an instruction, with the value computed    *)
(* last, to the next whose outcome is open or to where the function ends.     *)
Open == {"exp", "foreach"}
Outside(code, pc) == pc \notin DOMAIN code \/ code[pc].op = "none"
Follow(code, pc, val) ==
    LET ins == code[pc]
    IN CASE ins.op \in {"block", "case", "task"} -> IF val THEN ins.to ELSE ins.next
         [] ins.op \in {"jump", "sleep", "try"} -> ins.to
         [] ins.op \in {"switch", "init"} -> pc + 1
Stops(code, pc) == \/ Outside(code, pc)
                   \/ code[pc].op \in Open \cup {"return"}
                   \/ code[pc].op = "try" /\ code[pc].kind = "exit"
RECURSIVE Settle(_, _, _, _)
Settle(code, pc, val, n) ==
    IF n = 0 \/ Stops(code, pc) THEN pc ELSE Settle(code, Follow(code, pc, val), val, n - 1)
Run(code, pc, val) == Settle(code, pc, val, MaxSilent)
EventAt(code, pc) ==
    IF Outside(code, pc) THEN <<"crash">>
    ELSE CASE code[pc].op = "exp" -> code[pc].ev
           [] code[pc].op = "foreach" -> [code[pc].ev EXCEPT ![4] = IF code[pc].lt THEN 0 ELSE 1]
           [] code[pc].op = "return" -> <<"end">>
           [] code[pc].op = "try" /\ code[pc].kind = "exit" -> <<"exit">>
           [] OTHER -> <<"spin">>
Result(code, pc, val) ==
    IF code[pc].op = "exp" THEN pc + 1 ELSE IF val THEN code[pc].to ELSE code[pc].next

\* czl_try_find: the end of the try is looked for along next; 0 is none.  A
\* function that the script registered for exceptions (exceptionFuns), at which a
\* return met on the way ends the search, is left out: no program here has one.
RECURSIVE TryFind(_, _, _)
TryFind(code, pc, n) ==
    IF n = 0 \/ Outside(code, pc) THEN 0
    ELSE IF code[pc].op = "jump" /\ code[pc].lt THEN pc ELSE TryFind(code, code[pc].next, n - 1)
\* What a try says to do with an exception: the instruction to go on at.  Where
\* it has an expression to evaluate first, the try instruction behind is set to
\* lead to the instruction that follows the one that failed.  What a condition
\* that failed leaves to be tested (8908-8909) is left open, see Throw.
Catch(code, pc) ==
    LET t == TryFind(code, pc, Len(code) + 1)
        resume == code[pc].next
    IN IF t = 0 THEN [code |-> code, pc |-> 0]
       ELSE IF code[t].kind # "continue" THEN [code |-> code, pc |-> code[t].next]
       ELSE IF code[t].next = 0 THEN [code |-> code, pc |-> resume]
       ELSE [code |-> [code EXCEPT ![t + 2].to = resume], pc |-> code[t].next]

----------------------------------------------------------------------------
(* What the tree says                                                        *)

\* A place in the tree: before a statement of a block, or a loop that goes on.
Before(key, j) == <<"before", key, j>>
After(path) == Before(Front(path), Last(path) + 1)
Within(path, c) == Before(Append(path, c), 1)
Again(path) == <<"again", path>>
\* The innermost statement of some kinds around one.
Around(p, path, kinds) ==
    LET ns == {n \in 1..(Len(path) \div 2 - 1) : Node(p, SubSeq(path, 1, 2 * n)).k \in kinds}
    IN IF ns = {} THEN <<>> ELSE SubSeq(path, 1, 2 * Max(ns))
TestOf(path, s) == IF s.cond THEN Event(path, "cond", 0, 0) ELSE Within(path, 0)

\* The end of a block; a case goes on with the case that follows.
AtEnd(p, key) ==
    LET path == Front(key)
        s == Node(p, path)
        c == Last(key)
    IN CASE path = <<>> -> <<"end">>
         [] s.k \in Loops -> Again(path)
         [] s.k = "switch" /\ c < Len(s.childs) -> IF s.childs[c + 1].n > 0 THEN Within(path, c + 1) ELSE After(path)
         [] OTHER -> After(path)

Enter(p, path, s) ==
    CASE s.k = "exp" -> Event(path, "exp", 0, 0)
      [] s.k \in {"if", "switch", "task"} -> Event(path, "cond", 0, 0)
      [] s.k = "for" /\ s.init -> Event(path, "init", 0, 0)
      [] s.k = "while" \/ (s.k = "for" /\ ~s.init) -> TestOf(path, s)
      [] s.k = "foreach" -> Event(path, "each", 0, 0)
      [] s.k \in {"do", "timer", "try"} -> Within(path, 0)
      [] s.k = "return" -> IF s.cond THEN Event(path, "exp", 0, 0) ELSE <<"end">>
      [] s.k = "break" -> After(Around(p, path, Loops \cup {"switch"}))
      [] s.k = "continue" -> Again(Around(p, path, Loops))
      [] s.k = "goto" -> Before(p.label[1], p.label[2] + 1)

GoOn(path, s) ==
    CASE s.k = "for" /\ s.step -> Event(path, "step", 0, 0)
      [] s.k = "foreach" -> Event(path, "each", 0, 1)
      [] OTHER -> TestOf(path, s)

RECURSIVE Reach(_, _, _)
Reach(p, at, n) ==
    IF n = 0 THEN <<"spin">>
    ELSE CASE Len(at) = 3 ->
                LET path == Append(at[2], at[3])
                IN Reach(p, IF at[3] > Len(Block(p, at[2])) THEN AtEnd(p, at[2])
                            ELSE Enter(p, path, Node(p, path)), n - 1)
           [] Len(at) = 2 -> Reach(p, GoOn(at[2], Node(p, at[2])), n - 1)
           [] OTHER -> at
Arrive(p, at) == Reach(p, at, MaxSilent)

\* The arm that is tried from the c-th on.
TryArm(path, s, c) ==
    IF c > Len(s.childs) THEN After(path)
    ELSE IF s.childs[c].n = 0 THEN Within(path, c) ELSE Event(path, "arm", c, 1)

\* What follows an event.
Then(p, ev, val) ==
    LET path == ev[1]
        s == Node(p, path)
        If(place, other) == IF val THEN place ELSE other
    IN CASE ev[2] = "exp" -> IF s.k = "return" THEN <<"end">> ELSE After(path)
         [] ev[2] = "cond" /\ s.k = "if" -> If(Within(path, 0), TryArm(path, s, 1))
         [] ev[2] = "cond" /\ s.k = "switch" -> TryArm(path, s, 1)
         [] ev[2] = "cond" /\ s.k = "timer" -> Within(path, 0)
         [] ev[2] = "cond" /\ s.k \notin {"if", "switch", "timer"} -> If(Within(path, 0), After(path))
         [] ev[2] = "each" -> If(Within(path, 0), After(path))
         [] ev[2] \in {"init", "step"} -> TestOf(path, s)
         [] ev[2] = "arm" ->
              If(Within(path, ev[3]), IF ev[4] < s.childs[ev[3]].n THEN Event(path, "arm", ev[3], ev[4] + 1)
                                      ELSE TryArm(path, s, ev[3] + 1))

\* What a try does with an exception, after its own expression.
Handled(p, path, back) ==
    LET s == Node(p, path)
    IN CASE s.act = "continue" -> back
         [] s.act = "break" -> After(path)
         [] s.act = "goto" -> Before(p.label[1], p.label[2] + 1)
         [] s.act = "exit" -> <<"exit">>

----------------------------------------------------------------------------
VARIABLES
    prog,   \* the function
    st,     \* the code written of it, which is patched while it runs; its oddities
    pc,     \* the machine: the instruction it has come to
    at,     \* the tree: the event it has come to
    back    \* after the expression of a try: the value left, the event that follows
vars == <<prog, st, pc, at, back>>

None == [val |-> FALSE, at |-> <<"end">>]
Init ==
    \E p \in Programs :
        /\ prog = p
        /\ \E done \in {Serialize(p)} :
              /\ st = [code |-> done.code, odd |-> done.odd]
              /\ pc = Run(done.code, 1, FALSE)
        /\ at = Arrive(p, Before(<<0>>, 1))
        /\ back = None

\* The run is followed in programs that are written without an oddity.
Running == st.odd = {} /\ Len(at) = 4 /\ ~Outside(st.code, pc) /\ st.code[pc].op \in Open
InPara == at[2] = "para"

\* An expression is evaluated, or a foreach takes what comes next.
Step ==
    /\ Running
    /\ ~InPara
    /\ \E val \in BOOLEAN :
          /\ pc' = Run(st.code, Result(st.code, pc, val), val)
          /\ at' = Arrive(prog, Then(prog, at, val))
    /\ UNCHANGED <<prog, st, back>>
\* The expression of a try; what the condition that had failed left is read.
StepPara ==
    /\ Running
    /\ InPara
    /\ pc' = Run(st.code, Result(st.code, pc, FALSE), back.val)
    /\ at' = Arrive(prog, Handled(prog, at[1], back.at))
    /\ back' = None
    /\ UNCHANGED <<prog, st>>

\* A try that follows where next leads, before the end of the try around: a
\* statement behind, in a body that is laid out at once or in an else.  It is
\* taken for the one that catches.
RECURSIVE HoldsTry(_)
ElseHoldsTry(s) == s.k = "if" /\ s.childs # <<>> /\ Last(s.childs).n = 0 /\ HoldsTry(Last(s.childs).body)
HoldsTry(stmts) == \E i \in DOMAIN stmts : LET s == stmts[i]
                                           IN \/ s.k = "try"
                                              \/ Inline(s) /\ HoldsTry(s.body)
                                              \/ ElseHoldsTry(s)
TryBehind(p, path, try) ==
    \/ ElseHoldsTry(Node(p, path))
    \/ \E n \in (Len(try) \div 2 + 1)..(Len(path) \div 2) :
          LET stmts == Block(p, SubSeq(path, 1, 2 * n - 1))
          IN HoldsTry(SubSeq(stmts, path[2 * n] + 1, Len(stmts)))

\* An exception in a try; what it leaves as a value is open.
Throw ==
    /\ Running
    /\ ~InPara
    /\ Around(prog, at[1], {"try"}) # <<>>
    /\ LET path == Around(prog, at[1], {"try"})
           try == Node(prog, path)
       IN \E val \in BOOLEAN, caught \in {Catch(st.code, pc)} :
          \E next \in {IF at[2] = "each" THEN After(at[1]) ELSE Then(prog, at, val)} :
             /\ pc' = IF caught.pc = 0 THEN 0 ELSE Run(caught.code, caught.pc, val)
             /\ at' = IF try.para THEN Event(path, "para", 0, 0)
                      ELSE Arrive(prog, Handled(prog, path, next))
             /\ back' = IF try.para THEN [val |-> val, at |-> Arrive(prog, next)] ELSE None
             /\ st' = [code |-> caught.code,
                       odd |-> (IF caught.pc = 0 THEN {"lost"} ELSE {})
                               \cup (IF TryBehind(prog, at[1], path) THEN {"later"} ELSE {})]
    /\ UNCHANGED prog

Next == Step \/ StepPara \/ Throw
Spec == Init /\ [][Next]_vars

----------------------------------------------------------------------------
\* The machine is at the instruction of the event the tree is at: the jumps
\* patched in two passes, shortened through other jumps, lead where the nesting
\* of the statements says, also after an exception.
InStep == st.odd = {} => EventAt(st.code, pc) = at

\* czl_get_ast_size counts every instruction czl_ast_serialize writes, in the
\* array allocated for that many.
SizeExact == Len(st.code) = AstSize(prog.body) + Bit(~EndsInReturn(prog))
=============================================================================
