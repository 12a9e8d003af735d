------------------------------- MODULE Calls -------------------------------
(* Calls: what a function saves, what it gives back, and exceptions that      *)
(* leave it.  A function has one array of variables (at, buffer 0), whose     *)
(* addresses are in its instructions, and one set of registers and loop       *)
(* counters.  A call of a function that is already running therefore moves    *)
(* the variables of the running one to a buffer (backup) and back; references *)
(* to variables follow.  A function that can yield is not called twice; its   *)
(* variables are moved away when it is suspended.                             *)
(*                                                                           *)
(* m is the machine.  s is what the script means: a stack of calls, each with *)
(* variables of its own.  Both are driven by the same script, which decides    *)
(* at every step what comes next.                                             *)
(*                                                                           *)
(* Not every script runs as it is written.  The reasons met are known to the   *)
(* model only, in odd, and the run is followed as far as the first:           *)
(*   nested   a call of a function while the arguments of its own recursive   *)
(*            call are evaluated: the instructions see the variables of the   *)
(*            caller                                                          *)
(*   kept     a variable that held a reference, in an earlier call or in the  *)
(*            one that is moved away, keeps its record, which is then taken   *)
(*            for the list of those that refer to it                          *)
(*   home     the record of a reference says it is held where it is not any   *)
(*            more: an argument of a recursive call, or a suspended variable  *)
(*   bare     a function without variables reads back its registers from the  *)
(*            wrong buffer                                                    *)
(*   grab     a method without variables is free for another instance as soon *)
(*            as an inner call returns                                        *)
(*   missed   a try is not looked for: the function asked is another one      *)
(*   past     a try is looked for where there is none, past the end           *)
(*   wrong    a call that fails is suspended, or one that should be is not,   *)
(*            because of the function it had called                           *)
(*   forgot   a generator starts anew because a coroutine of it has ended     *)
EXTENDS Naturals, Sequences, SequencesExt, FiniteSets, FiniteSetsExt, Functions, TLC

CONSTANTS
    Scripts,    \* records: the functions and what the script does
    Coroutines, \* names of coroutines
    Instances,  \* of a class, numbers
    MaxDepth    \* bound: calls within calls

ASSUME CallsAssumption == MaxDepth \in 1..6

VARIABLES script, m, s
vars == <<script, m, s>>

----------------------------------------------------------------------------
(* The machine *)

\* What a variable holds: a number or the address of the variable it refers to;
\* its name is the record of the reference it is (node) or the list of those
\* that refer to it.  An address is a buffer of a function and an index; the
\* last buffer of a function, and the one of a coroutine, hold what is suspended.
Null == <<>>
Blank == [v |-> 0, to |-> Null, node |-> 0, refs |-> {}]
IsRef(c) == c.to # Null
Named(c) == ~IsRef(c) /\ (c.node # 0 \/ c.refs # {})    \* CZL_VAR_EXIST_REF
Asleep == MaxDepth + 1
Unknown == 9    \* a value the script cannot know
Marker == 8     \* CZL_FUNCTION, the type of a register while the first operand runs
Odd(x, what, cond) == IF cond THEN [x EXCEPT !.odd = @ \cup {what}] ELSE x

\* czl_ref_obj_update: the references of a list refer to a.
Follow(x, ns, a) ==
    FoldSet(LAMBDA n, y : Odd([y EXCEPT !.mem[y.node[n]].to = a], "home", y.mem[y.node[n]].node # n), x, ns)

\* czl_ref_copy and what follows it: l refers to t.  The record l still has is used again.
RefCopy(x, l, t) ==
    LET n == IF x.mem[l].node # 0 THEN x.mem[l].node ELSE Min({k \in DOMAIN x.node : x.node[k] = Null})
        y == IF x.mem[l].node # 0 THEN x ELSE [x EXCEPT !.node[n] = l]
    IN Odd([y EXCEPT !.mem[l].to = t, !.mem[l].node = n, !.mem[t].refs = @ \cup {n}],
           "kept", x.mem[t].node # 0 \/ y.node[n] # l)

\* czl_ref_break
RefBreak(x, a) == [x EXCEPT !.mem[x.mem[a].to].refs = @ \ {x.mem[a].node}]
\* czl_val_del, of a reference with its record
ValDel(x, a) ==
    IF ~IsRef(x.mem[a]) THEN x
    ELSE [RefBreak(x, a) EXCEPT !.mem[a].to = Null, !.mem[a].node = 0, !.node[x.mem[a].node] = Null]
\* czl_ref_obj_delete: whoever refers to a gets its value.
RefObjDelete(x, a) ==
    LET One(n, y) == Odd([y EXCEPT !.mem[y.node[n]] = [Blank EXCEPT !.v = x.mem[a].v], !.node[n] = Null],
                         "home", y.mem[y.node[n]].node # n)
    IN Odd([FoldSet(One, x, x.mem[a].refs) EXCEPT !.mem[a].refs = {}], "kept", x.mem[a].node # 0)
Release(x, a) == IF Named(x.mem[a]) THEN RefObjDelete(x, a) ELSE x

Upto(n) == [i \in 1..n |-> i]
Each(op(_, _), x, n) == FoldLeft(op, x, Upto(n))
Calls(x, f) == {k \in DOMAIN x.ctl : x.ctl[k].fn = f}

----------------------------------------------------------------------------
(* Recursion *)

\* czl_fun_local_vars_backup: a new buffer, for the arguments.
Backup(x, f) ==
    LET g == x.fun[f]
        b == Min((0..MaxDepth) \ ({g.at} \cup ToSet(g.backup)))
    IN IF g.vars = 0 /\ ~g.rest THEN x
       ELSE [x EXCEPT !.fun[f] = [g EXCEPT !.backup = Append(g.backup, g.at), !.at = b, !.state = "recursion",
                                           !.saved = Append(g.saved, <<g.reg, g.cnt>>), !.reg = 0]]

\* Mutant: references to a variable that moves stay where they are.
SetLeavesRefs(x, f) ==
    LET g == x.fun[f]
        old == Last(g.backup)
        Swap(y, i) == [y EXCEPT !.mem[<<f, old, i>>] = y.mem[<<f, g.at, i>>],
                                !.mem[<<f, g.at, i>>] = y.mem[<<f, old, i>>]]
    IN [Each(Swap, x, g.vars) EXCEPT !.fun[f].backup = Append(Front(g.backup), g.at), !.fun[f].at = old]

\* czl_loc_vars_set: the variables of the caller and the arguments change places.
LocVarsSet(x, f) ==
    LET g == x.fun[f]
        old == Last(g.backup)
        P(i) == <<f, old, i>>
        Q(i) == <<f, g.at, i>>
        Argument(a) == a[1] = f /\ a[2] = g.at /\ a[3] <= g.params
        \* what refers to a variable that is now at Q(i), but for the arguments
        Moved(y, i) ==
            LET c == y.mem[Q(i)]
            IN IF IsRef(c) THEN [y EXCEPT !.node[c.node] = Q(i)]
               ELSE Odd(Follow(y, {n \in c.refs : ~Argument(y.node[n])}, Q(i)), "kept", c.node # 0)
        Swap(y, i) ==
            LET c == y.mem[Q(i)]
                own == IsRef(c) /\ c.to[1] = f /\ c.to[2] = old
                d == IF own THEN [c EXCEPT !.to = Q(c.to[3])] ELSE c
                z == IF own THEN [y EXCEPT !.node[c.node] = P(i)] ELSE y
            IN Moved([z EXCEPT !.mem[P(i)] = d, !.mem[Q(i)] = y.mem[P(i)]], i)
        Move(y, i) ==
            LET c == y.mem[P(i)]
            IN Moved([y EXCEPT !.mem[Q(i)] = c,
                               !.mem[P(i)] = IF IsRef(c) THEN [c EXCEPT !.to = Null] ELSE [c EXCEPT !.refs = {}]], i)
        Place(y, i) == IF i <= g.params THEN Swap(y, i) ELSE Move(y, i)
    IN [Each(Place, x, g.vars) EXCEPT !.fun[f].backup = Append(Front(g.backup), g.at), !.fun[f].at = old]

\* czl_fun_local_vars_restore
Restore(x, f) ==
    LET g == x.fun[f]
        from == Last(g.backup)
        Back(y, i) ==
            LET p == <<f, g.at, i>>
                c == y.mem[<<f, from, i>>]
                z == [Release(ValDel(y, p), p) EXCEPT !.mem[p] = c, !.mem[<<f, from, i>>] = Blank]
            IN IF IsRef(c) THEN [z EXCEPT !.node[c.node] = p] ELSE Follow(z, c.refs, p)
        y == Each(Back, x, g.vars)
    IN IF g.vars = 0 /\ ~g.rest THEN x
       ELSE Odd([y EXCEPT !.fun[f] = [g EXCEPT !.reg = Last(g.saved)[1], !.cnt = Last(g.saved)[2],
                                               !.saved = Front(@), !.backup = Front(@),
                                               !.state = IF Len(g.backup) = 1 THEN "busy" ELSE @]],
                "bare", g.vars = 0)

\* Mutant: a reference that ends stays on the list.
FreeKeepsListed(x, buf, n) ==
    LET One(y, i) == LET a == Append(buf, i) IN [Release(y, a) EXCEPT !.mem[a].to = Null]
    IN Each(One, x, n)

\* czl_loc_vars_free, of the first n in a buffer: records of references are kept.
LocVarsFree(x, buf, n) ==
    LET One(y, i) == LET a == Append(buf, i)
                         z == Release(y, a)
                     IN IF IsRef(z.mem[a]) THEN [RefBreak(z, a) EXCEPT !.mem[a].to = Null] ELSE z
    IN Each(One, x, n)

\* czl_fun_local_vars_free
LocalVarsFree(x, f) ==
    [LocVarsFree(x, <<f, x.fun[f].at>>, x.fun[f].vars)
        EXCEPT !.fun[f].cur = 0, !.fun[f].pc = FALSE, !.fun[f].state = "idle"]
\* czl_fun_local_vars_clean
Clean(x, f) == IF x.fun[f].state = "busy" THEN LocalVarsFree(x, f) ELSE Restore(x, f)

----------------------------------------------------------------------------
(* Suspension *)

\* czl_coroutine_paras_backup: the variables of f go to buf.
ParasBackup(x, f, buf) ==
    LET One(y, i) ==
            LET c == y.mem[<<f, 0, i>>]
                a == Append(buf, i)
                z == IF Named(c) THEN Odd(Follow(y, c.refs, a), "kept", c.node # 0) ELSE y
            IN [z EXCEPT !.mem[a] = c, !.mem[<<f, 0, i>>] = [Blank EXCEPT !.v = c.v]]
    IN [Each(One, x, x.fun[f].vars) EXCEPT !.held[buf] = x.fun[f].cnt]
\* czl_coroutine_paras_copy: and come back.
ParasCopy(x, f, buf) ==
    LET One(y, i) ==
            LET c == y.mem[Append(buf, i)]
                p == <<f, 0, i>>
                d == IF c.node = 0 /\ c.refs = {} THEN [y.mem[p] EXCEPT !.v = c.v] ELSE c
                z == IF Named(c) THEN Odd(Follow(y, c.refs, p), "kept", c.node # 0) ELSE y
            IN [z EXCEPT !.mem[p] = d, !.mem[Append(buf, i)] = [Blank EXCEPT !.v = c.v]]
    IN [Each(One, x, x.fun[f].vars) EXCEPT !.fun[f].cnt = x.held[buf]]
\* czl_vars_delete: a record that was kept is known by its looks.
VarsDelete(x, buf, n) ==
    LET One(y, i) ==
            LET a == Append(buf, i)
                c == y.mem[a]
                z == IF Named(c) /\ c.node # 0 THEN [y EXCEPT !.node[c.node] = Null, !.mem[a].node = 0]
                     ELSE Release(y, a)
            IN [ValDel(z, a) EXCEPT !.mem[a].v = 0]
    IN Each(One, x, n)

\* Where a call of a function that yields keeps its variables.
Store(e) == IF e.co = "" THEN <<e.fn, Asleep>> ELSE <<e.co, 0>>
Suspend(x, e) ==
    LET y == [ParasBackup(x, e.fn, Store(e)) EXCEPT !.fun[e.fn].state = "idle", !.fun[e.fn].cur = 0]
    IN IF e.co = "" THEN [y EXCEPT !.fun[e.fn].pc = TRUE] ELSE [y EXCEPT !.co[e.co].pc = TRUE]
\* The end of czl_coroutine_run: the coroutine can start again, or is deleted.
CoroutineEnd(x, e) ==
    LET y == VarsDelete(x, <<e.fn, 0>>, x.fun[e.fn].vars)
    IN Odd([y EXCEPT !.fun[e.fn].state = "idle", !.fun[e.fn].cur = 0, !.fun[e.fn].pc = FALSE,
                     !.co[e.co] = IF @.again THEN [@ EXCEPT !.pc = FALSE] ELSE [@ EXCEPT !.live = FALSE, !.pc = FALSE]],
           "forgot", x.fun[e.fn].pc)
Leave(x, e) == IF e.co # "" THEN CoroutineEnd(x, e) ELSE Clean(x, e.fn)
Pop(x) == [x EXCEPT !.ctl = Front(@), !.ins = Last(x.ctl).ins]

----------------------------------------------------------------------------
(* Calls and exceptions *)

\* Why czl_fun_run_prepare refuses: a method another instance is in
\* (czl_set_class_fun_vars), a function that yields and is running.
Refused(x, f) == \/ x.fun[f].method /\ x.fun[f].cur # 0 /\ x.fun[f].cur # x.ins
                 \/ x.fun[f].yeild /\ x.fun[f].state # "idle"
Bind(x, f) ==
    IF x.fun[f].method /\ x.fun[f].cur = 0
    THEN Odd([x EXCEPT !.fun[f].cur = x.ins, !.fun[f].bound = x.ins],
             "grab", Calls(x, f) # {} /\ x.fun[f].bound # x.ins)
    ELSE x
\* czl_fun_run_prepare, up to the arguments; own: called by czl_exp_fun_run, in a
\* czl_fun_run of its own, not by an instruction (CZL_RUF) of the same.
Prepare(x, f, own, two, ins) ==
    LET y == Bind([x EXCEPT !.ins = ins], f)
        g == y.fun[f]
        buf == <<f, Asleep>>
        z == IF g.state # "idle" THEN Odd(Backup(y, f), "nested", g.vars > 0 /\ g.at # 0)
             ELSE [IF g.yeild /\ g.pc THEN ParasCopy(LocVarsFree(y, buf, g.params), f, buf) ELSE y
                   EXCEPT !.fun[f].state = "busy"]
    IN [z EXCEPT !.ctl = Append(@, [fn |-> f, own |-> own, run |-> FALSE, n |-> 0, need |-> g.params,
                                    two |-> two, try |-> FALSE, co |-> "", ins |-> x.ins])]

\* czl_exception_handle and, between the czl_fun_run it ends, the ends of
\* czl_fun_run_prepare, czl_exp_fun_run and czl_coroutine_run.  The function
\* asked for a try is the one at the bottom, then the one just left.
Bottom(x) == x.ctl[Max({k \in DOMAIN x.ctl : x.ctl[k].run /\ x.ctl[k].own})].fn
Undo(x, e) ==
    LET g == x.fun[e.fn]
    IN Leave(IF g.state = "recursion" /\ g.vars > 0 THEN LocVarsSet(x, e.fn) ELSE x, e)
RECURSIVE Unwind(_, _)
Unwind(x, left) ==
    IF x.ctl = <<>> \/ x.odd # {} THEN x
    ELSE LET e == Last(x.ctl)
             asked == x.fun[IF left = "" THEN Bottom(x) ELSE left]
             Out == IF x.fun[e.fn].yeild THEN Suspend(x, e) ELSE Clean(x, e.fn)
         IN CASE ~e.run -> Unwind(Pop(Undo(x, e)), "")
              [] e.run /\ asked.try -> IF e.try THEN [x EXCEPT !.ctl[Len(x.ctl)].try = FALSE] ELSE Odd(x, "past", TRUE)
              [] e.run /\ ~asked.try /\ e.try -> Odd(x, "missed", TRUE)
              [] e.run /\ ~asked.try /\ ~e.try /\ ~e.own -> Unwind(Pop(Out), e.fn)
              [] OTHER -> IF asked.yeild # x.fun[e.fn].yeild THEN Odd(x, "wrong", TRUE) ELSE Unwind(Pop(Out), "")

----------------------------------------------------------------------------
(* What the script means: every call has variables, a register, a loop       *)
(* counter and an instance of its own; a reference names a variable of a     *)
(* call.  Who has yielded is asleep and keeps its variables.                 *)

Var(v) == [v |-> v, to |-> Null]
IdOf(a) == SubSeq(a, 1, 2)
ValueOf(t, a) == t.of[IdOf(a)][a[3]].v
\* Variables end: whoever refers to one has its value from now on.
Drop(t, id, is) ==
    LET Cell(c) == IF c.to # Null /\ IdOf(c.to) = id /\ c.to[3] \in is THEN Var(ValueOf(t, c.to)) ELSE c
    IN [t EXCEPT !.of = [j \in DOMAIN t.of |-> [i \in DOMAIN t.of[j] |->
            IF j = id /\ i \in is THEN Var(Unknown) ELSE Cell(t.of[j][i])]]]
Gone(t, id) == [Drop(t, id, DOMAIN t.of[id]) EXCEPT !.of[id] = <<>>, !.asleep = @ \ {id}]
EnterCall(t, f, id, g, two, ins) ==
    LET u == IF id \in t.asleep THEN t ELSE [t EXCEPT !.of[id] = [i \in 1..g.vars |-> Var(Unknown)], !.cnt[id] = Unknown]
    IN [u EXCEPT !.stack = Append(@, [id |-> id, fn |-> f, run |-> FALSE, two |-> two, reg |-> Unknown,
                                      try |-> FALSE, ins |-> ins]),
                 !.asleep = @ \ {id}]
Sleeps(t, e) == [t EXCEPT !.asleep = @ \cup {e.id}]
\* An exception ends the calls up to the innermost try; who can yield falls asleep.
Unwound(t) ==
    LET k == Max({0} \cup {j \in DOMAIN t.stack : t.stack[j].run /\ t.stack[j].try})
        End(u, e) == IF e.run /\ m.fun[e.fn].yeild THEN Sleeps(u, e) ELSE Gone(u, e.id)
        u == FoldLeft(End, t, Reverse(SubSeq(t.stack, k + 1, Len(t.stack))))
    IN [u EXCEPT !.stack = [j \in 1..k |-> IF j = k THEN [@[j] EXCEPT !.try = FALSE, !.reg = Unknown] ELSE @[j]],
                 !.live = {c \in u.live : ~\E j \in (k + 1)..Len(t.stack) : /\ t.stack[j].id = <<c, 0>>
                                                                            /\ ~t.stack[j].run /\ ~m.co[c].again}]

----------------------------------------------------------------------------
(* The script *)

Init ==
    \E sc \in Scripts :
        LET fs == DOMAIN sc.funs
            bufs == {<<f, b>> : f \in fs, b \in 0..Asleep} \cup {<<c, 0>> : c \in Coroutines}
            Size(buf) == Max({sc.funs[f].vars : f \in fs})
            ids == {<<f, k>> : f \in fs, k \in 0..MaxDepth} \cup {<<c, 0>> : c \in Coroutines}
        IN /\ script = sc.does
           /\ m = [mem |-> [a \in UNION {{Append(buf, i) : i \in 1..Size(buf)} : buf \in bufs} |-> Blank],
                   node |-> [n \in 1..(2 * MaxDepth + 2) |-> Null],
                   fun |-> [f \in fs |->
                       sc.funs[f] @@ [state |-> IF f = "main" THEN "busy" ELSE "idle", at |-> 0, backup |-> <<>>,
                                      saved |-> <<>>, reg |-> 0, cnt |-> 0, pc |-> FALSE, cur |-> 0, bound |-> 0]],
                   co |-> [c \in Coroutines |-> [live |-> FALSE, pc |-> FALSE, again |-> FALSE, fn |-> "main"]],
                   held |-> [buf \in bufs |-> 0],
                   ctl |-> <<[fn |-> "main", own |-> TRUE, run |-> TRUE, n |-> 0, need |-> 0, two |-> FALSE,
                              try |-> FALSE, co |-> "", ins |-> 0]>>,
                   ins |-> 0, odd |-> {}]
           /\ s = [of |-> [id \in ids |-> IF id = <<"main", 1>> THEN [i \in 1..sc.funs["main"].vars |-> Var(Unknown)] ELSE <<>>],
                   cnt |-> [id \in ids |-> Unknown],
                   stack |-> <<[id |-> <<"main", 1>>, fn |-> "main", run |-> TRUE, two |-> 0, reg |-> Unknown,
                                try |-> FALSE, ins |-> 0]>>,
                   asleep |-> {}, live |-> {}]

Runs == m.odd = {} /\ m.ctl # <<>>
Top == Last(m.ctl)
STop == Last(s.stack)
Does(what) == what \in script
Tag == Len(m.ctl)       \* what a call writes
\* The call whose instructions are executed: it evaluates the arguments.
Reader == m.ctl[Max({k \in DOMAIN m.ctl : m.ctl[k].run})]
SReader == s.stack[Max({k \in DOMAIN s.stack : s.stack[k].run})]
Vars == 1..m.fun[Reader.fn].vars
\* The variable its instructions name, CZL_GRV.
Here(i) == LET a == <<Reader.fn, 0, i>> IN IF IsRef(m.mem[a]) THEN m.mem[a].to ELSE a
SHere(i) == LET c == s.of[SReader.id][i] IN IF c.to # Null THEN c.to ELSE Append(SReader.id, i)

Fails == m' = Unwind(m, "") /\ s' = Unwound(s)
Keep == UNCHANGED script
SId(f) == <<f, IF m.fun[f].yeild THEN 0 ELSE Len(s.stack) + 1>>
MayCall(own) == /\ Runs
                /\ Len(m.ctl) < MaxDepth
                /\ (Top.run \/ (Does("nest") /\ own /\ Top.n < Top.need))
Taken(f, ins) == \E k \in DOMAIN s.stack : /\ s.stack[k].fn = f
                                           /\ (m.fun[f].yeild \/ (m.fun[f].method /\ s.stack[k].ins # ins))

\* A call, of a method of an instance or of the same instance.
Call(f, own, two, ins) ==
    /\ MayCall(own)
    /\ two => ~own /\ m.fun[Top.fn].rest /\ Does("temp")
    /\ IF m.fun[f].method THEN own \/ (m.fun[Reader.fn].method /\ ins = m.ins) ELSE ins = m.ins
    /\ LET x == IF two THEN [m EXCEPT !.fun[Top.fn].reg = Marker] ELSE m
           t == IF two THEN [s EXCEPT !.stack[Len(s.stack)].reg = Unknown] ELSE s
       IN /\ m' = IF Refused([x EXCEPT !.ins = ins], f) THEN Unwind(x, "") ELSE Prepare(x, f, own, two, ins)
          /\ s' = IF Taken(f, ins) THEN Unwound(t)
                  ELSE EnterCall(Drop(t, SId(f), IF SId(f) \in t.asleep THEN 1..m.fun[f].params ELSE {}),
                                 f, SId(f), m.fun[f], IF two THEN 1 ELSE 0, ins)
    /\ Keep

\* An argument: a number, a variable or, of a parameter with &, a reference.
Argument ==
    /\ Runs
    /\ ~Top.run
    /\ Top.n < Top.need
    /\ LET to == <<Top.fn, m.fun[Top.fn].at, Top.n + 1>>
           d == Len(m.ctl)
           x == [m EXCEPT !.ctl[d].n = @ + 1]
       IN IF m.fun[Top.fn].ref
          THEN \E i \in Vars :
                 /\ m' = RefCopy(x, to, Here(i))
                 /\ s' = [s EXCEPT !.of[STop.id][Top.n + 1] = [v |-> 0, to |-> SHere(i)]]
          ELSE \/ /\ m' = [x EXCEPT !.mem[to].v = Tag]
                  /\ s' = [s EXCEPT !.of[STop.id][Top.n + 1] = Var(Tag)]
               \/ \E i \in Vars :
                    /\ m' = [x EXCEPT !.mem[to].v = m.mem[Here(i)].v]
                    /\ s' = [s EXCEPT !.of[STop.id][Top.n + 1] = Var(ValueOf(s, SHere(i)))]
    /\ Keep
\* All are there (the end of czl_fun_run_prepare): the function runs.
Start ==
    /\ Runs
    /\ ~Top.run
    /\ Top.n = Top.need
    /\ LET g == m.fun[Top.fn]
           x == IF g.state = "recursion" /\ g.vars > 0 THEN LocVarsSet(m, Top.fn) ELSE m
       IN m' = [x EXCEPT !.ctl[Len(m.ctl)].run = TRUE]
    /\ s' = [s EXCEPT !.stack[Len(s.stack)].run = TRUE]
    /\ Keep

\* What a call gives back is the next argument, or the first operand of an
\* instruction whose second operand is a call as well (CZL_SFB2OO), or used.
Result(x, e, v) ==
    IF x.ctl = <<>> THEN x
    ELSE LET c == Last(x.ctl)
         IN IF ~c.run THEN [x EXCEPT !.mem[<<c.fn, x.fun[c.fn].at, c.n + 1>>].v = v, !.ctl[Len(x.ctl)].n = @ + 1]
            ELSE IF e.two /\ x.fun[c.fn].reg = Marker
                 THEN Prepare([x EXCEPT !.fun[c.fn].reg = v], e.fn, FALSE, TRUE, x.ins)
            ELSE x
SResult(t, e, n, v) ==
    IF t.stack = <<>> THEN t
    ELSE LET c == Last(t.stack)
             id == <<e.fn, e.id[2]>>
         IN IF ~c.run THEN [t EXCEPT !.of[c.id][n + 1] = Var(v)]
            ELSE IF e.two = 1
                 THEN EnterCall(Drop([t EXCEPT !.stack[Len(t.stack)].reg = v], id,
                                     IF id \in t.asleep THEN 1..m.fun[e.fn].params ELSE {}), e.fn, id, m.fun[e.fn], 2, e.ins)
            ELSE t
Before == IF Len(m.ctl) > 1 THEN m.ctl[Len(m.ctl) - 1].n ELSE 0
SPop(t) == [t EXCEPT !.stack = Front(@)]
Ends(e) == LET c == Top.co
               t == SPop(Gone(s, e.id))
           IN IF c = "" THEN t
              ELSE IF m.co[c].again THEN [t EXCEPT !.of[e.id] = [i \in 1..m.fun[e.fn].vars |-> Var(Unknown)]]
              ELSE [t EXCEPT !.live = @ \ {c}]

\* CZL_UFR, or the end of czl_fun_run, with a number or the first variable.
Return ==
    /\ Runs
    /\ Top.run
    /\ \E own \in {FALSE} \cup {Vars # {}} :
         LET v == IF own THEN m.mem[Here(1)].v ELSE Tag
             w == IF own THEN ValueOf(s, SHere(1)) ELSE Tag
         IN /\ m' = Result(Pop(Leave(m, Top)), Top, v)
            /\ s' = SResult(Ends(STop), STop, Before, w)
    /\ Keep
Yield ==
    /\ Runs
    /\ Top.run
    /\ m.fun[Top.fn].yeild
    /\ m' = Result(Pop(Suspend(m, Top)), Top, Tag)
    /\ s' = SResult(Sleeps(SPop(s), STop), STop, Before, Tag)
    /\ Keep

\* An instruction or an argument fails, or a call for want of memory.
Throw == Runs /\ Does("fail") /\ Fails /\ Keep

Assign(i) ==
    /\ Does("set")
    /\ m' = [m EXCEPT !.mem[Here(i)].v = Tag]
    /\ s' = [s EXCEPT !.of[IdOf(SHere(i))][SHere(i)[3]].v = Tag]
\* x = &y, of a number (czl_addr_obj_ass_handle)
Refer(i, j) ==
    /\ Does("ref")
    /\ ~IsRef(m.mem[<<Top.fn, 0, i>>])
    /\ i # j /\ Here(j) # Here(i)
    /\ LET a == <<Top.fn, 0, i>>
           c == m.mem[a]
       IN m' = RefCopy(IF c.node = 0 THEN Release(m, a) ELSE m, a, Here(j))
    /\ LET t == Drop(s, STop.id, {i})
       IN s' = [t EXCEPT !.of[STop.id][i] = [v |-> 0, to |-> SHere(j)]]
Temp ==
    /\ Does("temp")
    /\ m.fun[Top.fn].rest
    /\ m' = [m EXCEPT !.fun[Top.fn].reg = Tag, !.fun[Top.fn].cnt = Tag]
    /\ s' = [s EXCEPT !.stack[Len(s.stack)].reg = Tag, !.cnt[STop.id] = Tag]
Try ==
    /\ m.fun[Top.fn].try
    /\ m' = [m EXCEPT !.ctl[Len(m.ctl)].try = ~@]
    /\ s' = [s EXCEPT !.stack[Len(s.stack)].try = ~@]
Instruction ==
    /\ Runs
    /\ Top.run
    /\ \/ \E i \in Vars : Assign(i)
       \/ \E i, j \in Vars : Refer(i, j)
       \/ Temp
       \/ Try
    /\ Keep

\* czl_coroutine_create: the coroutine c, which can start again or is gone at its end.
Create(c, f, again) ==
    /\ Runs
    /\ Top.run
    /\ Does(c)
    /\ ~m.co[c].live
    /\ m.fun[f].yeild
    /\ m' = [m EXCEPT !.co[c] = [live |-> TRUE, pc |-> FALSE, again |-> again, fn |-> f]]
    /\ s' = [s EXCEPT !.live = @ \cup {c}, !.of[<<c, 0>>] = [i \in 1..m.fun[f].vars |-> Var(Unknown)]]
    /\ Keep
\* czl_coroutine_run with the first n arguments
Resume(c, n) ==
    /\ MayCall(TRUE)
    /\ m.co[c].live
    /\ n <= m.fun[m.co[c].fn].params
    /\ LET f == m.co[c].fn
           buf == <<c, 0>>
           x == [IF m.co[c].pc THEN ParasCopy(LocVarsFree(m, buf, n), f, buf) ELSE m EXCEPT !.fun[f].state = "busy"]
       IN /\ m' = IF m.fun[f].state # "idle" THEN Unwind(m, "")
                  ELSE [x EXCEPT !.ctl = Append(@, [fn |-> f, own |-> TRUE, run |-> FALSE, n |-> 0, need |-> n,
                                                    two |-> FALSE, try |-> FALSE, co |-> c, ins |-> x.ins])]
          /\ s' = IF Taken(f, 0) THEN Unwound(s) ELSE EnterCall(Drop(s, buf, 1..n), f, buf, m.fun[f], 0, m.ins)
    /\ Keep
\* czl_sys_kill and czl_sys_reset, while its function does not run
KillOrReset(c, again) ==
    /\ Runs
    /\ Top.run
    /\ m.co[c].live
    /\ LET f == m.co[c].fn
           y == VarsDelete(m, <<c, 0>>, m.fun[f].vars)
           t == [Gone(s, <<c, 0>>) EXCEPT !.of[<<c, 0>>] = IF again THEN [i \in 1..m.fun[f].vars |-> Var(Unknown)] ELSE <<>>]
       IN /\ m' = IF m.fun[f].state # "idle" THEN m ELSE [y EXCEPT !.co[c].pc = FALSE, !.co[c].live = again]
          /\ s' = IF Taken(f, 0) THEN s ELSE [t EXCEPT !.live = IF again THEN @ ELSE @ \ {c}]
    /\ Keep

\* czl_sys_reset of a function that is suspended
Restart(f) ==
    /\ Runs
    /\ Top.run
    /\ m.fun[f].yeild
    /\ m.fun[f].state = "idle"
    /\ m' = [VarsDelete(m, <<f, Asleep>>, m.fun[f].vars) EXCEPT !.fun[f].pc = FALSE]
    /\ s' = Gone(s, SId(f))
    /\ Keep

Next ==
    \/ \E f \in DOMAIN m.fun \ {"main"}, own, two \in BOOLEAN, ins \in {0} \cup Instances : Call(f, own, two, ins)
    \/ Argument \/ Start \/ Return \/ Yield \/ Throw \/ Instruction
    \/ \E f \in DOMAIN m.fun : Restart(f)
    \/ \E c \in Coroutines :
          \/ \E f \in DOMAIN m.fun, again \in BOOLEAN : Create(c, f, again)
          \/ \E n \in 0..2 : Resume(c, n)
          \/ \E again \in BOOLEAN : KillOrReset(c, again)
Spec == Init /\ [][Next]_vars

----------------------------------------------------------------------------
\* The buffer the variables of a call are in: those of the call that runs are
\* where its instructions say, those of the calls before in the buffers they
\* were moved to, arguments not yet complete in a new one.
BufferOf(id) ==
    LET k == CHOOSE j \in DOMAIN s.stack : s.stack[j].id = id
        g == m.fun[s.stack[k].fn]
        above == Cardinality({j \in (k + 1)..Len(s.stack) : s.stack[j].fn = s.stack[k].fn})
        below == Cardinality({j \in 1..(k - 1) : s.stack[j].fn = s.stack[k].fn})
    IN IF ~\E j \in DOMAIN s.stack : s.stack[j].id = id THEN IF id[1] \in Coroutines THEN id ELSE <<id[1], Asleep>>
       ELSE <<s.stack[k].fn, IF above > 0 THEN g.backup[below + 1] ELSE g.at>>

\* What the instructions of the running call read and write are its own
\* variables, or those its references name, its temporary, its loop counter and
\* its instance, whatever was called, moved, suspended or left by an exception.
Kept ==
    Runs =>
        LET e == Reader
            t == SReader
            g == m.fun[e.fn]
            Same(v, w) == w = Unknown \/ v = w
        IN /\ \A i \in Vars :
                LET c == m.mem[<<e.fn, 0, i>>]
                    d == s.of[t.id][i]
                IN IF d.to = Null THEN ~IsRef(c) /\ Same(c.v, d.v)
                   ELSE /\ c.to = Append(BufferOf(IdOf(d.to)), d.to[3])
                        /\ Same(m.mem[c.to].v, ValueOf(s, d.to))
           /\ Top.run => Same(g.reg, t.reg) /\ (g.rest => Same(g.cnt, s.cnt[t.id]))
           /\ g.method => g.bound = t.ins

\* The calls the machine is in are those of the script; a function is idle, busy
\* or in recursion as often as it is called, with a buffer for each call but one;
\* lists of references hold those that refer, and what is idle refers to nothing.
Balanced ==
    m.odd = {} =>
        /\ [k \in DOMAIN m.ctl |-> <<m.ctl[k].fn, m.ctl[k].run, m.ctl[k].try>>]
             = [k \in DOMAIN s.stack |-> <<s.stack[k].fn, s.stack[k].run, s.stack[k].try>>]
        /\ {c \in Coroutines : m.co[c].live} = s.live
        /\ \A f \in DOMAIN m.fun :
              LET g == m.fun[f]
                  n == Cardinality(Calls(m, f))
              IN g.vars > 0 =>
                   /\ Len(g.backup) = IF n = 0 THEN 0 ELSE n - 1
                   /\ g.state = CASE n = 0 -> "idle" [] n = 1 -> "busy" [] OTHER -> "recursion"
                   /\ n = 0 => \A i \in 1..g.vars : m.mem[<<f, 0, i>>].to = Null /\ m.mem[<<f, 0, i>>].refs = {}
        /\ LET refers == {a \in DOMAIN m.mem : IsRef(m.mem[a])}
               listed == UNION {m.mem[a].refs : a \in DOMAIN m.mem}
           IN {m.mem[a].node : a \in refers} = listed /\ Cardinality(refers) = Cardinality(listed)
=============================================================================
