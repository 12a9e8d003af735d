-------------------------------- MODULE Expr --------------------------------
(* An expression: its tokens are put one by one into a tree                  *)
(* (czl_exp_analysis, czl_exp_node_insert), the tree is written as a stack   *)
(* in Polish order (czl_tree_to_stack), results get registers                *)
(* (czl_set_opt_opr), what is left are the instructions (czl_create_order),  *)
(* and the machine runs them.                                                *)
(*                                                                           *)
(* Values are terms: what an operator yields is its name with the terms of   *)
(* its operands.  Whether a term is true is chosen when it is asked for      *)
(* first, and kept.  No variable occurs twice in an expression.              *)
EXTENDS Naturals, Sequences, SequencesExt, FiniteSets, TLC

CONSTANT
    Inputs  \* trees, each with a way to write it: "few" or "all" brackets

----------------------------------------------------------------------------
(* The expression and its tokens *)

\* A variable, a member of an instance, or an element whose index keeps its
\* results in registers from a base on.  The number tells it from the others.
Leaf(n, kind) == [k |-> "leaf", n |-> n, kind |-> kind, base |-> 0]
IndexRegs == "i0" :> 0 @@ "i1" :> 1 @@ "i2" :> 2
Un(op, x) == [k |-> "un", op |-> op, x |-> x]
Bin(op, x, y) == [k |-> "bin", op |-> op, x |-> x, y |-> y]
Cond(c, x, y) == [k |-> "cond", c |-> c, x |-> x, y |-> y]

\* czl_binary_opt_table, one operator of each priority.
Priority == "=" :> 4 @@ "?" :> 5 @@ ":" :> 5 @@ "||" :> 6 @@ "&&" :> 7 @@ "==" :> 8 @@ "&" :> 10
            @@ "-" :> 12 @@ "+" :> 12 @@ "*" :> 13
RightToLeft == {"=", "?", ":"}
\* czl_unary_opt_table; "p++" is ++ behind its operand.
Unary == {"!", "-", "++", "&"}
PosLeft == {"!", "neg", "ref"}

\* How an expression is written: brackets where the priorities ask for them.
Rank(t) == CASE t.k = "leaf" -> 20 [] t.k = "un" -> 15 [] t.k = "cond" -> 5 [] t.k = "bin" -> Priority[t.op]
RECURSIVE Write(_, _)
Part(t, style, least) ==
    IF style = "all" \/ Rank(t) < least THEN <<<<"(">>>> \o Write(t, style) \o <<<<")">>>> ELSE Write(t, style)
Write(t, style) ==
    CASE t.k = "leaf" -> <<<<"leaf", t>>>>
      [] t.k = "un" /\ t.op = "p++" -> Part(t.x, style, 20) \o <<<<"op", "++">>>>
      [] t.k = "un" /\ t.op # "p++" -> <<<<"op", t.op>>>> \o Part(t.x, style, 15)
      [] t.k = "cond" -> Part(t.c, style, 6) \o <<<<"op", "?">>>> \o Part(t.x, style, 5)
                         \o <<<<"op", ":">>>> \o Part(t.y, style, 5)
      [] t.k = "bin" -> LET p == Priority[t.op]
                            right == t.op \in RightToLeft
                        IN Part(t.x, style, IF right THEN p + 1 ELSE p) \o <<<<"op", t.op>>>>
                           \o Part(t.y, style, IF right THEN p ELSE p + 1)

----------------------------------------------------------------------------
(* The tree (czl_exp_node): nodes are numbered, 0 is none *)

Node(f, t) == [f |-> f, t |-> t, l |-> 0, r |-> 0, p |-> 0, br |-> FALSE]
Start == [node |-> <<>>, root |-> 0, cur |-> 0, mtoc |-> 0,     \* czl_exp_handle
          up |-> <<>>,                      \* the handles of the expressions around
          bc |-> 0, colon |-> 0, regFlag |-> FALSE, sign |-> 0, err |-> FALSE, done |-> FALSE]
Fail(h) == [h EXCEPT !.err = TRUE]
Closed(x) == x.f = "opr" \/ x.br
Skipped(x) == x.f # "bin" \/ x.br
IsObjBinary(op) == op = "="
IsTmpUnary(op) == op # "++"

\* czl_exp_is_integrity, and what czl_exp_integrity_check asks of the tree.
Lacks(h) ==
    LET c == h.node[h.cur]
    IN /\ ~Closed(c)
       /\ \/ c.r = 0
          \/ c.f = "bin" /\ h.node[c.r].f # "opr" /\ h.node[c.r].r = 0
Complete(h) == h.root # 0 /\ ~Lacks(h) /\ h.mtoc = 0

\* czl_exp_const_merge: what is assigned to is a variable.
RECURSIVE ObjChain(_, _)
ObjChain(nd, n) == n # 0 /\ (nd[n].t \in {"++", "p++", "ref"} \/ ObjChain(nd, nd[n].l))
InChain(nd, n) == nd[n].f = "un" /\ nd[n].p # 0 /\ nd[nd[n].p].f = "un" /\ nd[nd[n].p].l = n
RECURSIVE Merges(_, _)
Merges(nd, n) ==
    \/ n = 0
    \/ InChain(nd, n)
    \/ /\ Merges(nd, nd[n].l)
       /\ CASE nd[n].f = "opr" -> TRUE
            [] nd[n].f = "un" ->
                 LET x == nd[nd[n].r]
                 IN IF x.f = "opr" THEN nd[n].t = "ref" => nd[n].p # 0 /\ nd[nd[n].p].t = "="
                    ELSE /\ Merges(nd, nd[n].r)
                         /\ ObjChain(nd, n) => x.f = "un" /\ nd[x.r].f = "opr"
            [] nd[n].f = "bin" -> /\ IsObjBinary(nd[n].t) => nd[nd[n].l].f = "opr"
                                  /\ Merges(nd, nd[n].r)
Checked(h) == IF h.root = 0 \/ (Complete(h) /\ Merges(h.node, h.root)) THEN h ELSE Fail(h)

Hang(h, n, side, m) ==    \* n gets m as a child
    IF side = "l" THEN [h EXCEPT !.node[n].l = m, !.node[m].p = n] ELSE [h EXCEPT !.node[n].r = m, !.node[m].p = n]

\* czl_binary_opt_node_insert_find
RECURSIVE Above(_, _, _)
Above(nd, n, priority) ==
    IF n = 0 THEN 0
    ELSE IF Skipped(nd[n]) \/ priority < Priority[nd[n].t] THEN Above(nd, nd[n].p, priority) ELSE n
InsertFind(h, op) == IF h.node[h.cur].l = 0 THEN 0 ELSE Above(h.node, h.cur, Priority[op])

\* czl_three_opt_match: the ? that has no : yet.
RECURSIVE OpenQue(_, _)
OpenQue(nd, n) ==
    IF n = 0 THEN 0
    ELSE IF Skipped(nd[n]) THEN OpenQue(nd, nd[n].p)
    ELSE IF nd[n].t = ":" THEN OpenQue(nd, nd[nd[n].p].p)
    ELSE IF nd[n].t = "?" THEN n ELSE OpenQue(nd, nd[n].p)

\* Node m takes the right child of n as its left one.
Under(h, n, m) == Hang(Hang(h, m, "l", h.node[n].r), n, "r", m)
ThreeMatch(h, m) ==
    LET q == OpenQue(h.node, h.cur)
    IN IF q = 0 THEN Fail(h)
       ELSE [Under(h, q, m) EXCEPT !.cur = m, !.mtoc = @ - 1, !.colon = @ - 1]

\* czl_binary_opt_node_insert
BinaryInsert(h, m) ==
    LET op == h.node[m].t
        n == InsertFind(h, op)
        up == h.node[n].p
        g == IF n = 0 THEN [Hang(h, m, "l", h.root) EXCEPT !.root = m]
             ELSE IF Priority[op] > Priority[h.node[n].t] \/ op \in RightToLeft THEN Under(h, n, m)
             ELSE IF up = 0 THEN [Hang(h, m, "l", n) EXCEPT !.root = m]
             ELSE Hang(Hang(h, m, "l", n), up, "r", m)
    IN IF op = ":" THEN ThreeMatch(h, m)
       ELSE IF op = "?" THEN [g EXCEPT !.cur = m, !.mtoc = @ + 1, !.colon = @ + 1] ELSE [g EXCEPT !.cur = m]

\* czl_unary_opt_node_insert: m heads the operators before (or behind) an operand.
UnaryInsert(h, n, m) ==
    LET x == h.node[n].r
        g == Hang(h, m, "l", n)
        k == IF x = 0 THEN g ELSE [Hang(g, m, "r", x) EXCEPT !.node[n].r = 0]
    IN IF n = h.cur THEN [k EXCEPT !.root = m, !.cur = m] ELSE Hang(k, h.cur, "r", m)

\* czl_opt_collision_detect: behind an operand - takes two, and ++ is behind it.
Collide(h, m) ==
    LET c == h.node[h.cur]
        x == h.node[c.r]
        behind == \/ Closed(c)
                  \/ c.f = "un" /\ c.r # 0
                  \/ c.f = "bin" /\ c.r # 0 /\ (x.f = "opr" \/ x.r # 0)
    IN IF Closed(h.node[m]) \/ ~behind THEN h
       ELSE CASE h.node[m].t = "neg" -> [h EXCEPT !.node[m].f = "bin", !.node[m].t = "-"]
              [] h.node[m].t = "++" -> [h EXCEPT !.node[m].t = "p++"]
              [] OTHER -> h

\* The nine cases of czl_exp_node_insert.
Place(h, m) ==
    LET new == h.node[m]
        c == h.node[h.cur]
        x == h.node[c.r]
        left == new.t \in PosLeft
    IN IF Closed(c) THEN
            IF Closed(new) THEN Fail(h)
            ELSE IF new.f = "bin" THEN BinaryInsert(h, m)
            ELSE IF left THEN Fail(h) ELSE [Hang(h, m, "r", h.cur) EXCEPT !.root = m, !.cur = m]
       ELSE IF c.f = "un" THEN
            IF Closed(new) THEN IF c.r # 0 THEN Fail(h) ELSE Hang(h, h.cur, "r", m)
            ELSE IF new.f = "bin" THEN IF c.r = 0 THEN Fail(h) ELSE BinaryInsert(h, m)
            ELSE IF c.r # 0 /\ left THEN Fail(h) ELSE UnaryInsert(h, h.cur, m)
       ELSE IF c.r = 0 THEN IF new.f = "bin" /\ ~new.br THEN Fail(h) ELSE Hang(h, h.cur, "r", m)
       ELSE IF Closed(new) THEN
            IF Closed(x) THEN Fail(h) ELSE [h EXCEPT !.node[c.r].r = m, !.node[m].p = m]
       ELSE IF new.f = "bin" THEN IF x.f # "opr" /\ x.r = 0 THEN Fail(h) ELSE BinaryInsert(h, m)
       ELSE IF Closed(x) THEN IF left THEN Fail(h) ELSE Hang(Hang(h, m, "r", c.r), h.cur, "r", m)
       ELSE IF x.r # 0 /\ left THEN Fail(h) ELSE UnaryInsert(h, c.r, m)

\* Which registers the expressions in indices may use.
Signed(h, m) ==
    LET new == h.node[m]
        x == h.node[new.l]
    IN IF h.regFlag \/ new.f # "bin" THEN h
       ELSE IF IsObjBinary(new.t) THEN
            IF x.f = "opr" /\ x.t.kind # "var" THEN [h EXCEPT !.sign = 1] ELSE h
       ELSE IF new.t \in {"?", ":"} THEN h ELSE [h EXCEPT !.regFlag = TRUE]

\* A result of two registers of every expression: what is parsed in it after its
\* first operator has the next two (gp->reg_cnt).
Insert(h, m) ==
    LET g == Collide(h, m)
    IN IF h.root = 0 THEN IF h.node[m].f = "bin" THEN Fail(h) ELSE [h EXCEPT !.root = m, !.cur = m]
       ELSE LET k == Place(g, m) IN IF k.err THEN k ELSE Signed(k, m)

\* The end of an expression in brackets, at its bracket or where it is complete.
Leave(h) ==
    LET up == Last(h.up)
        g == [h EXCEPT !.up = Front(@)]
    IN IF up = <<>> THEN IF h.root = 0 THEN [g EXCEPT !.cur = 0]
                         ELSE [g EXCEPT !.node[h.root].br = TRUE, !.cur = h.root]
       ELSE IF h.root = 0 THEN Fail(h)
       ELSE Insert([g EXCEPT !.node[h.root].br = TRUE, !.root = up[1], !.cur = up[2], !.mtoc = up[3]], h.root)

\* Which operator the characters are (czl_is_unary_opt, czl_is_binary_opt): in a
\* complete expression ++ alone is unary, else every name that may be.
IsUnary(h, o) == IF Complete(h) THEN o = "++" ELSE o \in Unary
IsBinary(h, o) == o # "++" /\ o # "!" /\ (o = ":" => h.colon > 0)
UnaryNode(o) == Node("un", CASE o = "-" -> "neg" [] o = "&" -> "ref" [] OTHER -> o)

\* An element is parsed with the registers that are free then; its index is an
\* expression of its own, for which reg_sign is reset.
Operand(h, x) ==
    LET y == IF h.regFlag THEN [x EXCEPT !.base = 2] ELSE x
    IN IF x.kind \in DOMAIN IndexRegs THEN [node |-> Node("opr", y), sign |-> 0]
       ELSE [node |-> Node("opr", x), sign |-> h.sign]
Enter(h, node, sign) ==
    Insert([h EXCEPT !.node = Append(@, node), !.sign = sign], Len(h.node) + 1)

\* A turn of the loop of czl_exp_analysis, or of one it was called from, with
\* the next token; done is the end of the outermost.
End(h) ==
    LET g == Checked(h)
    IN IF g.err THEN g ELSE IF g.up = <<>> THEN [g EXCEPT !.done = TRUE] ELSE Leave(g)
Bracket(h) ==
    [h EXCEPT !.bc = @ + 1, !.up = Append(@, IF h.root = 0 THEN <<>> ELSE <<h.root, h.cur, h.mtoc>>),
              !.root = 0, !.cur = 0, !.mtoc = 0]
Ends(h, tok) ==
    \/ tok[1] \in {"(", "leaf"} /\ Complete(h)
    \/ tok[1] = ")" /\ h.bc = 0
    \/ tok[1] = "op" /\ ~IsUnary(h, tok[2]) /\ ~IsBinary(h, tok[2])
    \/ tok[1] = ";"
Take(h, tok) ==
    CASE tok[1] = "(" -> Bracket(h)
      [] tok[1] = ")" -> End([h EXCEPT !.bc = @ - 1])
      [] tok[1] = "leaf" -> LET x == Operand(h, tok[2]) IN Enter(h, x.node, x.sign)
      [] tok[1] = "op" -> Enter(h, IF IsUnary(h, tok[2]) THEN UnaryNode(tok[2]) ELSE Node("bin", tok[2]), h.sign)

----------------------------------------------------------------------------
(* From the tree to instructions *)

\* Mutant: && and || are counted as one instruction.
TwiceThree(x) == x.f = "bin" /\ x.t = ":"
\* ?:, && and || make an instruction more.
Twice(x) == x.f = "bin" /\ x.t \in {":", "&&", "||"}

\* czl_get_exp_tree_node_num and czl_get_order_num
RECURSIVE NodeNum(_, _)
NodeNum(nd, n) == IF n = 0 THEN 0
                  ELSE (IF Twice(nd[n]) THEN 2 ELSE 1) + NodeNum(nd, nd[n].l) + NodeNum(nd, nd[n].r)
RECURSIVE OrderNum(_, _)
OrderNum(nd, n) == IF n = 0 THEN 0
                   ELSE (IF nd[n].f = "opr" THEN 0 ELSE IF Twice(nd[n]) THEN 2 ELSE 1)
                        + OrderNum(nd, nd[n].l) + OrderNum(nd, nd[n].r)

\* An element (czl_exp_ele).  pl is where its value is: a variable or a
\* register; tail says what an operand that is an instruction does besides.
Nowhere == <<"none">>
Var(x) == <<"var", x>>
Exp(i) == <<"exp", i>>   \* a register while the expression is parsed (gp->exp_reg)
Reg(i) == <<"reg", i>>   \* a register of the function
Elem(f, t) == [f |-> f, t |-> t, pl |-> Nowhere, lo |-> Nowhere, ro |-> Nowhere, tail |-> "",
               n |-> 0, lt |-> 0, rt |-> 0]
Pushed(x) == IF x.f = "opr" THEN [Elem("opr", "") EXCEPT !.pl = Var(x.t)] ELSE Elem(x.f, x.t)

\* czl_unary_opt_push, czl_tree_to_stack
RECURSIVE Chain(_, _)
Chain(nd, n) == IF n = 0 THEN <<>> ELSE <<Pushed(nd[n])>> \o Chain(nd, nd[n].l)
RECURSIVE Stack(_, _)
Stack(nd, n) ==
    IF n = 0 THEN <<>>
    ELSE IF InChain(nd, n) THEN <<>>
    ELSE LET x == nd[n]
             left == Stack(nd, x.l)
             right == Stack(nd, x.r)
             lo == OrderNum(nd, x.l)
             ro == OrderNum(nd, x.r)
         IN CASE x.f = "opr" -> <<Pushed(x)>>
              [] x.f = "un" -> left \o right \o Chain(nd, n)
              [] x.f = "bin" /\ x.t \in {"&&", "||"} ->
                   left \o <<[Elem("cond", x.t) EXCEPT !.n = lo, !.rt = IF ro = 0 THEN 1 ELSE ro]>>
                        \o right \o <<Pushed(x)>>
              [] x.f = "bin" /\ x.t = "?" ->
                   LET y == nd[x.r]
                       a == OrderNum(nd, y.l)
                       b == OrderNum(nd, y.r)
                   IN left \o <<[Elem("three", "") EXCEPT !.n = lo, !.lt = a + 2, !.rt = b + a + 3]>>
                           \o Stack(nd, y.l) \o <<[Elem("end", "") EXCEPT !.n = a]>>
                           \o Stack(nd, y.r) \o <<[Elem("end", "") EXCEPT !.n = b]>>
              [] OTHER -> left \o right \o <<Pushed(x)>>

\* czl_set_special_opt_opr
Special(e, opr) == IF e.n # 0 THEN e ELSE [e EXCEPT !.tail = e.f, !.f = "opr", !.pl = opr.pl]

NoReg == 2      \* no register used yet: another than both
\* Mutant: from the third on the register used last is taken again.
UseRegAgain(s, reg) ==
    IF s.cnt < 2 THEN [reg |-> s.sign + s.cnt, cnt |-> s.cnt + 1] ELSE [reg |-> reg, cnt |-> s.cnt]
\* czl_use_reg: the two registers in turn, then the one that was not the last.
UseReg(s, reg) ==
    IF s.cnt < 2 THEN [reg |-> s.sign + s.cnt, cnt |-> s.cnt + 1]
    ELSE [reg |-> IF reg = 0 THEN 1 ELSE 0, cnt |-> s.cnt]
\* The element j gets a register unless its value is in one already.
Keep(s, j, reg) ==
    IF s.ele[j].pl[1] = "exp" THEN s
    ELSE LET u == UseReg(s, reg) IN [s EXCEPT !.ele[j].pl = Exp(u.reg), !.cnt = u.cnt]

\* czl_set_opt_opr: res are the elements with the values on the stack, reg is
\* the register used last; it returns with the end of a branch of ?:.
RECURSIVE SetOpr(_, _, _, _)
SetOpr(s, pc, res, reg) ==
    LET e == s.ele[pc]
        r == Last(res)
        b == s.ele[r]
    IN CASE e.f = "opr" -> SetOpr(s, pc + 1, Append(res, pc), reg)
         [] e.f = "un" /\ ~IsTmpUnary(e.t) -> SetOpr([s EXCEPT !.ele[pc].lo = b.pl], pc + 1, res, reg)
         [] e.f = "un" /\ IsTmpUnary(e.t) ->
              LET k == Keep([s EXCEPT !.ele[pc].lo = b.pl], r, reg)
                  at == k.ele[r].pl
              IN SetOpr([k EXCEPT !.ele[pc].pl = at], pc + 1, res, at[2])
         [] e.f = "bin" ->
              LET l == res[Len(res) - 1]
                  a == s.ele[l]
                  g == IF e.t \in {"&&", "||"} THEN [s EXCEPT !.ele[pc].f = "un", !.ele[pc].lo = b.pl]
                       ELSE [s EXCEPT !.ele[pc].lo = a.pl, !.ele[pc].ro = b.pl]
                  k == Keep(g, l, reg)
                  at == k.ele[l].pl
              IN IF IsObjBinary(e.t) THEN SetOpr(g, pc + 1, Front(res), reg)
                 ELSE SetOpr([k EXCEPT !.ele[pc].pl = at], pc + 1, Front(res), at[2])
         [] e.f = "three" ->
              LET one == SetOpr([s EXCEPT !.ele[pc] = Special(e, b)], pc + 1, res, reg)
                  two == SetOpr(one.s, one.pc + 1, res, reg)
                  last == two.s.ele[two.pc + 1].f = "stop"
                  k == IF last THEN two.s ELSE Keep(two.s, r, reg)
                  at == IF last THEN Nowhere ELSE k.ele[r].pl
              IN SetOpr([k EXCEPT !.ele[one.pc].lo = at, !.ele[two.pc].lo = at,
                                  !.ele[one.pc].rt = e.rt - e.lt + 1, !.ele[two.pc].rt = 1,
                                  !.ele[pc].rt = e.lt],
                        two.pc + 1, res, IF last THEN reg ELSE at[2])
         [] e.f = "cond" -> SetOpr([s EXCEPT !.ele[pc] = Special(e, b)], pc + 1, res, reg)
         [] e.f = "end" -> [s |-> [s EXCEPT !.ele[pc] = Special(e, b)], pc |-> pc]
         [] e.f = "stop" -> [s |-> s, pc |-> pc]

\* czl_exp_tree_to_stack; czl_create_order leaves the mere operands out.
Orders(h) ==
    LET stack == Stack(h.node, h.root)
        set == SetOpr([ele |-> Append(stack, Elem("stop", "")), cnt |-> 0, sign |-> h.sign], 1, <<>>, NoReg)
    IN IF NodeNum(h.node, h.root) = 1 THEN stack
       ELSE SelectSeq(set.s.ele, LAMBDA e : e.f # "stop" /\ (e.f = "opr" => e.tail # ""))

\* czl_set_opt_reg and czl_check_opt_regs: a result is moved to a register of the
\* function, and so is the operand that is found first of those behind.
User(c, i, reg) == SelectInSeq(SubSeq(c, i + 1, Len(c)), LAMBDA e : e.f \in {"un", "bin"} /\ reg \in {e.lo, e.ro})
Moved(c, i, reg) ==
    LET j == i + User(c, i, reg)
    IN IF j = i THEN c
       ELSE IF c[j].lo = reg THEN [c EXCEPT ![j].lo = Reg(reg[2])] ELSE [c EXCEPT ![j].ro = Reg(reg[2])]
\* czl_set_exp_reg, from instruction i on.
RECURSIVE Relocated(_, _)
Relocated(c, i) ==
    IF i > Len(c) THEN c
    ELSE LET end == c[i].f = "end" \/ c[i].tail = "end"
             res == IF end THEN c[i].lo ELSE c[i].pl
             to == Reg(res[2])
         IN IF res[1] # "exp" THEN Relocated(c, i + 1)
            ELSE Relocated(Moved(IF end THEN [c EXCEPT ![i].lo = to] ELSE [c EXCEPT ![i].pl = to], i, res), i + 1)
\* The field for a second operand is not set where there is one operand: it has
\* what was on the stack of the compiler.
WithStale(c, ro) == [i \in DOMAIN c |-> IF c[i].f = "un" THEN [c[i] EXCEPT !.ro = ro] ELSE c[i]]

----------------------------------------------------------------------------
(* What an expression means *)

Term(op, x, y) == <<op, x, y>>
Begins(x) == <<"v", x>>
\* As an integer (CZL_EIT), which is as true as the value.
Whole(v) == IF v[1] \in {"bool", "int"} THEN v ELSE <<"int", v>>
Core(v) == IF v[1] = "int" THEN v[2] ELSE v
Truth(truth, v) == IF v[1] = "bool" THEN v[2] ELSE Core(v) \in DOMAIN truth /\ truth[Core(v)]
Bool(b) == <<"bool", b>>
\* Its value and what it has assigned, in order, given what is true.
RECURSIVE Meaning(_, _)
Meaning(t, truth) ==
    CASE t.k = "leaf" -> [val |-> Begins(t.n), log |-> <<>>]
      [] t.k = "un" ->
           LET x == Meaning(t.x, truth)
               new == Term("inc", x.val, x.val)
           IN CASE t.op = "++" -> [val |-> new, log |-> <<<<t.x.n, new>>>>]
                [] t.op = "p++" -> [val |-> x.val, log |-> <<<<t.x.n, new>>>>]
                [] OTHER -> [x EXCEPT !.val = Term(IF t.op = "-" THEN "neg" ELSE t.op, x.val, x.val)]
      [] t.k = "cond" ->
           LET c == Meaning(t.c, truth)
               x == Meaning(IF Truth(truth, c.val) THEN t.x ELSE t.y, truth)
           IN [x EXCEPT !.log = c.log \o x.log]
      [] t.k = "bin" ->
           LET x == Meaning(t.x, truth)
               y == Meaning(t.y, truth)
               short == Truth(truth, x.val) = (t.op = "||")
           IN CASE t.op = "=" -> [val |-> y.val, log |-> y.log \o <<<<t.x.n, y.val>>>>]
                [] t.op \in {"&&", "||"} ->
                     IF short THEN [x EXCEPT !.val = Bool(t.op = "||")]
                     ELSE [val |-> Whole(y.val), log |-> x.log \o y.log]
                [] OTHER -> [val |-> Term(t.op, x.val, y.val), log |-> x.log \o y.log]

----------------------------------------------------------------------------
VARIABLES
    expr,   \* the expression
    toks,   \* its tokens that are left
    h,      \* the parser
    code,   \* the instructions; none before they are written
    m       \* the machine
vars == <<expr, toks, h, code, m>>

Machine == [pc |-> 1, reg |-> [i \in 0..9 |-> <<"junk">>], env |-> <<>>, res |-> <<>>,
            truth |-> <<>>, log |-> <<>>]
Init ==
    \E x \in Inputs :
        /\ expr = x.tree
        /\ toks = Write(x.tree, x.style) \o <<<<";">>>>
        /\ h = Start
        /\ code = <<>>
        /\ m = Machine

Parsing == ~h.err /\ ~h.done
\* A token is taken.
Token ==
    /\ Parsing
    /\ ~Ends(h, Head(toks))
    /\ h' = Take(h, Head(toks))
    /\ toks' = Tail(toks)
    /\ UNCHANGED <<expr, code, m>>
\* An expression ends before a token.
Stop ==
    /\ Parsing
    /\ Ends(h, Head(toks))
    /\ h' = End(h)
    /\ UNCHANGED <<expr, toks, code, m>>
Stale == {Nowhere, Exp(0), Exp(1)}
Convert ==
    /\ h.done
    /\ code = <<>>
    /\ \E ro \in Stale : \E c \in {Relocated(WithStale(Orders(h), ro), 1)} :
          /\ code' = c
          /\ m' = [m EXCEPT !.res = [i \in DOMAIN c |->
                     IF c[i].f = "end" \/ (c[i].f \in {"un", "bin"} /\ c[i].pl = Nowhere) THEN c[i].lo ELSE c[i].pl]]
    /\ UNCHANGED <<expr, toks, h>>

\* To reach an element its index is evaluated, in the registers of the index.
Val(k, pl) == IF pl[1] = "reg" THEN k.reg[pl[2]]
              ELSE IF pl[1] = "exp" THEN <<"junk">>
              ELSE IF pl[2].n \in DOMAIN k.env THEN k.env[pl[2].n] ELSE Begins(pl[2].n)
Get(k, pl) ==
    IF pl[1] = "var" /\ pl[2].kind \in DOMAIN IndexRegs
    THEN [k EXCEPT !.reg = [i \in DOMAIN @ |-> IF i \in pl[2].base..(pl[2].base + IndexRegs[pl[2].kind] - 1)
                                               THEN <<"index", pl[2].n>> ELSE @[i]]]
    ELSE k
Put(k, pl, v) ==
    IF pl[1] = "reg" THEN [k EXCEPT !.reg[pl[2]] = v]
    ELSE [k EXCEPT !.env = (pl[2].n :> v) @@ @, !.log = Append(@, <<pl[2].n, v>>)]

Running == code # <<>> /\ m.pc \in DOMAIN code
Ins == code[m.pc]
Step(k) == m' = k /\ UNCHANGED <<expr, toks, h, code>>
Known(k, v) == IF v[1] = "bool" THEN {v[2]} ELSE IF Core(v) \in DOMAIN k.truth THEN {k.truth[Core(v)]} ELSE BOOLEAN
Knowing(k, v, b) == IF v[1] = "bool" THEN k ELSE [k EXCEPT !.truth = (Core(v) :> b) @@ @]

\* What follows an operand or an operator, by its tail: CZL_AA_CJ and CZL_OO_CJ
\* (what is jumped to gets the value), CZL_RTO, CZL_TORM.
Skip(k, op, pc, v, b) ==
    IF b = (op = "||") THEN [Put(Knowing(k, v, b), k.res[pc + code[pc].rt], Bool(op = "||")) EXCEPT !.pc = pc + code[pc].rt + 1]
    ELSE [Knowing(k, v, b) EXCEPT !.pc = pc + 1]
Branch(k, pc, v, b) == [Knowing(k, v, b) EXCEPT !.pc = IF b THEN pc + 1 ELSE pc + code[pc].rt]
Move(k, pc, from) ==
    LET g == IF code[pc].lo = Nowhere THEN k ELSE Put(k, code[pc].lo, Val(k, from))
    IN [g EXCEPT !.res[pc + code[pc].rt - 1] = from, !.pc = pc + code[pc].rt]

\* The operand of an instruction, or the result of the one before.
From == IF Ins.f = "opr" THEN Ins.pl ELSE m.res[m.pc - 1]
Reached == IF Ins.f = "opr" THEN [Get(m, Ins.pl) EXCEPT !.res[m.pc] = Ins.pl] ELSE m
Does(f) == Running /\ (Ins.f = f \/ (Ins.f = "opr" /\ Ins.tail = f))
Operand0 == Does("") /\ Ins.f = "opr" /\ Step([Reached EXCEPT !.pc = @ + 1])
Condition == Does("cond") /\ \E b \in Known(m, Val(Reached, From)) : Step(Skip(Reached, Ins.t, m.pc, Val(Reached, From), b))
Three == Does("three") /\ \E b \in Known(m, Val(Reached, From)) : Step(Branch(Reached, m.pc, Val(Reached, From), b))
ThreeEnd == Does("end") /\ Step(Move(Reached, m.pc, From))

\* CZL_RUO and CZL_RU2O
UnaryOpt ==
    /\ Does("un")
    /\ LET k == Get(m, Ins.lo)
           v == Val(k, Ins.lo)
           new == Term("inc", v, v)
       IN CASE Ins.t = "++" -> Step([Put(k, Ins.lo, new) EXCEPT !.pc = @ + 1])
            [] Ins.t = "p++" -> Step([Put(Put(k, Ins.lo, new), Ins.pl, v) EXCEPT !.pc = @ + 1])
            [] Ins.t \in {"&&", "||"} -> Step([Put(k, Ins.pl, Whole(v)) EXCEPT !.pc = @ + 1])
            [] OTHER -> Step([Put(k, Ins.pl, Term(Ins.t, v, v)) EXCEPT !.pc = @ + 1])
\* CZL_RB2O: the left operand is put where the result will be, then the right one
\* is looked for.
BinaryOpt ==
    /\ Does("bin")
    /\ ~IsObjBinary(Ins.t)
    /\ LET k == Get(m, Ins.lo)
           a == Put(k, Ins.pl, Val(k, Ins.lo))
           b == Get(a, Ins.ro)
       IN Step([Put(b, Ins.pl, Term(Ins.t, Val(b, Ins.pl), Val(b, Ins.ro))) EXCEPT !.pc = @ + 1])
\* CZL_RAO: the right operand first, then what it is assigned to.
Assign ==
    /\ Does("bin")
    /\ IsObjBinary(Ins.t)
    /\ LET k == Get(Get(m, Ins.ro), Ins.lo)
       IN Step([Put(k, Ins.lo, Val(k, Ins.ro)) EXCEPT !.pc = @ + 1])

Next == Token \/ Stop \/ Convert \/ Operand0 \/ Condition \/ Three \/ ThreeEnd \/ UnaryOpt \/ BinaryOpt \/ Assign
Spec == Init /\ [][Next]_vars

----------------------------------------------------------------------------
(* What goes wrong *)

\* Whether a result is kept in a register; the others are in a variable.
Kept(t) == t.k = "cond" \/ (t.k = "un" /\ t.op # "++") \/ (t.k = "bin" /\ t.op # "=")
Fresh(n) == IF n = 0 THEN 1 ELSE 2   \* the register used last is not taken
Larger(i, j) == IF i > j THEN i ELSE j
\* How many registers are in use at once.
RECURSIVE Needs(_)
Needs(t) ==
    CASE t.k = "leaf" -> 0
      [] t.k = "un" -> Larger(Needs(t.x), IF ~Kept(t) THEN 0 ELSE IF Kept(t.x) THEN 1 ELSE Fresh(Needs(t.x)))
      [] t.k = "cond" -> LET c == Fresh(Needs(t.c)) - 1
                         IN Larger(Larger(Needs(t.c), IF Kept(t.c) THEN 1 ELSE c + 1),
                                   c + Larger(Needs(t.x), Needs(t.y)))
      [] t.k = "bin" /\ t.op = "=" -> Needs(t.y)
      [] t.k = "bin" /\ t.op \in {"&&", "||"} -> Larger(1, Larger(Needs(t.x), Needs(t.y)))
      [] t.k = "bin" /\ t.op \notin {"=", "&&", "||"} ->
           IF Kept(t.x) THEN Larger(Needs(t.x), 1 + Needs(t.y))
           ELSE Larger(Larger(Needs(t.x), Needs(t.y)), Fresh(Needs(t.x) + Needs(t.y)))
RECURSIVE Sub(_)
Sub(t) == {t} \cup CASE t.k = "leaf" -> {}
                     [] t.k = "un" -> Sub(t.x)
                     [] t.k = "bin" -> Sub(t.x) \cup Sub(t.y)
                     [] t.k = "cond" -> Sub(t.c) \cup Sub(t.x) \cup Sub(t.y)
Third == Needs(expr) > 2
\* What && or || puts where its right operand would have it.
ShortWrites == \E t \in Sub(expr) :
    /\ t.k = "bin" /\ t.op \in {"&&", "||"}
    /\ \/ t.y.k = "bin" /\ t.y.op = "="
       \/ t.y.k = "un" /\ t.y.op = "++"
       \/ t.y.k = "cond" /\ ~Kept(t.y.y)
\* The leaf whose variable a result is in.
RECURSIVE Home(_)
Home(t) == IF t.k = "leaf" THEN t
           ELSE IF (t.k = "bin" /\ t.op = "=") \/ (t.k = "un" /\ t.op = "++") THEN Home(t.x) ELSE Leaf(0, "none")
\* An index that is evaluated when its registers hold something else.
IndexLate == \E t \in Sub(expr) :
    /\ t.k = "bin" /\ t.op \notin {"&&", "||"}
    /\ \E i \in DOMAIN h.node : /\ h.node[i].f = "opr"
                                /\ h.node[i].t.n = Home(t.x).n
                                /\ h.node[i].t.kind \in {"i1", "i2"}
                                /\ h.node[i].t.base = 0
    /\ \E u \in Sub(t.y) : Kept(u)
    /\ t.op = "=" /\ Home(t.x).kind = "i1" =>
          \/ Cardinality({u \in Sub(t.y) : Kept(u)}) > 2
          \/ \E u \in Sub(expr) : u.k = "leaf" /\ u.kind \in DOMAIN IndexRegs /\ u.n > Home(t.x).n
\* Between ? and : a & is taken for the one of one operand.
AndInThree == \E t \in Sub(expr) : t.k = "cond" /\ \E u \in Sub(t.x) : u.k = "bin" /\ u.op = "&"
\* An operator of one operand, or && or ||, between the instruction that leaves a
\* result in a register and the one that takes it from there.
Unset == \E t \in Sub(expr) :
    /\ t.k = "bin" /\ t.op \notin {"=", "&&", "||"}
    /\ Kept(t.x)
    /\ \E u \in Sub(t.y) : u.k = "un" \/ (u.k = "bin" /\ u.op \in {"&&", "||"})
Odd == Third \/ ShortWrites \/ IndexLate \/ Unset

Over == code # <<>> /\ m.pc = Len(code) + 1
Want == Meaning(expr, m.truth)
Got == [val |-> Val(m, m.res[Len(code)]), log |-> m.log]

\* An expression that is none of the odd ones has the value its tree has, and
\* assigns what the tree assigns in that order, whatever is true: brackets and
\* priorities have made the tree, jumps skip what && || and ?: skip, and no
\* register is taken while its value is still to be used.
Right == (Over /\ ~Odd) => Got = Want

\* Every expression is accepted, but for a & between ? and :, and has as many
\* instructions as czl_get_order_num counts (the array they are written to has
\* that size), and no jump leaves them.
Counted == code # <<>> => Len(code) = IF NodeNum(h.node, h.root) = 1 THEN 1 ELSE OrderNum(h.node, h.root)
JumpsInside == code # <<>> => m.pc \in 1..(Len(code) + 1)
Translated == (h.err => AndInThree) /\ Counted /\ JumpsInside
=============================================================================
