----------------------------- MODULE MCCompile -----------------------------
(* Functions for TLC: a statement with a block in a statement with a block,   *)
(* each kind in each kind.                                                    *)
EXTENDS Compile

E == Statement("exp")
None0 == <<<<99>>, 0>>
Fun(stmts, label) == [k |-> "fun", body |-> stmts, childs |-> <<>>, label |-> label]
Of(kind, b) == [Statement(kind) EXCEPT !.body = b]
Branch(kind, b, arms) == [Of(kind, b) EXCEPT !.childs = arms]
Free(s) == [s EXCEPT !.cond = FALSE]
Try(act, para, b) == [Of("try", b) EXCEPT !.act = act, !.para = para]

LoopsOf(b) == {Of("while", b), Free(Of("while", b)), Of("foreach", b), Of("do", b), Of("timer", b),
               [Of("for", b) EXCEPT !.init = TRUE, !.step = TRUE], [Of("for", b) EXCEPT !.step = TRUE],
               Free([Of("for", b) EXCEPT !.init = TRUE])}
BranchesOf(b) == {Of("if", b), Branch("if", <<E>>, <<Arm(0, b)>>),
                  Branch("if", b, <<Arm(1, <<E>>), Arm(0, <<E>>)>>),
                  Branch("switch", <<>>, <<Arm(1, b), Arm(2, <<E>>), Arm(0, <<E>>)>>),
                  Branch("switch", <<>>, <<Arm(1, <<E>>), Arm(1, b)>>)}
TriesOf(b) == {Try("continue", FALSE, b), Try("continue", TRUE, b), Try("break", FALSE, b),
               Try("break", TRUE, b), Try("exit", FALSE, b)}
Tasked(b) == {Free(Of("timer", <<Of("task", b), E, Of("task", <<E>>)>>)), Of("timer", <<Of("task", b)>>)}
Nest(b) == LoopsOf(b) \cup BranchesOf(b) \cup TriesOf(b) \cup Tasked(b)

Bodies == {<<>>, <<E>>, <<Statement("break")>>, <<E, Statement("continue")>>, <<Free(Statement("return"))>>}
Inner == UNION {Nest(b) : b \in Bodies}
Outer == UNION {Nest(<<s, E>>) : s \in Inner} \cup UNION {Nest(<<s>>) : s \in Inner}

\* A break is in a loop or a switch, a continue in a loop.
RECURSIVE Legal(_, _, _)
Legal(stmts, brk, cont) ==
    \A i \in DOMAIN stmts :
        LET s == stmts[i]
            loop == s.k \in Loops
        IN /\ s.k = "break" => brk
           /\ s.k = "continue" => cont
           /\ Legal(s.body, brk \/ loop, cont \/ loop)
           /\ \A c \in DOMAIN s.childs : Legal(s.childs[c].body, brk \/ s.k = "switch", cont)
\* A label in the function or in the block of a statement that holds a goto or
\* a try that ends in one.
G == Statement("goto")
Labels == {<<<<0>>, 0>>, <<<<0>>, 1>>, <<<<0>>, 2>>,
           <<<<0, 2, 0>>, 0>>, <<<<0, 2, 0>>, 1>>, <<<<0, 2, 0>>, 2>>}
Gotos == {<<E, s, E>> : s \in UNION {Nest(<<t, E>>) : t \in {G, Try("goto", FALSE, <<E>>), Try("goto", TRUE, <<E>>)}
                                                            \cup Nest(<<G>>)}}
\* Three blocks deep, and a switch without a case.
Deep == UNION {Nest(<<E, s>>) : s \in UNION {Nest(<<s>>) : s \in LoopsOf(<<E>>) \cup TriesOf(<<E>>)}}
More == {Of("switch", <<>>), Branch("switch", <<>>, <<Arm(0, <<E>>)>>),
         Branch("if", <<E>>, <<Arm(1, <<E>>), Arm(1, <<>>), Arm(0, <<E>>)>>)}

McPrograms == {Fun(<<s, E>>, None0) : s \in {t \in Outer \cup More : Legal(<<t>>, FALSE, FALSE)} \cup Deep}
              \cup {Fun(<<E, Free(Statement("return"))>>, None0)}
              \cup {f \in {Fun(b, l) : b \in Gotos, l \in Labels} :
                      /\ f.label[2] <= Len(Block(f, f.label[1]))
                      /\ f.label[1] # <<0>> => f.body[2].k # "switch"}
=============================================================================
