------------------------------- MODULE MCExpr -------------------------------
(* Expressions for TLC: all trees of a few operators, of many kinds and     *)
(* small, or of few kinds and larger.                                       *)
EXTENDS Expr

\* All trees of n operators of ops with leaves of kinds.  What is assigned to or
\* counted up is a leaf.  "-u" is - before its operand.
RECURSIVE Trees(_, _, _)
Trees(n, ops, kinds) ==
    IF n = 0 THEN {Leaf(0, k) : k \in kinds}
    ELSE UNION {{Un(o, x) : x \in Trees(n - 1, ops, kinds)} : o \in ops \cap {"!", "-u"}}
         \cup {Un(o, x) : o \in IF n = 1 THEN ops \cap {"++", "p++"} ELSE {}, x \in Trees(0, ops, kinds)}
         \cup {Bin(o, x, y) : o \in ops \cap {"="}, x \in Trees(0, ops, kinds), y \in Trees(n - 1, ops, kinds)}
         \cup UNION {{Bin(o, x, y) : o \in ops \ {"!", "-u", "++", "p++", "=", "?"},
                                     x \in Trees(i, ops, kinds), y \in Trees(n - 1 - i, ops, kinds)} : i \in 0..(n - 1)}
         \cup IF "?" \notin ops THEN {}
              ELSE UNION {{Cond(c, x, y) : c \in Trees(i, ops, kinds), x \in Trees(j, ops, kinds),
                                           y \in Trees(n - 1 - i - j, ops, kinds)}
                          : <<i, j>> \in {p \in (0..(n - 1)) \X (0..(n - 1)) : p[1] + p[2] < n}}

\* The leaves get their numbers, from the left.
RECURSIVE Leaves(_)
Leaves(t) == CASE t.k = "leaf" -> 1
               [] t.k = "un" -> Leaves(t.x)
               [] t.k = "bin" -> Leaves(t.x) + Leaves(t.y)
               [] t.k = "cond" -> Leaves(t.c) + Leaves(t.x) + Leaves(t.y)
RECURSIVE Numbered(_, _)
Numbered(t, n) ==
    CASE t.k = "leaf" -> [t EXCEPT !.n = n]
      [] t.k = "un" -> [t EXCEPT !.x = Numbered(@, n), !.op = IF @ = "-u" THEN "-" ELSE @]
      [] t.k = "bin" -> [t EXCEPT !.x = Numbered(@, n), !.y = Numbered(@, n + Leaves(t.x))]
      [] t.k = "cond" -> [t EXCEPT !.c = Numbered(@, n), !.x = Numbered(@, n + Leaves(t.c)),
                                   !.y = Numbered(@, n + Leaves(t.c) + Leaves(t.x))]

All == {"=", "?", "||", "&&", "==", "&", "-", "+", "*", "!", "-u", "++", "p++"}
Var1 == {"var"}
Many == UNION {Trees(n, All, Var1) : n \in 0..2}
Three1 == UNION {Trees(3, ops, Var1) : ops \in {{"=", "+", "*", "?"}, {"&&", "||", "=", "++"}, {"?", "&&", "&", "!"}, {"+", "-", "-u", "p++"}}}
Deep == Trees(4, {"=", "+"}, Var1) \cup Trees(5, {"+"}, Var1)
Elements == Trees(2, {"=", "+"}, {"var", "field", "i0", "i1", "i2"})
            \cup Trees(3, {"=", "+"}, {"var", "i1"})
McInputs == {[tree |-> Numbered(t, 1), style |-> s] : t \in Many \cup Three1 \cup Deep \cup Elements, s \in {"few", "all"}}
=============================================================================
