------------------------------ MODULE MCCalls ------------------------------
(* Scripts for TLC: functions by what they have, and what the script does.    *)
EXTENDS Calls

Function(params, n) == [params |-> params, vars |-> n, ref |-> FALSE, rest |-> FALSE, try |-> FALSE,
                        yeild |-> FALSE, method |-> FALSE]
Rest(f) == [f EXCEPT !.rest = TRUE]
By(f) == [f EXCEPT !.ref = TRUE]
Yields(f) == [f EXCEPT !.yeild = TRUE]
Tries(f, b) == [f EXCEPT !.try = b]
OfClass(f) == [f EXCEPT !.method = TRUE]
Script(what, fs) == [does |-> what, funs |-> fs]
Bare == Function(0, 0)

Recursion == {Script({"set", "nest"}, [main |-> Bare, f |-> Function(1, 2)]),
              Script({"set", "temp"}, [main |-> Bare, f |-> Rest(Function(0, 1))]),
              Script({"temp", "nest"}, [main |-> Bare, f |-> Rest(Function(1, 2))]),
              Script({"temp"}, [main |-> Bare, f |-> Rest(Bare)])}
References == {Script({"ref", "set"}, [main |-> Function(0, 1), f |-> Function(0, 1), g |-> By(Function(1, 1))]),
               Script({"set"}, [main |-> Function(0, 1), f |-> Function(1, 1), g |-> By(Function(1, 1))]),
               Script({"set"}, [main |-> Function(0, 1), f |-> By(Function(1, 2))]),
               Script({"ref"}, [main |-> Function(0, 1), f |-> Function(0, 2), g |-> By(Function(1, 1))])}
Generators == {Script({"ref", "c"}, [main |-> Function(0, 1), f |-> Yields(Function(1, 2))]),
               Script({"temp", "c"}, [main |-> Bare, f |-> Yields(Rest(Function(1, 1)))]),
               Script({"nest", "c", "d"}, [main |-> Function(0, 1), f |-> Yields(Function(1, 1))]),
               Script({"nest", "c", "fail"}, [main |-> Tries(Bare, TRUE), f |-> Yields(Function(1, 1))])}
Methods == {Script({"fail"}, [main |-> Tries(Bare, TRUE), f |-> OfClass(Bare), g |-> OfClass(Function(1, 1))])}
Exceptions == {Script({"fail", "nest"}, [main |-> Tries(Bare, a), f |-> Tries(Rest(Function(1, 1)), b),
                                         g |-> Yields(Tries(Function(0, 1), c))]) : a, b, c \in BOOLEAN}
McScripts == Recursion \cup References \cup Generators \cup Methods \cup Exceptions
=============================================================================
