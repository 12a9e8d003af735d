------------------------------- MODULE Values -------------------------------
(* Values, sharing and references.  A container is shared by the variables   *)
(* and elements that hold it and counted (rc); whoever writes into a shared  *)
(* one first makes a copy of its own.  A reference (&x, &x[0]) points at a   *)
(* variable or an element.  Taking one unshares every container on the way   *)
(* and marks it (rf); a marked container is copied at once instead of shared *)
(* so that what is written through the reference reaches one holder only.    *)
(*                                                                           *)
(* A container has one element here, the loops over the elements treat each  *)
(* on its own; so the address of a container also stands for its element.    *)
EXTENDS Naturals, FiniteSets, Sequences, SequencesExt, FiniteSetsExt

CONSTANTS
    Vars,       \* variables
    Objs,       \* addresses of containers, numbers
    Ints,       \* numbers a variable can hold
    MaxDepth,   \* bound: indices in a path
    MaxMarks    \* bound: references marked in one container

ASSUME ValuesAssumption ==
    /\ Objs \subseteq Nat \ {0} /\ 0 \notin Vars /\ Vars \cap Objs = {}
    /\ IsFiniteSet(Vars \cup Objs) /\ 0 \in Ints
    /\ MaxDepth \in Nat \ {0} /\ MaxMarks \in Nat \ {0}

VARIABLES
    heap,   \* all variables and containers
    wrote   \* the location the last operation wrote to

vars == <<heap, wrote>>

Locs == Vars \cup Objs
Num(n) == <<"int", n>>
Arr(o) == <<"arr", o>>
Ref(l) == <<"ref", l>>
None == <<0>>       \* the path of a location nothing refers to: name = NULL

IsArr(h, l) == h.at[l][1] = "arr"
IsRef(h, l) == h.at[l][1] = "ref"
ObjAt(h, l) == h.at[l][2]
\* What an operand stands for: CZL_GRV if it holds a reference.
Deref(h, l) == IF IsRef(h, l) THEN h.at[l][2] ELSE l
Named(h, l) == h.path[l] # None
Live(h) == {o \in Objs : h.rc[o] > 0}
\* The container o and what is in it, not through references.
Inside(h, o) ==
    LET In[n \in 0..Cardinality(Objs)] ==
          IF n = 0 THEN {o} ELSE In[n - 1] \cup {ObjAt(h, p) : p \in {q \in In[n - 1] : IsArr(h, q)}}
    IN In[Cardinality(Objs)]
\* Something went wrong: the statement is the last of the program.
Bad(h, what, cond) == IF cond THEN [h EXCEPT !.bad = @ \cup {what}] ELSE h

----------------------------------------------------------------------------
(* References *)

\* CZL_ORFA1 and CZL_ORFD1: the containers on the path of t.
Mark(h, t) == [h EXCEPT !.rf = [o \in Objs |-> IF o \in ToSet(h.path[t]) THEN @[o] + 1 ELSE @[o]]]
Unmark(h, t) == [h EXCEPT !.rf = [o \in Objs |-> IF o \in ToSet(h.path[t]) THEN @[o] - 1 ELSE @[o]]]

\* czl_ref_break: l no longer refers to t.  The list of an element goes with
\* its last reference, that of a variable stays.
RefBreak(h, l, t) ==
    LET u == Unmark([h EXCEPT !.refs[t] = SelectSeq(@, LAMBDA x : x # l)], t)
    IN IF u.refs[t] = <<>> /\ u.path[t] # <<>> THEN [u EXCEPT !.path[t] = None] ELSE u

\* Mutant: the reference before is not broken.
RefCopyKeepsOld(h, l, t) ==
    LET u == IF Named(h, t) THEN h ELSE [h EXCEPT !.path[t] = <<>>]
    IN IF h.at[l] = Ref(t) THEN u
       ELSE Mark([u EXCEPT !.refs[t] = <<l>> \o @, !.at[l] = Ref(t)], t)

\* czl_ref_copy: l refers to t, and to nothing else any more.
RefCopy(h, l, t) ==
    LET u == IF Named(h, t) THEN h ELSE [h EXCEPT !.path[t] = <<>>]
        v == IF IsRef(h, l) THEN RefBreak(u, l, ObjAt(h, l)) ELSE u
    IN IF h.at[l] = Ref(t) THEN u
       ELSE Mark([v EXCEPT !.refs[t] = <<l>> \o @, !.at[l] = Ref(t)], t)

----------------------------------------------------------------------------
(* Copies and deletions, of containers within containers *)

Unused(h) == {o \in Objs : h.rc[o] = 0 /\ o \notin h.going}

RECURSIVE ValCopy(_, _, _), ValCopyShares(_, _, _), Copy(_, _), ValDel(_, _), RefObjDelete(_, _)

\* One more holder of o: a marked container is copied, any other shared.
Hold(h, o) == IF h.rf[o] > 0 THEN Copy(h, o)
              ELSE [heap |-> [h EXCEPT !.rc[o] = @ + 1], new |-> o]
Put(c, l) == [c.heap EXCEPT !.at[l] = Arr(c.new)]

\* Mutant: a marked container is shared like any other.
ValCopyShares(h, l, r) ==
    IF IsRef(h, r) THEN RefCopy(h, l, ObjAt(h, r))
    ELSE IF ~IsArr(h, r) THEN [h EXCEPT !.at[l] = h.at[r]]
    ELSE [h EXCEPT !.rc[ObjAt(h, r)] = @ + 1, !.at[l] = h.at[r]]

\* czl_val_copy into l, which holds nothing that must be freed; a reference
\* stays a reference.
ValCopy(h, l, r) ==
    IF IsRef(h, r) THEN RefCopy(h, l, ObjAt(h, r))
    ELSE IF IsArr(h, r) THEN Put(Hold(h, ObjAt(h, r)), l)
    ELSE [h EXCEPT !.at[l] = h.at[r]]

\* A container with a copy of the element of o (czl_array_create and
\* czl_array_vars_new_by_array).
Copy(h, o) ==
    IF Unused(h) = {} THEN [heap |-> Bad(h, "full", TRUE), new |-> o]
    ELSE LET n == Min(Unused(h)) IN
         [heap |-> ValCopy([h EXCEPT !.rc[n] = 1, !.rf[n] = 0, !.at[n] = Num(0)], n, o),
          new |-> n]

\* The references to the element o, if there are any, get their copy of it.
Forsake(h, o) == IF Named(h, o) /\ ~IsRef(h, o) THEN RefObjDelete(h, o) ELSE h
\* o is free; a path that still leads through it is left to others.
Freed(h, o) ==
    LET stale == \E t \in Locs \ {o} : Named(h, t) /\ o \in ToSet(h.path[t])
    IN Bad([h EXCEPT !.going = @ \ {o}, !.at[o] = Num(0), !.rf[o] = 0], "path", stale)
\* One holder less.  The last takes the container along, and references to the
\* element get their copy of it only after it was deleted itself.
Uncount(h, o) ==
    IF h.rc[o] > 0 THEN h
    ELSE Freed(Forsake(ValDel([h EXCEPT !.going = @ \cup {o}], o), o), o)

\* czl_val_del: the value of l goes, l keeps its old content for its caller to
\* replace.
ValDel(h, l) ==
    IF IsRef(h, l) THEN RefBreak(h, l, ObjAt(h, l))
    ELSE IF ~IsArr(h, l) THEN h
    ELSE Uncount([h EXCEPT !.rc[ObjAt(h, l)] = @ - 1], ObjAt(h, l))
Replace(h, l, v) == [ValDel(h, l) EXCEPT !.at[l] = v]

\* czl_ref_obj_delete: whoever refers to t gets a copy of it.  The marks go
\* down by one, however many refer to t.  A copy of a marked container first
\* deletes what the reference held, a reference without a node by now.
RefObjDelete(h, t) ==
    LET o == ObjAt(h, t)
        freed == IsArr(h, t) /\ h.rc[o] = 0
        held == IsArr(h, t) /\ ~freed /\ h.refs[t] # <<>>
        u == Bad(Bad(Unmark(h, t), "freed", freed /\ h.refs[t] # <<>>),
                 "null", held /\ h.rf[o] > 0)
        Give(v, l) == ValCopy([v EXCEPT !.at[l] = Num(0)], l, t)
    IN [(IF u.bad = {} THEN FoldLeft(Give, u, h.refs[t]) ELSE u)
           EXCEPT !.refs[t] = <<>>, !.path[t] = None]

\* czl_ass_cac and czl_obj_fork with a right operand in r: it is counted or
\* copied before the value of l goes.
Assign(h, l, r) ==
    LET Give(c) == Replace(c.heap, l, Arr(c.new))
    IN IF IsArr(h, r) THEN Give(Hold(h, ObjAt(h, r))) ELSE Replace(h, l, h.at[r])

----------------------------------------------------------------------------
(* The way to an element: x[0]..[0] with d indices (czl_get_member_res)      *)

Fork(h, l) == LET o == ObjAt(h, l) IN Put(Copy([h EXCEPT !.rc[o] = @ - 1], o), l)

\* On to the element, in heap h with the copy c.new of what is to be stored.
Enter(w, c, h) ==
    [w EXCEPT !.heap = h, !.loc = ObjAt(h, w.loc), !.objs = Append(@, ObjAt(h, w.loc)),
              !.copy = c.new]
Circle(w, use, r) ==
    IF use = "set" /\ w.copy = 0 /\ r \in Objs /\ r = ObjAt(w.heap, w.loc)
    THEN Copy(w.heap, r) ELSE [heap |-> w.heap, new |-> w.copy]
Crowd(h, l) == h.rc[ObjAt(h, l)] > 1

\* Mutant: only a write forks what is shared, "&" does not.
StepInNoFork(w, use, r) ==
    LET Go(c) == Enter(w, c, IF use = "set" /\ Crowd(c.heap, w.loc) THEN Fork(c.heap, w.loc)
                             ELSE c.heap)
    IN IF w.ok /\ IsArr(w.heap, w.loc) THEN Go(Circle(w, use, r)) ELSE [w EXCEPT !.ok = FALSE]

\* Mutant: the container to be stored is not looked for on the way.
StepInCircle(w, use, r) ==
    LET Go(c) == Enter(w, c, IF use # "get" /\ Crowd(c.heap, w.loc) THEN Fork(c.heap, w.loc)
                             ELSE c.heap)
    IN IF w.ok /\ IsArr(w.heap, w.loc) THEN Go([heap |-> w.heap, new |-> w.copy])
       ELSE [w EXCEPT !.ok = FALSE]

\* One index.  Unless the element is only read, a shared container is forked
\* on the way; and if the container r that is to be stored there is met, a
\* copy of it will be stored instead.
StepIn(w, use, r) ==
    LET Go(c) == Enter(w, c, IF use # "get" /\ Crowd(c.heap, w.loc) THEN Fork(c.heap, w.loc)
                             ELSE c.heap)
    IN IF w.ok /\ IsArr(w.heap, w.loc) THEN Go(Circle(w, use, r)) ELSE [w EXCEPT !.ok = FALSE]

\* From variable x, d indices deep.  The check of a stored container r against
\* the path of a root that is itself an element takes containers for variables.
Walk(h, x, d, use, r) ==
    LET root == Deref(h, x)
        start == [heap |-> Bad(h, "confused", use = "set" /\ d > 0 /\ r \in Objs
                                              /\ Len(h.path[root]) > 0 /\ Named(h, root)),
                  loc |-> root, objs |-> <<>>, copy |-> 0, ok |-> TRUE]
        \* the path of the root, if it has one, continues
        above == IF Named(h, root) THEN h.path[root] ELSE <<>>
        Name(w) == IF use = "ref" /\ w.ok /\ d > 0 /\ ~Named(w.heap, w.loc)
                   THEN [w EXCEPT !.heap.path[w.loc] = above \o w.objs] ELSE w
    IN Name(FoldLeft(LAMBDA u, i : StepIn(u, use, r), start, [i \in 1..d |-> i]))

\* l = &t (czl_addr_obj_ass_handle): whoever refers to l gets its old value.
\* While that value goes, an element t is locked.
RefTo(h, l, t) ==
    LET \* several references get the value that t is inside of
        shared == IsArr(h, l) /\ Len(h.refs[l]) > 1 /\ t \in Inside(h, ObjAt(h, l))
        Locked(u) ==            \* t goes with the value of l, n containers down
          LET Holds[n \in Nat] ==
                IF n = 0 THEN l
                ELSE LET k == Holds[n - 1] IN
                     IF k # 0 /\ IsArr(u, k) /\ u.rc[ObjAt(u, k)] = 1 THEN ObjAt(u, k) ELSE 0
          IN t \in Objs /\ t \in {Holds[n] : n \in 1..Cardinality(Objs)}
        Turn(u) ==
          IF IsRef(u, l) THEN RefCopy(u, l, t)
          \* the deletion fails at the lock: the containers around it stay uncounted,
          \* and t keeps a path although nothing refers to it
          ELSE IF Locked(u) THEN Bad(u, "lock", TRUE)
          ELSE Bad(RefCopy(Replace(u, l, Num(0)), l, t), "shared", shared)
    IN IF l = t THEN h ELSE Turn(Forsake(h, l))

----------------------------------------------------------------------------
(* Statements *)

Empty == [at |-> [l \in Locs |-> Num(0)], rc |-> [o \in Objs |-> 0],
          rf |-> [o \in Objs |-> 0], refs |-> [l \in Locs |-> <<>>],
          path |-> [l \in Locs |-> None], going |-> {}, bad |-> {}]

Init == heap = Empty /\ wrote = 0

Sound == heap.bad = {}
\* A statement has its effect unless it goes beyond a bound of the model.
Does(h, l) ==
    /\ "full" \notin h.bad /\ \A o \in Objs : h.rf[o] <= MaxMarks
    /\ heap' = h /\ wrote' = l

Depths == 0..MaxDepth

\* x[0].. = n
SetInt(x, d, n) ==
    /\ Sound
    /\ \E w \in {Walk(heap, x, d, "set", 0)} :
          w.ok /\ Does(Replace(w.heap, w.loc, Num(n)), w.loc)

\* x[0].. = y[0]..: the right side first, without forks.
SetVar(x, d, y, e) ==
    /\ Sound
    /\ \E r \in {Walk(heap, y, e, "get", 0)} :
       \E w \in {Walk(r.heap, x, d, "set", IF IsArr(r.heap, r.loc) THEN ObjAt(r.heap, r.loc)
                                           ELSE 0)} :
          /\ r.ok /\ w.ok
          /\ Does(IF w.copy = 0 THEN Assign(w.heap, w.loc, r.loc)
                  ELSE Replace(w.heap, w.loc, Arr(w.copy)), w.loc)

\* x = &y[0]..: x itself, whatever it refers to, becomes the reference.
RefVar(x, y, e) ==
    /\ Sound
    /\ \E r \in {Walk(heap, y, e, "ref", 0)} :
          r.ok /\ Does(IF r.heap.bad = {} THEN RefTo(r.heap, x, r.loc) ELSE r.heap, x)

\* x = null
SetNull(x) == Sound /\ Does(Replace(heap, x, Num(0)), x)

\* x = [y]: what x held goes before the list is evaluated
\* (czl_arr_tab_list_ass), so a list that names x itself reads what is left.
NewList(x, y) ==
    /\ Sound
    /\ \E l \in {Deref(heap, x)} : \E h \in {Replace(heap, l, Num(0))} :
       \E n \in Unused(h), r \in {Deref(h, y)} :
          /\ n = Min(Unused(h))
          /\ Does([Bad(ValCopy([h EXCEPT !.rc[n] = 1, !.rf[n] = 0, !.at[n] = Num(0)], n, r),
                       "list", l = r /\ IsArr(heap, l)) EXCEPT !.at[l] = Arr(n)], l)

\* The program ends.
Exit == heap # Empty /\ heap' = Empty /\ wrote' = 0

Next ==
    \/ \E x \in Vars, d \in Depths, n \in Ints : SetInt(x, d, n)
    \/ \E x, y \in Vars, d, e \in Depths : SetVar(x, d, y, e)
    \/ \E x, y \in Vars, e \in Depths : RefVar(x, y, e)
    \/ \E x \in Vars : SetNull(x)
    \/ \E x, y \in Vars : NewList(x, y)
    \/ Exit

Spec == Init /\ [][Next]_vars

----------------------------------------------------------------------------
(* Properties *)

Holders(h, o) == {l \in Vars \cup Live(h) : h.at[l] = Arr(o)}
Referrers(h, t) == {l \in Vars \cup Live(h) : h.at[l] = Ref(t)}

\* Nothing is counted that is not there: a container lives as long as some
\* variable or element of a living container holds it, and the list of a
\* location names each of its references once (czl_val_copy, czl_val_del,
\* czl_array_delete, czl_ref_copy, czl_ref_break).
CountsExact == Sound =>
    /\ \A o \in Objs : heap.rc[o] = Cardinality(Holders(heap, o))
    /\ \A t \in Vars \cup Live(heap) :
        /\ ToSet(heap.refs[t]) = Referrers(heap, t)
        /\ Len(heap.refs[t]) = Cardinality(Referrers(heap, t))

\* No container holds itself, however deep: what a script stores in an element
\* of the very container is a copy (czl_circle_ref_obj_fork), so every count
\* goes to zero in the end.
NoCycle == Sound =>
    \A o \in Live(heap) : IsArr(heap, o) => o \notin Inside(heap, ObjAt(heap, o))

\* Whoever takes a reference to an element gets it for himself: the containers
\* on its path are the ones it is in, they are marked, and a marked container
\* has one holder, whatever was assigned, copied or forked since.
MarkedAlone == Sound =>
    /\ \A t \in Live(heap) : heap.refs[t] # <<>> =>
        /\ t \in ToSet(heap.path[t])
        /\ \A o \in ToSet(heap.path[t]) : heap.rf[o] > 0 /\ t \in Inside(heap, o)
    /\ \A o \in Live(heap) : heap.rf[o] > 0 => heap.rc[o] = 1

\* The value a script sees in l, references followed, down to some depth.
RECURSIVE Value(_, _, _)
Value(h, l, d) ==
    IF IsRef(h, l) THEN Value(h, ObjAt(h, l), d)
    ELSE IF ~IsArr(h, l) THEN h.at[l]
    ELSE IF d = 0 THEN <<"deeper">> ELSE <<"of", Value(h, ObjAt(h, l), d - 1)>>
\* What can be reached from x, through containers and references.
Seen(h, x) ==
    LET Next1(s) == s \cup {ObjAt(h, l) : l \in {k \in s : ~(h.at[k][1] = "int")}}
        In[n \in 0..Cardinality(Locs)] == IF n = 0 THEN {x} ELSE Next1(In[n - 1])
    IN In[Cardinality(Locs)]

\* A statement changes the value of a variable only if it writes to it, or to
\* something the variable reaches; and what it writes to is not shared.  So
\* sharing is never seen, in spite of references into shared containers.
WritesSeen ==
    [][heap'.bad = {} =>
        /\ \A x \in Vars : Value(heap', x, MaxDepth + 1) # Value(heap, x, MaxDepth + 1)
              => wrote' = 0 \/ wrote' \in Seen(heap', x)
        /\ \A o \in Live(heap') : wrote' \in Inside(heap', o) => heap'.rc[o] = 1]_vars
============================================================================
