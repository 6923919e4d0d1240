----------------------------- MODULE InitRules -----------------------------
(***************************************************************************)
(* What an initializer means in C (6.7.9 of the standard, with the ranges  *)
(* of GNU): a cursor moves over the object, a designation puts it          *)
(* elsewhere, and what is initialized later replaces what was before.      *)
(*                                                                         *)
(* An item of a list is a designation and a payload.  A step of a          *)
(* designation is a first and a last index, equal but for a range, and the *)
(* sign it is written with.  Values are numbers, so that it shows where    *)
(* each ends up; 0 is the default.                                         *)
(***************************************************************************)
EXTENDS Integers, Sequences, SequencesExt, FiniteSets, FiniteSetsExt

CONSTANT Whole      \* the type of an expression of struct type

Scalar == [kind |-> "int"]
Char == [kind |-> "char"]
Array(n, base) == [kind |-> "array", n |-> n, base |-> base]
Struct(mems) == [kind |-> "struct", mems |-> mems]
Union(mems) == [kind |-> "union", mems |-> mems]
Unsized == -1
Longest == 4        \* elements an array of no size may come to have
StrLen == 2         \* a string literal, with its null

IsScalar(t) == t.kind \in {"int", "char"}
IsString(t) == t.kind = "array" /\ t.base = Char
Count(t) == CASE t.kind = "array" -> IF t.n = Unsized THEN Longest ELSE t.n
              [] t.kind \in {"struct", "union"} -> Len(t.mems)
              [] OTHER -> 0
Elem(t, i) == IF t.kind = "array" THEN t.base ELSE t.mems[i + 1]
RECURSIVE TypeAt(_, _)
TypeAt(t, path) == IF path = <<>> THEN t ELSE TypeAt(Elem(t, Head(path)), Tail(path))

\* The object: the values that are not 0, each at the path to its scalar.
Under(mem, path) == {e \in mem : IsPrefix(path, e[1])}
At(mem, path) == {<<SubSeq(e[1], Len(path) + 1, Len(e[1])), e[2]>> : e \in Under(mem, path)}
To(part, path) == {<<path \o e[1], e[2]>> : e \in part}
RECURSIVE Leaves(_)
Leaves(t) == IF IsScalar(t) THEN {<<>>}
             ELSE UNION {{<<i>> \o l : l \in Leaves(Elem(t, i))} : i \in 0..(Count(t) - 1)}
Filled(t, v) == {<<l, v>> : l \in Leaves(t)}
Text(n, v) == {<<<<i>>, v>> : i \in 0..((IF n < StrLen THEN n ELSE StrLen) - 1)}

--------------------------------------------------------------------------
(* The rule.  A list that is being read: the object, the cursor (a path    *)
(* or End), how long an array of no size has become, the element a range   *)
(* has just ended in, and what tells whether a known fault is met.         *)

End == <<-1>>
Empty == [mem |-> {}, cur |-> <<0>>, top |-> 0, ended |-> End,
          touched |-> {}, active |-> {}, ranged |-> {}, exprs |-> {}, texts |-> {},
          met |-> {}]

RECURSIVE Next_(_, _)
Next_(t, path) ==
    IF path = <<>> THEN End
    ELSE LET in == TypeAt(t, Front(path))
         IN  IF in.kind # "union" /\ Last(path) + 1 < Count(in)
             THEN Append(Front(path), Last(path) + 1) ELSE Next_(t, Front(path))

\* Where a payload without braces belongs, braces left out on the way.
RECURSIVE Descend(_, _)
Descend(t, k) ==
    IF k = "{" \/ IsScalar(t) \/ (k = "s" /\ IsString(t)) \/ (k = "x" /\ t = Whole) THEN <<>>
    ELSE <<0>> \o Descend(Elem(t, 0), k)

RECURSIVE Targets(_)
Targets(des) ==
    IF des = <<>> THEN {<<>>}
    ELSE {<<i>> \o rest : i \in des[1][1]..des[1][2], rest \in Targets(Tail(des))}
LastTarget(des) == [n \in DOMAIN des |-> des[n][2]]
RangeSteps(des) == {n \in DOMAIN des : des[n][1] < des[n][2]}

Unions(t, path) == {k \in 0..(Len(path) - 1) : TypeAt(t, SubSeq(path, 1, k)).kind = "union"}
Up(path, k) == SubSeq(path, 1, k)
\* What an assignment to path leaves of the object.
Kept(t, mem, path) ==
    {e \in mem : /\ ~IsPrefix(path, e[1])
                 /\ \A k \in Unions(t, path) :
                      IsPrefix(Up(path, k), e[1]) => IsPrefix(Up(path, k + 1), e[1])}
Below(u, path) == IsStrictPrefix(path, u)

\* An Initializer that already is a list, of this element or of a member the
\* union no longer holds, and is not emptied; an element that is a copy; one
\* that is a string.
Faults(t, st, path, braced) ==
    {f \in {"stale-list"} :
        \/ braced /\ \E u \in st.touched : Below(u, path)
        \/ \E k \in Unions(t, path) :
              /\ <<Up(path, k), path[k + 1]>> \notin st.active
              /\ \E u \in st.touched : Below(u, Up(path, k + 1))}
    \cup {f \in {"range-copy"} : \E c \in st.ranged : Below(path, c)}
    \cup {f \in {"text-dropped"} : \E c \in st.texts : Below(path, c)}

RECURSIVE RuleList(_, _)
Given(t, p) ==      \* an object of type t initialized by p alone
    CASE p.k = "n" -> [Empty EXCEPT !.mem = {<<<<>>, p.v>>}]
      [] p.k = "x" -> [Empty EXCEPT !.mem = Filled(t, p.v)]
      [] p.k = "s" -> [Empty EXCEPT !.mem = Text(Count(t), p.v)]
      [] p.k = "{" /\ IsScalar(t) /\ p.items # <<>> -> [Empty EXCEPT !.mem = {<<<<>>, p.items[1].p.v>>}]
      [] OTHER -> RuleList(t, p.items)
Take(t, st, path, p, covers) ==
    LET g == Given(TypeAt(t, path), p)
        Stay(s) == {u \in s : ~IsPrefix(path, u)}
        \* a struct given by an expression is given up as a whole
        lost == UNION {Under(st.mem, c) : c \in {c \in st.exprs : Below(path, c)}}
    IN  [st EXCEPT
           !.mem = Kept(t, @ \ lost, path) \cup To(g.mem, path),
           !.top = IF path[1] + 1 > @ THEN path[1] + 1 ELSE @,
           !.touched = Stay(@) \cup {path} \cup {path \o u : u \in g.touched},
           !.ranged = Stay(@) \cup covers \cup {path \o c : c \in g.ranged},
           !.exprs = {c \in Stay(@) : ~Below(path, c)} \cup (IF p.k = "x" THEN {path} ELSE {})
                     \cup {path \o c : c \in g.exprs},
           !.texts = Stay(@) \cup (IF p.k = "s" THEN {path} ELSE {})
                     \cup {path \o c : c \in g.texts},
           !.active = {a \in @ : ~IsPrefix(path, a[1])
                                 /\ \A k \in Unions(t, path) : a[1] # Up(path, k)}
                      \cup {<<Up(path, k), path[k + 1]>> : k \in Unions(t, path)}
                      \cup {<<path \o a[1], a[2]>> : a \in g.active},
           !.met = @ \cup g.met \cup Faults(t, st, path, p.k = "{" /\ p.items # <<>>)]
RuleItem(t, st, it) ==
    LET at == IF it.des = <<>> THEN {st.cur} ELSE Targets(it.des)
        last == IF it.des = <<>> THEN st.cur ELSE LastTarget(it.des)
        Full(path) == path \o Descend(TypeAt(t, path), it.p.k)
        wide == RangeSteps(it.des)
        \* the element of the innermost range that path is of
        Covers(path) == IF wide = {} THEN {} ELSE {Up(path, Max(wide))}
        done == FoldSet(LAMBDA path, s : Take(t, s, Full(path), it.p, Covers(path)), st, at)
        mixed == \E path \in at : \E c \in Covers(path) :
                     Below(Full(path), c) /\ \E path2 \in at, u \in st.touched : 
                         \E c2 \in Covers(path2) : Below(u, c2)
    IN  IF it.des = <<>> /\ st.cur = End THEN st
        ELSE [done EXCEPT
                !.cur = Next_(t, Full(last)),
                !.ended = IF wide = {} THEN End ELSE Up(last, Min(wide)),
                !.met = @ \cup {f \in {"range-tail"} : it.des = <<>> /\ IsPrefix(st.ended, st.cur)}
                             \cup {f \in {"range-copy"} : mixed}]
RuleList(t, list) == FoldLeft(LAMBDA st, it : RuleItem(t, st, it), Empty, list)
=============================================================================
