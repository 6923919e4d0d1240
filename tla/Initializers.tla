---------------------------- MODULE Initializers ----------------------------
(***************************************************************************)
(* Initializers in parse.c: the recursive descent over an initializer list *)
(* (braces that may be left out, designators, ranges of elements), the     *)
(* tree of Initializer it fills, and what becomes of the tree: the         *)
(* assignments of a local variable (create_lvar_init) or the data of a     *)
(* static one (write_gvar_data).  A step writes one more item; every list  *)
(* on the way is a program.                                                *)
(***************************************************************************)
EXTENDS InitRules

CONSTANTS Types,       \* types of the variable
          MaxItems,    \* the last is a plain value
          MaxIndex,    \* designators of an array go so far
          KnownFaults  \* forms left out of the properties (see Faults)

VARIABLES ty, items
vars == <<ty, items>>

--------------------------------------------------------------------------
(* The tokens an initializer is written in; a designator is one.           *)

Tok(t) == [t |-> t, i |-> 0, j |-> 0]
RECURSIVE Tokens(_)
Payload(p) ==
    IF p.k = "{" THEN <<Tok("{")>> \o Tokens(p.items) \o <<Tok("}")>>
    ELSE <<[t |-> p.k, i |-> p.v, j |-> 0]>>
ItemTokens(it) ==
    [n \in DOMAIN it.des |-> [t |-> it.des[n][3], i |-> it.des[n][1], j |-> it.des[n][2]]]
        \o (IF it.des = <<>> THEN <<>> ELSE <<Tok("=")>>) \o Payload(it.p)
Tokens(list) ==
    IF list = <<>> THEN <<>>
    ELSE ItemTokens(list[1]) \o (IF Len(list) > 1 THEN <<Tok(",")>> ELSE <<>>) \o Tokens(Tail(list))

--------------------------------------------------------------------------
(* The parser.  p is the token it is at; a call gives the token after and  *)
(* the Initializer.                                                        *)

NoInit == [kind |-> "NONE", ty |-> Scalar, list |-> <<>>, union_idx |-> 0, v |-> 0, cpy |-> <<>>]
Blank(t) == [NoInit EXCEPT !.ty = t]
NoCtx == [null |-> TRUE, init |-> <<>>, var |-> 0, end |-> 0, lvl |-> 0, init_lvl |-> 0]
NewCtx == [NoCtx EXCEPT !.null = FALSE]

\* Mutant: an Initializer that already is a list is begun again.
prepare_init_Again(init) ==
    [init EXCEPT !.kind = "LIST",
                 !.list = [i \in 1..Count(init.ty) |-> Blank(Elem(init.ty, i - 1))]]
prepare_init(init) ==
    IF init.kind = "LIST" THEN init
    ELSE [init EXCEPT !.kind = "LIST",
                      !.list = [i \in 1..Count(init.ty) |-> Blank(Elem(init.ty, i - 1))]]

RECURSIVE initializer2(_, _, _, _), list_initializer(_, _, _, _, _),
          designation(_, _, _, _, _), Braced(_, _, _, _, _), Ranged(_, _, _, _, _, _),
          Counted(_, _, _, _, _, _)

list_initializer(T, p, init, idx, const) ==
    LET tok2 == IF idx = 0 THEN p ELSE p + 1
        r == initializer2(T, tok2, init.list[idx + 1], const)
        set == [init EXCEPT !.list[idx + 1] = r.init]
    IN  IF idx >= Len(init.list) \/ T[p].t = "}" \/ T[tok2].t \in {"}", "[", "."}
        THEN [p |-> p, init |-> init]
        ELSE IF init.ty.kind = "union" THEN [p |-> r.p, init |-> [set EXCEPT !.union_idx = idx]]
        ELSE list_initializer(T, r.p, set, idx + 1, const)

\* The rest of a list in braces that began at start.
Braced(T, p, init, start, const) ==
    LET tok == IF p = start THEN p ELSE p + 1
        r == designation(T, tok, init, NoCtx, const)
        excess == IF T[tok].t = "{"
                  THEN CHOOSE q \in (tok + 1)..Len(T) : T[q].t = "}" /\ \A m \in tok..(q - 1) : T[m].t # "}"
                  ELSE tok
    IN  IF T[p].t = "}" THEN [p |-> p + 1, init |-> init]
        ELSE IF T[tok].t = "}" THEN [p |-> tok + 1, init |-> init]
        ELSE IF T[tok].t \in {"[", "."} THEN Braced(T, r.p, r.init, start, const)
        ELSE Braced(T, excess + 1, init, start, const)

aggregate_initializer(T, p, init, has_brace, const) ==
    LET r == list_initializer(T, p, init, 0, const)
    IN  IF has_brace THEN Braced(T, r.p, r.init, p, const) ELSE r

\* Mutant: the size is that of the last element, not of the largest index.
Counted_Last(T, p, dummy, i, max, const) ==
    LET tok == IF i = 0 THEN p ELSE p + 1
        at == IF T[tok].t = "[" THEN T[tok].j ELSE i
        r == IF T[tok].t = "[" THEN designation(T, tok + 1, dummy, NoCtx, const)
             ELSE initializer2(T, tok, dummy, const)
    IN  IF T[p].t = "}" \/ T[tok].t = "}" THEN max
        ELSE Counted(T, r.p, r.init, at + 1, at + 1, const)
\* count_array_init_elements; every element goes to the same dummy.
Counted(T, p, dummy, i, max, const) ==
    LET tok == IF i = 0 THEN p ELSE p + 1
        at == IF T[tok].t = "[" THEN T[tok].j ELSE i
        r == IF T[tok].t = "[" THEN designation(T, tok + 1, dummy, NoCtx, const)
             ELSE initializer2(T, tok, dummy, const)
    IN  IF T[p].t = "}" \/ T[tok].t = "}" THEN max
        ELSE Counted(T, r.p, r.init, at + 1, IF at + 1 > max THEN at + 1 ELSE max, const)

initializer2(T, p, init, const) ==
    LET has_brace == T[p].t = "{"
        q == IF has_brace THEN p + 1 ELSE p
        t == init.ty
        Sized(n) == [init EXCEPT !.ty = IF t.kind = "array" /\ t.n = Unsized THEN Array(n, t.base) ELSE t]
        Valued(i, kind) == [p |-> IF has_brace THEN q + 2 ELSE q + 1,
                            init |-> [i EXCEPT !.kind = kind, !.v = T[q].i]]
    IN  IF has_brace /\ T[q].t = "}"
        THEN [p |-> q + 1, init |-> [Sized(0) EXCEPT !.kind = "NONE"]]
        ELSE IF IsString(t) /\ T[q].t = "s" THEN Valued(Sized(StrLen), "STR")
        ELSE IF t.kind = "array"
             THEN LET n == IF t.n = Unsized THEN Counted(T, q, Blank(t.base), 0, 0, const) ELSE 0
                  IN  aggregate_initializer(T, q, prepare_init(Sized(n)), has_brace, const)
        ELSE IF t.kind \in {"struct", "union"}
             THEN IF ~has_brace /\ T[q].t = "x" /\ t = Whole THEN Valued(init, "EXPR")
                  ELSE aggregate_initializer(T, q, prepare_init(init), has_brace, const)
        ELSE Valued(init, "EXPR")

\* Mutant: each element of the range is parsed, and computes its value.
Ranged_Each(T, p, init, i, j, ctx) ==
    LET r == designation(T, p, init.list[i + 1], NoCtx, FALSE)
    IN  IF i > j THEN [init |-> init, ctx |-> ctx]
        ELSE Ranged(T, p, [init EXCEPT !.list[i + 1] = r.init], i + 1, j, [ctx EXCEPT !.end = r.p])
\* The elements i to j of a range in a local variable: the first is parsed, the
\* others are copies of it; with ranges inside of it only the innermost is.
Ranged(T, p, init, i, j, ctx) ==
    LET r == designation(T, p, init.list[i + 1], ctx, FALSE)
        parsed == ctx.init_lvl # ctx.lvl
        inner == parsed /\ r.ctx.init # <<>>
        after == IF ~parsed THEN ctx
                 ELSE IF inner THEN r.ctx
                 ELSE [r.ctx EXCEPT !.init = <<r.init>>, !.var = p, !.end = r.p, !.init_lvl = r.ctx.lvl]
        copy == [NoInit EXCEPT !.kind = "COPY", !.ty = init.list[i + 1].ty,
                               !.v = after.var, !.cpy = after.init]
        set == [init EXCEPT !.list[i + 1] = IF inner THEN r.init ELSE copy]
    IN  IF i > j THEN [init |-> init, ctx |-> ctx] ELSE Ranged(T, p, set, i + 1, j, after)

designation(T, p, init, ctx, const) ==
    LET i == T[p].i
        j == T[p].j
        list == prepare_init(init)
        one == designation(T, p + 1, list.list[i + 1], ctx, const)
        EachParsed == [list EXCEPT !.list = [n \in DOMAIN list.list |->
                          IF n - 1 \in i..j THEN designation(T, p + 1, list.list[n], ctx, const).init
                          ELSE list.list[n]]]
        outer == IF ctx.null THEN NewCtx ELSE ctx
        ranged == Ranged(T, p + 1, list, i, j, [outer EXCEPT !.lvl = @ + 1])
        left == [ranged.ctx EXCEPT !.lvl = @ - 1]
        rest == IF i = j \/ const
                THEN [l |-> list_initializer(T, one.p, EachParsed, j + 1, const), ctx |-> one.ctx]
                ELSE [l |-> list_initializer(T, left.end, ranged.init, j + 1, const), ctx |-> left]
        val == initializer2(T, IF T[p].t = "=" THEN p + 1 ELSE p, init, const)
    IN  CASE T[p].t = "[" ->
               [p |-> rest.l.p, init |-> rest.l.init, ctx |-> IF ctx.null THEN ctx ELSE rest.ctx]
          [] T[p].t = "." /\ init.ty.kind = "union" ->
               [p |-> one.p, ctx |-> one.ctx,
                init |-> [list EXCEPT !.union_idx = i, !.list[i + 1] = one.init]]
          [] T[p].t = "." /\ init.ty.kind = "struct" ->
               LET l == list_initializer(T, one.p, [list EXCEPT !.list[i + 1] = one.init], i + 1, const)
               IN  [p |-> l.p, init |-> l.init, ctx |-> one.ctx]
          [] OTHER -> [p |-> val.p, init |-> val.init, ctx |-> ctx]

initializer(const) ==
    initializer2(<<Tok("{")>> \o Tokens(items) \o <<Tok("}"), Tok(";")>>, 1, Blank(ty), const).init

--------------------------------------------------------------------------
(* What the tree becomes. *)

\* Mutant: every member of a union is written, not the one chosen.
Members_All(init) == 0..(Len(init.list) - 1)
Members(init) == IF init.ty.kind = "union" THEN {init.union_idx} ELSE 0..(Len(init.list) - 1)
RECURSIVE write_gvar_data(_)
write_gvar_data(init) ==
    CASE init.kind = "EXPR" -> Filled(init.ty, init.v)
      [] init.kind = "STR" -> Text(init.ty.n, init.v)
      [] init.kind = "LIST" -> UNION {To(write_gvar_data(init.list[i + 1]), <<i>>) : i \in Members(init)}
      [] OTHER -> {}

\* The assignments, done in their order: the object, the variables copies are
\* kept in, and the values computed.
Assign(st, path, part) == [st EXCEPT !.mem = (@ \ Under(@, path)) \cup To(part, path)]
RECURSIVE create_lvar_init(_, _, _)
create_lvar_init(st, init, path) ==
    CASE init.kind = "EXPR" ->
           Assign([st EXCEPT !.computed = Append(@, init.v)], path, Filled(init.ty, init.v))
      [] init.kind = "STR" -> Assign(st, path, Text(init.ty.n, init.v))
      [] init.kind = "LIST" ->
           FoldLeft(LAMBDA s, i : create_lvar_init(s, init.list[i + 1], Append(path, i)),
                    st, SetToSortSeq(Members(init), <))
      [] init.kind = "COPY" /\ init.v \in DOMAIN st.copies -> Assign(st, path, st.copies[init.v])
      [] init.kind = "COPY" /\ init.v \notin DOMAIN st.copies ->
           LET made == create_lvar_init(st, init.cpy[1], path)
           IN  [made EXCEPT !.copies = [c \in DOMAIN @ \cup {init.v} |->
                                            IF c = init.v THEN At(made.mem, path) ELSE @[c]]]
      [] OTHER -> st
lvar_initializer ==
    create_lvar_init([mem |-> {}, copies |-> [c \in {} |-> {}], computed |-> <<>>],
                     initializer(FALSE), <<>>)
gvar_initializer == write_gvar_data(initializer(TRUE))

--------------------------------------------------------------------------
(* Programs. *)

Value(k, v) == [k |-> k, v |-> v, items |-> <<>>]
Item(des, p) == [des |-> des, p |-> p]
InBraces(list) == [k |-> "{", v |-> 0, items |-> list]
Sign(t) == IF t.kind = "array" THEN "[" ELSE "."
One(t, i) == <<i, i, Sign(t)>>
Plain(v) == Item(<<>>, Value("n", v))
\* Designations of one and two steps.
Steps(t) ==
    LET last == IF t.kind = "array" /\ Count(t) > MaxIndex THEN MaxIndex ELSE Count(t) - 1
    IN  {One(t, i) : i \in 0..last}
        \cup (IF t.kind = "array" THEN {<<i, i + 1, "[">> : i \in 0..(last - 1)} ELSE {})
Designations(t) ==
    {<<>>} \cup {<<d>> : d \in Steps(t)}
           \cup UNION {{<<d, e>> : e \in Steps(Elem(t, d[1]))} : d \in Steps(t)}
\* What may stand for an object of type t; v numbers the values.
Payloads(t, v) ==
    {Value("n", v), InBraces(<<>>), InBraces(<<Plain(v)>>)}
    \cup (IF IsScalar(t) THEN {}
          ELSE {InBraces(<<Plain(v), Plain(v + 1)>>),
                InBraces(<<Item(<<One(t, Count(t) - 1)>>, Value("n", v))>>)})
    \cup {Value(k, v) : k \in {k \in {"s", "x"} :
                                ~IsScalar(TypeAt(t, Descend(t, k)))}}
Rule == RuleList(ty, items)

Init == ty \in Types /\ items = <<>>
AddItem(des) ==
    LET at == IF des = <<>> THEN Rule.cur ELSE LastTarget(des)
        v == 10 * (Len(items) + 1)
    IN  /\ \/ at # End /\ \E p \in Payloads(TypeAt(ty, at), v) :
                  (Len(items) = MaxItems - 1 => p.k = "n") /\ items' = Append(items, Item(des, p))
           \/ at = End /\ (ty.kind = "array" => ty.n # Unsized) /\ items' = Append(items, Plain(v))
        /\ UNCHANGED ty
Next == /\ Len(items) < MaxItems /\ Rule.met \cap KnownFaults = {}
        /\ \E des \in Designations(ty) : AddItem(des)
Spec == Init /\ [][Next]_vars

--------------------------------------------------------------------------
(* Properties. *)

\* An array without a size has the size that its list reaches, counted before
\* the list is read (count_array_init_elements).
SizeIsC(const) == ty.kind = "array" /\ ty.n = Unsized => initializer(const).ty.n = Rule.top

\* The assignments made for a local variable leave in it what the rules of C
\* say, where braces are left out, designators go back and ranges overlap; an
\* expression is computed once at most, also when a range of elements gets its
\* value.
LocalsAreC ==
    LET made == lvar_initializer
    IN  Rule.met \cap KnownFaults = {} =>
          /\ SizeIsC(FALSE) /\ made.mem = Rule.mem
          /\ Cardinality(Range(made.computed)) = Len(made.computed)

\* The data written for a static variable is what the rules of C say.
StaticsAreC ==
    Rule.met \cap (KnownFaults \ {"range-copy"}) = {} => SizeIsC(TRUE) /\ gvar_initializer = Rule.mem
=============================================================================
