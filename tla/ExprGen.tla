------------------------------ MODULE ExprGen ------------------------------
(***************************************************************************)
(* Generators of code for the nodes of an expression: the plain ones, and  *)
(* with optimization the shapes they first look for (codegen.c).  A        *)
(* generator that looks for a shape answers whether it did the work.       *)
(***************************************************************************)
EXTENDS ExprCode

NotDone(s) == [done |-> FALSE, s |-> s]
Done(s) == [done |-> TRUE, s |-> s]
First(a, b) == IF a.done THEN a ELSE b

RECURSIVE Gen(_, _, _), GenPlain(_, _, _), GenVoid(_, _, _), GenCond(_, _, _, _)

\* x = value of n already in rax or xmm0.
NullExpr(t) == [k |-> "null", ty |-> t]
gen_expr_null_lhs(op, t, r, s, opt) ==
    Gen(new_cast(new_binary(op, NullExpr(t), r, opt), t, opt), s, opt)

gen_cmp_zero(n, kind, s, opt) == Gen(new_binary(kind, n, Num(n.ty, 0), opt), s, opt)
SetCC(s, holds) == SetAx(s, Truth(holds))
SetCCOf(c) == SetCC(c.s, c.holds)

\* The operands of a comparison of integers: a constant on the right, an object on the left.
Operands2(kind, m, x, y) == [done |-> TRUE, kind |-> kind, s |-> m, x |-> x, y |-> y]
CmpConst(kind, l, v, s, g) ==
    Operands2(kind, g, IF is_memop(l) THEN MemLow(s, MemopOf(l), regop(l.ty)) ELSE g.ax,
              limit_imm(v, size(l.ty)))
CmpMem(kind, l, g) == Operands2(kind, g, MemLow(g, MemopOf(l), regop(l.ty)), g.ax)
gen_cmp_opt_gp2(kind, l, r, s, opt) ==
    IF is_const_expr(r) THEN CmpConst(kind, l, Eval(r).v, s, IF is_memop(l) THEN s ELSE Gen(l, s, opt))
    ELSE IF is_memop(l) THEN CmpMem(kind, l, Gen(r, s, opt)) ELSE NotDone(s)
CmpPushed(kind, x, g) == Operands2(kind, g, x, g.ax)
gen_cmp_gp(kind, r, m, opt) == CmpPushed(kind, m.ax, Gen(r, m, opt))

\* Compare, the kind of comparison reversed with the operands.
Holding(c, t) == [s |-> c.s, holds |-> Holds(c.kind, is_unsigned(t), regop(t), c.x, c.y)]
CompareGp(n, kind, s, opt) ==
    Holding(First(IF opt THEN First(gen_cmp_opt_gp2(kind, n.l, n.r, s, opt),
                                    gen_cmp_opt_gp2(Swapped(kind), n.r, n.l, s, opt))
                  ELSE NotDone(s),
                  gen_cmp_gp(kind, n.r, Gen(n.l, s, opt), opt)), n.l.ty)

\* Whether the jump of a condition is taken, and the machine then.
Taken(c) == [taken |-> c.holds, s |-> c.s]
LowBit(g) == [taken |-> Low(g.ax, Bits[1]) # 0, s |-> g]

\* The boolean expression under negations and casts, and whether it is turned round.
RECURSIVE bool_expr_opt(_, _, _)
bool_expr_opt(n, has_not, found) ==
    LET here == IF n.ty = "bool" THEN [n |-> n, flip |-> has_not] ELSE found IN
    CASE n.k = "not" -> bool_expr_opt(n.l, ~has_not, found)
      [] n.k \in Compares \cup Logicals -> [n |-> n, flip |-> has_not]
      [] n.k = "cast" /\ is_integer(n.ty) -> bool_expr_opt(n.l, has_not, here)
      [] OTHER -> here
AsItIs(n) == [n |-> n, flip |-> FALSE]

\* The right side of && or || where the left one, a machine and whether its jump is taken, leaves it.
ElseRight(l, n, opt) == IF l.taken THEN l ELSE GenCond(n.r, n.k = "logor", l.s, opt)
Jumped(c, on) == [c EXCEPT !.taken = c.taken = on]
CondOf(n, v, want, s, opt) ==
    CASE opt /\ v.ok -> [taken |-> v.v = Truth(want), s |-> s]
      [] opt /\ ~v.ok /\ n.k \in Compares /\ is_integer(n.l.ty) ->
            Jumped(Taken(CompareGp(n, n.k, s, opt)), want)
      [] opt /\ ~v.ok /\ n.k \in Logicals ->
            Jumped(ElseRight(GenCond(n.l, n.k = "logor", s, opt), n, opt), (n.k = "logor") = want)
      [] opt /\ ~v.ok /\ n.k = "cast" /\ n.ty = "bool" ->
            GenCond(new_binary("ne", n.l, Num(n.l.ty, 0), opt), want, s, opt)
      [] OTHER -> Jumped(LowBit(Gen(n, s, opt)), want)
CondAs(b, jump, s, opt) == CondOf(b.n, Eval(b.n), jump # b.flip, s, opt)
GenCond(n, jump, s, opt) ==
    CondAs(IF opt THEN bool_expr_opt(n, FALSE, AsItIs(n)) ELSE AsItIs(n), jump, s, opt)

\* The value of && or ||: an exit by a jump means the one, falling through the other.
Exit(c, short, flip) == SetAx(c.s, Truth(c.taken = (short # flip)))
gen_logical(n, flip, s, opt) ==
    Exit(ElseRight(GenCond(n.l, n.k = "logor", s, opt), n, opt), n.k = "logor", flip)

\* ! of a comparison turns it round, of another boolean the low bit.
gen_bool_opt(n, s, opt) ==
    LET b == bool_expr_opt(n, FALSE, AsItIs(n)) IN
    IF b.n = n THEN NotDone(s)
    ELSE Done(CASE b.n.k \in Compares -> Gen([b.n EXCEPT !.k = flip_cmp(b.n.k, b.flip)], s, opt)
                [] b.n.k \in Logicals -> gen_logical(b.n, b.flip, s, opt)
                [] b.n.k = "cast" -> gen_cmp_zero(b.n.l, IF b.flip THEN "eq" ELSE "ne", s, opt)
                [] OTHER -> IF b.flip THEN XorAl(Gen(b.n, s, opt)) ELSE Gen(b.n, s, opt))

\* l op r with r a constant, an object, an object cast to the size or to a smaller one, or one extended.
gen_arith_opt_gp2(kind, sz, l, r, pass, s, opt) ==
    LET g == Gen(l, s, opt)
        cast == is_int_to_int_cast(r) /\ is_memop(r.l)
        t == r.l.ty
        word == g.mem[MemopOf(r.l)]
    IN
    CASE pass = 0 /\ is_const_expr(r) -> Done(imm_arith(kind, sz, limit_imm(Eval(r).v, sz), g))
      [] pass = 1 /\ is_memop(r) -> Done(AluAx(g, kind, sz, MemLow(g, MemopOf(r), sz)))
      [] pass = 2 /\ cast /\ sz <= size(t) -> Done(AluAx(g, kind, sz, Low(word, Bits[sz])))
      [] pass = 3 /\ cast /\ sz > size(t) ->
            Done(AluAx(g, kind, sz, IF ~is_unsigned(t) /\ sz = 8 THEN load_extend_int64(t, word)
                                    ELSE load_extend_int(t, word)))
      [] OTHER -> NotDone(s)
Passes(kind, sz, l, r, s, opt) ==
    LET at(p) == IF kind = "sub" THEN gen_arith_opt_gp2(kind, sz, l, r, p, s, opt)
                 ELSE First(gen_arith_opt_gp2(kind, sz, l, r, p, s, opt),
                            gen_arith_opt_gp2(kind, sz, r, l, p, s, opt))
    IN  First(at(0), First(at(1), First(at(2), at(3))))
gen_arith_opt_gp(n, sz, s, opt) ==
    IF n.k \in {"add", "mul", "sub"} \cup Bitwises THEN Passes(n.k, sz, n.l, n.r, s, opt) ELSE NotDone(s)

gen_gp_opt(n, s, opt) ==
    LET v == Eval(n.r)
        g == Gen(n.l, s, opt)
    IN
    CASE n.k \in Shifts ->
            CASE v.ok -> Done(imm_arith(n.k, size(n.ty), v.v, g))
              [] ~v.ok /\ is_memop(n.r) ->
                    Done(AluAx(g, n.k, size(n.ty), MemLow(g, MemopOf(n.r), 1)))
              [] OTHER -> NotDone(s)
      [] n.k \in {"div", "mod"} ->
            IF v.ok /\ divmod_opt_applies(n.k, n.ty, v.v) THEN Done(divmod_opt(n.k, n.ty, v.v, g))
            ELSE NotDone(s)
      [] n.k \in Compares ->
            IF is_integer(n.l.ty) /\ \E o \in {n.l, n.r} : is_const_expr(o) \/ is_memop(o)
            THEN Done(SetCCOf(CompareGp(n, n.k, s, opt))) ELSE NotDone(s)
      [] OTHER -> gen_arith_opt_gp(n, size(n.ty), s, opt)

gen_arith_opt_fp2(kind, l, r, pass, s, opt) ==
    LET g == Gen(l, s, opt) IN
    CASE pass = 0 /\ is_const_expr(r) -> Done(SetXm(SetAx(g, -1), FloatOp(kind, g.xm, Eval(r).v)))
      [] pass = 1 /\ is_memop(r) -> Done(SetXm(g, FloatOp(kind, g.xm, g.mem[MemopOf(r)])))
      [] OTHER -> NotDone(s)
gen_arith_opt_fp(n, s, opt) ==
    LET at(p) == IF n.k \in {"add", "mul"}
                 THEN First(gen_arith_opt_fp2(n.k, n.l, n.r, p, s, opt),
                            gen_arith_opt_fp2(n.k, n.r, n.l, p, s, opt))
                 ELSE gen_arith_opt_fp2(n.k, n.l, n.r, p, s, opt)
    IN  IF n.k \in {"add", "sub", "mul", "div"} THEN First(at(0), at(1)) ELSE NotDone(s)

\* A cast of an object is a load that extends.
gen_load_opt_gp(n, s) ==
    LET f == n.l.ty
        word == s.mem[MemopOf(n.l)]
    IN  IF ~(is_int_to_int_cast(n) /\ is_memop(n.l)) THEN NotDone(s)
        ELSE CASE size(n.ty) > size(f) /\ ~is_unsigned(f) /\ size(n.ty) = 8 ->
                    Done(SetAx(s, load_extend_int64(f, word)))
               [] size(n.ty) > size(f) /\ (is_unsigned(f) \/ size(n.ty) < 8)
                    /\ ~(size(n.ty) = 2 /\ is_unsigned(n.ty) /\ ~is_unsigned(f)) ->
                    Done(SetAx(s, load_extend_int(f, word)))
               [] size(n.ty) <= size(f) /\ n.ty # "bool" ->
                    Done(SetAx(s, load_extend_int(n.ty, word)))
               [] OTHER -> NotDone(s)

TwoWords == {"add", "sub", "mul", "div", "mod"} \cup Bitwises \cup Shifts \cup Compares
GenConst(n, v, s) == IF is_flonum(n.ty) THEN SetXm(SetAx(s, -1), v) ELSE load_val(n.ty, v, s)
GenChosen(n, c, s, opt) == IF c.ok THEN Done(Gen(IF c.v # 0 THEN n.l ELSE n.r, s, opt)) ELSE NotDone(s)
gen_other_opt(n, s, opt) ==
    IF is_int_to_int_cast(n) /\ size(n.ty) = 4 /\ size(n.l.ty) = 8
    THEN gen_arith_opt_gp(n.l, 4, s, opt)
    ELSE IF is_flonum(n.ty) THEN gen_arith_opt_fp(n, s, opt)
    ELSE IF n.k = "cond" THEN GenChosen(n, Eval(n.c), s, opt)
    ELSE IF n.k = "deref" THEN Done(load3(n.ty, n.x, s))
    ELSE NotDone(s)
gen_word_opt(n, s, opt) ==
    IF n.k \in TwoWords /\ is_integer(n.ty) THEN gen_gp_opt(n, s, opt) ELSE NotDone(s)
gen_memop_opt(n, s, opt) ==
    IF is_memop(n) THEN Done(load3(n.ty, MemopOf(n), s))
    ELSE IF n.k = "assign" /\ is_memop(n.l) THEN Done(store3(n.l.ty, MemopOf(n.l), Gen(n.r, s, opt)))
    ELSE NotDone(s)
gen_expr_opt(n, v, s, opt) ==
    IF v.ok THEN Done(GenConst(n, v.v, s))
    ELSE First(gen_load_opt_gp(n, s), First(gen_memop_opt(n, s, opt), First(gen_bool_opt(n, s, opt),
         First(gen_word_opt(n, s, opt), gen_other_opt(n, s, opt)))))

\* The left operand is pushed while the right one is made.
gen_gp_arith(n, s, opt) ==
    LET l == Gen(n.l, s, opt)
        r == Gen(n.r, l, opt)
        sz == regop(n.l.ty)
        wide(v) == IF is_unsigned(n.ty) THEN Low(v, Bits[sz]) ELSE Signed(v, Bits[sz])
    IN
    CASE n.k = "neg" -> SetReg(l, sz, -l.ax)
      [] n.k = "bitnot" -> SetAx(l, -1 - l.ax)
      [] n.k \in Shifts -> SetReg(r, size(n.ty), Alu(n.k, size(n.ty), l.ax, r.ax))
      [] n.k \in {"div", "mod"} -> SetReg(r, sz, Alu(n.k, sz, wide(l.ax), wide(r.ax)))
      [] n.k \in Compares -> SetCC(r, Holds(n.k, is_unsigned(n.l.ty), sz, l.ax, r.ax))
      [] OTHER -> SetReg(r, sz, Alu(n.k, sz, l.ax, r.ax))

gen_xmm_arith(n, s, opt) ==
    LET l == Gen(n.l, s, opt)
        r == Gen(n.r, l, opt)
    IN
    CASE n.k = "neg" -> SetXm(l, FloatOp("sub", 0, l.xm))
      [] n.k \in Compares -> SetCC(r, Compare(n.k, l.xm, r.xm))
      [] OTHER -> SetXm(r, FloatOp(n.k, l.xm, r.xm))

\* rax or xmm0 as it was when it was pushed.
PopByTy(t, was, s) == IF is_flonum(t) THEN SetXm(s, was.xm) ELSE SetAx(s, was.ax)

GenBranch(n, c, opt) == Gen(IF c.taken THEN n.r ELSE n.l, c.s, opt)
GenPlain(n, s, opt) ==
    CASE n.k = "null" -> s
      [] n.k = "num" -> IF is_flonum(n.ty) THEN SetXm(s, n.v) ELSE load_val(n.ty, n.v, s)
      [] n.k = "pos" -> Gen(n.l, s, opt)
      [] IsObject(n) -> load3(n.ty, n.x, s)
      [] n.k = "assign" -> store3(n.l.ty, n.l.x, Gen(n.r, s, opt))
      [] n.k = "arith_assign" ->
            store3(n.l.ty, n.l.x, gen_expr_null_lhs(n.op, n.l.ty, n.r, load3(n.l.ty, n.l.x, s), opt))
      [] n.k = "post_incdec" ->
            LET old == load3(n.l.ty, n.l.x, s) IN
            PopByTy(n.l.ty, old,
                    store3(n.l.ty, n.l.x, gen_expr_null_lhs("add", n.l.ty, n.r, old, opt)))
      [] n.k = "comma" -> Gen(n.r, GenVoid(n.l, s, opt), opt)
      [] n.k = "cast" ->
            IF n.ty = "bool" THEN gen_cmp_zero(n.l, "ne", s, opt)
            ELSE cast_table(n.l.ty, n.ty, Gen(n.l, s, opt))
      [] n.k = "cond" -> GenBranch(n, GenCond(n.c, FALSE, s, opt), opt)
      [] n.k = "not" -> XorAl(Gen(n.l, s, opt))
      [] n.k \in Logicals -> gen_logical(n, FALSE, s, opt)
      [] OTHER -> IF is_flonum(n.l.ty) THEN gen_xmm_arith(n, s, opt) ELSE gen_gp_arith(n, s, opt)

Gen(n, s, opt) ==
    First(IF opt /\ n.k # "null" THEN gen_expr_opt(n, Eval(n), s, opt) ELSE NotDone(s),
          Done(GenPlain(n, s, opt))).s

\* What could go wrong: the size of the register is written.
memop_arith_Register(l, r, op, s, opt) ==
    LET g == Gen(r, s, opt) IN
    StoreLow(g, l.x, regop(l.ty), IF op = "mov" THEN g.ax ELSE Alu(op, regop(l.ty), g.mem[l.x], g.ax))

\* An instruction on an object in memory: the constant as it fits, or the low bytes of rax.
memop_arith(l, r, op, s, opt) ==
    LET sz == size(l.ty)
        g == IF is_const_expr(r) THEN s ELSE Gen(r, s, opt)
        y == IF is_const_expr(r) THEN limit_imm(Eval(r).v, sz) ELSE g.ax
    IN  StoreLow(g, l.x, sz, IF op = "mov" THEN y ELSE Alu(op, sz, g.mem[l.x], y))

gen_void_arith_assign(n, s, opt) ==
    LET op == IF n.k = "post_incdec" THEN "add" ELSE n.op
        e == new_binary(op, NullExpr(n.l.ty), n.r, opt)
    IN  IF opt /\ is_integer(n.l.ty) /\ n.l.ty # "bool" /\ is_integer(n.r.ty)
               /\ op \in {"add", "sub"} \cup Bitwises
        THEN memop_arith(n.l, e.r, op, s, opt)
        ELSE Gen([k |-> "arith_assign", ty |-> n.ty, op |-> op, l |-> n.l, r |-> n.r], s, opt)

gen_void_assign(n, s, opt) ==
    LET narrow == is_int_to_int_cast(n.r) /\ size(n.l.ty) <= size(n.r.l.ty) /\ n.l.ty # "bool"
        from == IF is_memop(n.r) THEN n.r ELSE n.r.l
    IN  CASE is_integer(n.l.ty) /\ is_const_expr(n.r) -> memop_arith(n.l, n.r, "mov", s, opt)
          [] ~(is_integer(n.l.ty) /\ is_const_expr(n.r))
                /\ (is_memop(n.r) \/ (narrow /\ is_memop(n.r.l))) ->
                IF is_flonum(n.l.ty) THEN [s EXCEPT !.mem[n.l.x] = s.mem[MemopOf(from)]]
                ELSE StoreLow(s, n.l.x, size(n.l.ty), s.mem[MemopOf(from)])
          [] OTHER -> Gen(n, s, opt)

\* A value nobody uses: what has no effect is not made.
GenVoid(n, s, opt) ==
    CASE n.k \in {"null", "num"} \/ IsObject(n) -> s
      [] n.k \in {"pos", "neg", "not", "bitnot", "cast"} -> GenVoid(n.l, s, opt)
      [] n.k = "assign" -> gen_void_assign(n, s, opt)
      [] n.k \in {"arith_assign", "post_incdec"} -> gen_void_arith_assign(n, s, opt)
      [] n.k \in {"cond"} \cup Logicals -> Gen(n, s, opt)
      [] OTHER -> GenVoid(n.r, GenVoid(n.l, s, opt), opt)
=============================================================================
