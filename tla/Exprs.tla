-------------------------------- MODULE Exprs --------------------------------
(***************************************************************************)
(* The typed tree the parser builds of an expression, and its value when   *)
(* it is constant (parse.c, type.c).                                       *)
(*                                                                         *)
(* A node has a kind k, a type ty and, by its kind, operands l and r, a    *)
(* condition c, a value v, an object x or an operator op.  A "deref" is an *)
(* object reached through a pointer, a "var" one whose address the         *)
(* assembler knows.  Casts are made with optimization on (opt) or off; the *)
(* parser types a node when it needs the type, here when it is built.      *)
(***************************************************************************)
EXTENDS CInt, Bitwise

Num(t, v) == [k |-> "num", ty |-> t, v |-> v]
IsObject(n) == n.k \in {"var", "deref"}
Failed == [ok |-> FALSE, v |-> 0]
Is(v) == [ok |-> TRUE, v |-> v]

\* What could go wrong: every value cut to 8 bytes.
eval_sign_extend_Wide(t, v) == I64(v)
eval_sign_extend(t, v) ==
    LET bits == Bits[size(t)] IN IF is_unsigned(t) /\ size(t) < 8 THEN Low(v, bits) ELSE Signed(v, bits)

\* A floating operation; a quotient that is no integer, and a NaN made by dividing, are not modelled.
FloatOp(op, x, y) ==
    IF NaN \in {x, y} THEN NaN
    ELSE CASE op = "add" -> x + y [] op = "sub" -> x - y [] op = "mul" -> x * y
           [] OTHER -> IF y = 0 THEN NaN ELSE Quotient(x, y)
Halve(v, n) == v \div 2^n

\* A count of bits as the machine that compiles takes it.
HostCount(n) == n % Bits[8]

\* A comparison compares unsigned words, signed words or floating values by the type of its left side.
eval_cmp(n, x, y) ==
    Truth(IF is_flonum(n.l.ty) \/ ~is_unsigned(n.l.ty) THEN Compare(n.k, x, y)
          ELSE Compare(n.k, U64(x), U64(y)))

\* What an operator makes of the values of its operands, 64 bits wide.
EvalOp(n, x, y) ==
    LET div == n.k = "div"
        ux == IF is_unsigned(n.ty) THEN U64(x) ELSE x
        uy == IF is_unsigned(n.ty) THEN U64(y) ELSE y
    IN
    CASE n.k \in {"add", "sub", "mul", "shl"} ->
            eval_sign_extend(n.ty, CASE n.k = "add" -> x + y [] n.k = "sub" -> x - y
                                     [] n.k = "mul" -> x * y [] OTHER -> x * 2^HostCount(y))
      [] n.k \in {"div", "mod"} ->
            IF ~is_unsigned(n.ty) /\ y = -1 /\ x \in {-(2^(Bits[8] - 1))} \cup
                                                    (IF div THEN {-(2^(Bits[4] - 1))} ELSE {})
            THEN IF div THEN x ELSE 0
            ELSE I64(IF div THEN Quotient(ux, uy) ELSE ux - uy * Quotient(ux, uy))
      [] n.k \in Bitwises ->
            I64(CASE n.k = "bitand" -> U64(x) & U64(y) [] n.k = "bitor" -> U64(x) | U64(y)
                  [] OTHER -> U64(x) ^^ U64(y))
      [] n.k = "shr" -> I64(Halve(IF size(n.ty) = 4 THEN U32(x) ELSE U64(x), HostCount(y)))
      [] n.k = "sar" -> Halve(IF size(n.ty) = 4 THEN I32(x) ELSE x, HostCount(y))
      [] n.k \in Compares -> eval_cmp(n, x, y)

\* The value of a constant expression (eval2, eval_double); what follows an error is not evaluated.
RECURSIVE Eval(_)
Eval(n) ==
    CASE n.k = "num" -> Is(n.v)
      [] n.k = "cond" ->
            LET c == Eval(n.c) IN
            IF ~c.ok THEN Failed ELSE Eval(IF c.v # 0 THEN n.l ELSE n.r)
      [] n.k \in Logicals ->
            LET l == Eval(n.l)
                r == Eval(n.r)
            IN  IF ~l.ok THEN Failed
                ELSE IF (l.v # 0) = (n.k = "logor") THEN Is(Truth(l.v # 0))
                ELSE IF r.ok THEN Is(Truth(r.v # 0)) ELSE Failed
      [] n.k = "comma" -> IF Eval(n.l).ok THEN Eval(n.r) ELSE Failed
      [] n.k \in {"pos", "neg", "not", "bitnot"} ->
            LET l == Eval(n.l) IN
            IF ~l.ok THEN Failed
            ELSE Is(CASE n.k = "pos" -> l.v
                      [] n.k = "not" -> Truth(l.v = 0)
                      [] n.k = "bitnot" -> eval_sign_extend(n.ty, -1 - l.v)
                      [] OTHER -> IF is_flonum(n.ty) THEN FloatOp("sub", 0, l.v)
                                  ELSE eval_sign_extend(n.ty, -l.v))
      [] n.k = "cast" ->
            LET l == Eval(n.l) IN
            IF ~l.ok THEN Failed
            ELSE Is(IF n.ty = "bool" THEN Truth(l.v # 0)
                    ELSE IF is_flonum(n.ty)
                    THEN IF size(n.l.ty) = 8 /\ is_unsigned(n.l.ty) THEN U64(l.v) ELSE l.v
                    ELSE eval_sign_extend(n.ty, l.v))
      [] n.k \in {"add", "sub", "mul", "div", "mod"} \cup Bitwises \cup Shifts \cup Compares ->
            LET l == Eval(n.l)
                r == Eval(n.r)
            IN  IF ~(l.ok /\ r.ok) \/ (n.k \in {"div", "mod"} /\ r.v = 0) THEN Failed
                ELSE Is(IF is_flonum(n.ty) THEN FloatOp(n.k, l.v, r.v) ELSE EvalOp(n, l.v, r.v))
      [] OTHER -> Failed
is_const_expr(n) == Eval(n).ok

\* A cast to ty of a cast to ty2 of a ty3 may drop the inner one.
is_redundant_cast(e, t) ==
    /\ e.k = "cast"
    /\ LET t2 == e.ty
           t3 == e.l.ty
       IN  /\ {t, t2, t3} \subseteq IntTypes
           /\ \/ t3 = "bool"
              \/ /\ t2 # "bool"
                 /\ IF t = "bool" THEN size(t2) >= size(t3)
                    ELSE \/ size(t) <= size(t2)
                         \/ /\ size(t) > size(t3)
                            /\ \/ size(t2) = size(t3) /\ is_unsigned(t3) = is_unsigned(t2)
                               \/ size(t2) > size(t3) /\ (is_unsigned(t3) \/ ~is_unsigned(t2))

\* A node n, a cast of e to t, which has the value v if it has one.
CastNode(n, v, e, t) ==
    IF is_integer(t) /\ v.ok THEN Num(t, v.v)
    ELSE IF is_redundant_cast(e, t) THEN [e EXCEPT !.ty = t] ELSE n
new_cast(e, t, opt) ==
    LET n == [k |-> "cast", ty |-> t, l |-> e] IN
    IF opt THEN CastNode(n, Eval(n), e, t) ELSE n

cond_cast(e, opt) ==
    IF e.k \in Compares \cup Logicals \cup {"not"} THEN e ELSE new_cast(e, "bool", opt)

\* What could go wrong: long and long long told apart by their size.
int_rank_BySize(t) == size(t)
int_rank(t) == CASE t \in {"i32", "u32"} -> 1 [] t \in {"i64", "u64"} -> 2
                 [] t \in {"ll", "ull"} -> 3 [] OTHER -> 0

int_promotion(e, opt) == IF size(e.ty) < 4 THEN new_cast(e, "i32", opt) ELSE e

get_common_type(l, r) ==
    LET t1 == l.ty
        t2 == r.ty
        high == IF int_rank(t1) > int_rank(t2) THEN t1 ELSE t2
    IN  CASE size(t1) # size(t2) -> IF size(t1) > size(t2) THEN t1 ELSE t2
          [] is_unsigned(t1) = is_unsigned(t2) -> high
          [] int_rank(t1) = int_rank(t2) -> IF is_unsigned(t1) THEN t1 ELSE t2
          [] OTHER -> CASE int_rank(high) = 1 -> "u32" [] int_rank(high) = 2 -> "u64" [] OTHER -> "ull"

cast_if_not(t, e, opt) == IF e.ty # t THEN new_cast(e, t, opt) ELSE e

both_to(t, l, r, opt) == <<cast_if_not(t, l, opt), cast_if_not(t, r, opt)>>
both_to_common(l, r, opt) == both_to(get_common_type(l, r), l, r, opt)
\* The two operands in their common type.
usual_arith_conv(l, r, opt) ==
    IF "f64" \in {l.ty, r.ty}
    THEN both_to("f64", l, r, opt)
    ELSE both_to_common(int_promotion(l, opt), int_promotion(r, opt), opt)

OfLeft(op, l, r) == [k |-> op, ty |-> l.ty, l |-> l, r |-> r]
OfPair(op, c) == [k |-> op, ty |-> IF op \in Compares THEN "i32" ELSE c[1].ty, l |-> c[1], r |-> c[2]]
\* A node of two operands, with its type (add_type).
new_binary(op, l, r, opt) ==
    IF op \in Shifts
    THEN OfLeft(op, int_promotion(l, opt), r)
    ELSE IF op \in Logicals
    THEN [k |-> op, ty |-> "i32", l |-> cond_cast(l, opt), r |-> cond_cast(r, opt)]
    ELSE IF op = "comma" THEN [k |-> op, ty |-> r.ty, l |-> l, r |-> r]
    ELSE OfPair(op, usual_arith_conv(l, r, opt))

\* >> is a shift of unsigned or of signed words by the type its left operand is written with.
ShiftRight(l) == IF is_unsigned(l.ty) THEN "shr" ELSE "sar"
binary(op, l, r, opt) == new_binary(IF op = "shift" THEN ShiftRight(l) ELSE op, l, r, opt)

unary(op, e, opt) ==
    CASE op = "not" -> [k |-> op, ty |-> "i32", l |-> cond_cast(e, opt)]
      [] OTHER -> LET p == IF is_integer(e.ty) THEN int_promotion(e, opt) ELSE e
                  IN  [k |-> op, ty |-> p.ty, l |-> p]

assign_cast(t, e, opt) == IF t = e.ty THEN e ELSE new_cast(e, t, opt)
NewAssign(l, r, opt) == [k |-> "assign", ty |-> l.ty, l |-> l, r |-> assign_cast(l.ty, r, opt)]

\* x op= e keeps e as it is until its code is made.
to_assign(op, l, r) == [k |-> "arith_assign", ty |-> l.ty, op |-> op, l |-> l, r |-> r]
assign(op, l, r, opt) ==
    CASE op = "assign" -> NewAssign(l, r, opt)
      [] op = "shift" -> to_assign(ShiftRight(l), l, r)
      [] OTHER -> to_assign(op, l, r)

\* c ? l : r, and c ?: r, which keeps the value of c in a new object.
conditional(c, l, r, opt) ==
    LET o == usual_arith_conv(l, r, opt)
    IN  [k |-> "cond", ty |-> o[1].ty, c |-> cond_cast(c, opt), l |-> o[1], r |-> o[2]]
OmittedOperand(c, r, tmp, opt) ==
    LET b == cond_cast(c, opt)
        obj == [k |-> "var", ty |-> c.ty, x |-> tmp]
    IN  IF is_const_expr(b)
        THEN [conditional(c, c, r, opt) EXCEPT !.c = Num("bool", Truth(Eval(b).v # 0))]
        ELSE conditional(NewAssign(obj, c, opt), obj, r, opt)

\* x++ and x--: x += n and the old value from the new one, or a node of its own.
new_inc_dec(l, n, opt) ==
    IF opt /\ l.ty # "bool" /\ ~is_flonum(l.ty)
    THEN new_cast(new_binary("add", to_assign("add", l, Num("i32", n)), Num("i32", -n), opt), l.ty, opt)
    ELSE [k |-> "post_incdec", ty |-> l.ty, l |-> l, r |-> Num("i32", n)]
=============================================================================
