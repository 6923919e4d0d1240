------------------------------ MODULE ExprCode ------------------------------
(***************************************************************************)
(* The code made for an expression, run as it is made (codegen.c).         *)
(*                                                                         *)
(* A generator maps the machine before its code to the machine after it:   *)
(* rax (ax, a word of 8 bytes), xmm0 (xm) and the memory.  An object       *)
(* occupies the low bytes of mem[x] and its neighbours the rest, so that a *)
(* load or store of the wrong size shows.  What is pushed is kept aside in *)
(* a LET: TmpStack is about where.  A jump is a choice between the         *)
(* machines of the two paths.                                              *)
(***************************************************************************)
EXTENDS Exprs

SetAx(s, v) == [s EXCEPT !.ax = U64(v)]
SetXm(s, v) == [s EXCEPT !.xm = v]
\* A word written to a register of 4 bytes clears the upper half; one of 1 byte leaves the rest.
SetReg(s, sz, v) == SetAx(s, IF sz = 8 THEN v ELSE U32(v))
XorAl(s) == SetAx(s, s.ax ^^ 1)
Reg(s, sz) == Signed(s.ax, Bits[sz])
URegister(s, sz) == Low(s.ax, Bits[sz])
regop(t) == IF size(t) = 8 THEN 8 ELSE 4

\* Bytes of an object, extended to a register by the sign of t.
MemLow(s, x, sz) == Low(s.mem[x], Bits[sz])
Extended(t, word) == IF is_unsigned(t) THEN Low(word, Bits[size(t)]) ELSE Signed(word, Bits[size(t)])
load_extend_int(t, word) == IF size(t) = 8 THEN U64(word) ELSE U32(Extended(t, word))
load_extend_int64(t, word) == U64(Signed(word, Bits[size(t)]))

\* f64 objects hold their value, others a word.
load3(t, x, s) == IF is_flonum(t) THEN SetXm(s, s.mem[x]) ELSE SetAx(s, load_extend_int(t, s.mem[x]))
StoreLow(s, x, sz, v) ==
    [s EXCEPT !.mem[x] = @ - Low(@, Bits[sz]) + Low(v, Bits[sz])]
store3(t, x, s) == IF is_flonum(t) THEN [s EXCEPT !.mem[x] = s.xm] ELSE StoreLow(s, x, size(t), s.ax)

load_val(t, v, s) ==
    CASE v = U32(v) -> SetAx(s, v)
      [] v # U32(v) /\ v = I32(v) -> SetReg(s, regop(t), v)
      [] OTHER -> SetAx(s, v)

in_imm_range(v) == v = I32(v)
limit_imm(v, sz) == IF sz = 8 THEN v ELSE Signed(v, Bits[sz])
is_pow_of_two(v) == v = 0 \/ \E i \in 0..(Bits[8] - 1) : U64(v) = 2^i
trailing_zero(v) == CHOOSE i \in 0..Bits[8] : i = Bits[8] \/ U64(v) = 2^i

skip_cast(n) == n.k = "cast" /\ size(n.ty) = size(n.l.ty) /\ n.ty # "bool"
                    /\ is_integer(n.ty) /\ is_integer(n.l.ty)
RECURSIVE skip_gp_cast(_)
skip_gp_cast(n) == IF skip_cast(n) THEN skip_gp_cast(n.l) ELSE n
is_memop(n) == skip_gp_cast(n).k = "var"
MemopOf(n) == skip_gp_cast(n).x
is_int_to_int_cast(n) == n.k = "cast" /\ is_integer(n.ty) /\ is_integer(n.l.ty)

\* An instruction on words of sz bytes; a count of bits is a byte.
Alu(op, sz, x, y) ==
    LET bits == Bits[sz]
        n == Low(y, Bits[1]) % bits
    IN
    CASE op = "add" -> x + y [] op = "sub" -> x - y [] op = "mul" -> x * y
      [] op = "bitand" -> Low(x, bits) & Low(y, bits)
      [] op = "bitor" -> Low(x, bits) | Low(y, bits)
      [] op = "bitxor" -> Low(x, bits) ^^ Low(y, bits)
      [] op = "shl" -> x * 2^n
      [] op = "shr" -> Halve(Low(x, bits), n)
      [] op = "sar" -> Halve(Signed(x, bits), n)
      [] op = "div" -> Quotient(x, y) [] op = "mod" -> x - y * Quotient(x, y)
AluAx(s, op, sz, y) == SetReg(s, sz, Alu(op, sz, s.ax, y))

\* cmp and a condition code: the words at sz bytes, read by sign.
Holds(kind, uns, sz, x, y) ==
    IF uns THEN Compare(kind, Low(x, Bits[sz]), Low(y, Bits[sz]))
    ELSE Compare(kind, Signed(x, Bits[sz]), Signed(y, Bits[sz]))
Swapped(kind) == CASE kind = "lt" -> "gt" [] kind = "le" -> "ge" [] kind = "gt" -> "lt"
                   [] kind = "ge" -> "le" [] OTHER -> kind
flip_cmp(kind, flip) ==
    IF ~flip THEN kind
    ELSE CASE kind = "eq" -> "ne" [] kind = "ne" -> "eq" [] kind = "lt" -> "ge"
           [] kind = "le" -> "gt" [] kind = "gt" -> "le" [] OTHER -> "lt"

\* Arithmetic on rax by a constant.  Adding nothing, and the like, leaves the upper half alone.
imm_arith(kind, sz, v, s) ==
    CASE v = 0 /\ kind \in {"add", "sub", "bitor", "bitxor"} \cup Shifts -> s
      [] v = 0 /\ kind \in {"bitand", "mul"} -> SetAx(s, 0)
      [] v = 1 /\ kind = "mul" -> s
      [] v = -1 /\ kind = "bitand" -> s
      [] v = -1 /\ kind = "mul" -> SetReg(s, sz, -s.ax)
      [] v = -1 /\ kind = "bitor" -> SetReg(s, sz, -1)
      [] v = -1 /\ kind = "bitxor" -> SetReg(s, sz, -1 - s.ax)
      [] kind = "mul" /\ v \notin {0, 1, -1} /\ \E i \in 1..(Bits[sz] - 1) : I64(2^i) = v ->
            SetReg(s, sz, s.ax * 2^trailing_zero(v))
      [] OTHER -> AluAx(s, kind, sz, v)

\* Division by 1, by -1 and by powers of two; rounding is towards zero.
divmod_opt_applies(kind, t, v) ==
    \/ v \in {1, -1}
    \/ /\ is_pow_of_two(v)
       /\ IF kind = "div" THEN is_unsigned(t) \/ (v > 1 /\ v <= 2^(Bits[4] - 2))
          ELSE v # 0 /\ (is_unsigned(t) \/ (v > 1 /\ v <= 2^(Bits[4] - 2)))
divmod_opt(kind, t, v, s) ==
    LET sz == size(t)
        bits == Bits[sz]
        x == Reg(s, sz)
        shft == trailing_zero(v)
        bias == Halve(Low(IF x < 0 THEN -1 ELSE 0, bits), bits - shft)
    IN
    CASE v = 1 -> IF kind = "mod" THEN SetAx(s, 0) ELSE s
      [] v = -1 /\ ~is_unsigned(t) -> IF kind = "div" THEN SetReg(s, sz, -s.ax) ELSE SetAx(s, 0)
      [] v = -1 /\ is_unsigned(t) ->
            IF kind = "div" THEN SetAx(s, Truth(x = -1))
            ELSE SetReg(s, sz, IF x = -1 THEN 0 ELSE s.ax)
      [] v \notin {1, -1} /\ kind = "div" ->
            IF is_unsigned(t) THEN SetReg(s, sz, Halve(URegister(s, sz), shft))
            ELSE SetReg(s, sz, Halve(IF x < 0 THEN Signed(x + v - 1, bits) ELSE x, shft))
      [] v \notin {1, -1} /\ kind = "mod" ->
            IF is_unsigned(t)
            THEN IF U64(v - 1) <= 2^(Bits[4] - 1) - 1 THEN AluAx(s, "bitand", 4, v - 1)
                 ELSE AluAx(s, "bitand", IF U64(v - 1) = 2^Bits[4] - 1 THEN 4 ELSE sz, v - 1)
            ELSE SetReg(s, sz, Alu("bitand", sz, x + bias, v - 1) - bias)

\* The conversions of cast_table, after the operand; the type bool stands with the widest one.
Indefinite(sz, v) == IF v # NaN /\ v = Signed(v, Bits[sz]) THEN v ELSE -(2^(Bits[sz] - 1))
ExtendEax(t, s) == SetAx(s, U32(Extended(t, s.ax)))
cast_table(f, t, s) ==
    LET tsz == IF t = "bool" THEN 8 ELSE size(t)
        fsz == IF f = "bool" THEN 8 ELSE size(f)
        top == 2^(Bits[8] - 1)
    IN
    CASE f = t -> s
      [] is_flonum(f) /\ f # t ->
            CASE tsz < 4 -> ExtendEax(t, SetReg(s, 4, Indefinite(4, s.xm)))
              [] t = "i32" -> SetReg(s, 4, Indefinite(4, s.xm))
              [] tsz = 8 /\ is_unsigned(t) ->
                    IF s.xm < top THEN SetAx(s, Indefinite(8, s.xm))
                    ELSE SetAx(s, top | U64(Indefinite(8, IF s.xm = NaN THEN NaN ELSE s.xm - top)))
              [] OTHER -> SetAx(s, Indefinite(8, s.xm))
      [] is_flonum(t) /\ f # t ->
            SetXm(s, IF fsz = 8 THEN IF is_unsigned(f) THEN s.ax ELSE I64(s.ax)
                     ELSE IF f = "u32" THEN URegister(s, 4) ELSE Reg(s, 4))
      [] is_integer(f) /\ is_integer(t) /\ f # t ->
            CASE tsz = 4 -> s
              [] tsz = 8 -> IF fsz = 8 THEN s
                            ELSE SetAx(s, IF f = "u32" THEN URegister(s, 4) ELSE Reg(s, 4))
              [] tsz < 4 -> IF fsz < tsz /\ (is_unsigned(f) \/ ~is_unsigned(t)) THEN s
                            ELSE IF fsz = tsz /\ is_unsigned(f) = is_unsigned(t) THEN s
                            ELSE ExtendEax(t, s)
=============================================================================
