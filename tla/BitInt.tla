------------------------------- MODULE BitInt -------------------------------
(***************************************************************************)
(* Expressions of _BitInt types: the buffer a value is computed in, as     *)
(* gen_bitint_arith, gen_cast, the checked arithmetic and the bit-fields   *)
(* of codegen.c and eval_bitint of parse.c use the routines of bitint.c on *)
(* it.  A step is one operation on the buffer and an operand in memory.    *)
(***************************************************************************)
EXTENDS BitIntWords

CONSTANTS Widths,      \* widths of the types tried
          Offsets,     \* places of a bit-field in its first byte
          MaxOps,
          Operands,    \* values tried, as far as they fit the type
          Lasts,       \* those tried again after a first operation
          CheckWidths, \* widths of the other operand and the result of checked arithmetic
          KnownFaults  \* forms left out of the properties (see faults)

VARIABLES bits, uns,       \* type of the expression
          buf,             \* its buffer
          val,             \* its value
          answer, truth,   \* what a test said last, and what it should have
          faults,          \* known faults the expression has met
          ops
vars == <<bits, uns, buf, val, answer, truth, faults, ops>>

Fits(v, b, u) == IF u THEN v \in 0..(2^b - 1) ELSE v \in -(2^(b - 1))..(2^(b - 1) - 1)
Convert(v, b, u) == LET low == v % 2^b IN IF ~u /\ low >= 2^(b - 1) THEN low - 2^b ELSE low
\* A value in memory: what follows the number is all zeros or all ones.
Encode(v, b, pad) ==
    [i \in 0..Top(b) |->
        LET n == IF i < Top(b) THEN W ELSE b - W * i
        IN  ((v \div 2^(W * i)) % 2^n) + pad * (WordSize - 2^n)]
Value(a, b, u) ==
    LET sum[i \in 0..Top(b)] == a[i] * 2^(W * i) + (IF i = 0 THEN 0 ELSE sum[i - 1])
    IN  Convert(sum[Top(b)], b, u)

Become(b, u, a, v) == /\ bits' = b /\ uns' = u /\ buf' = a /\ val' = v
Answered(said, is) == answer' = said /\ truth' = is
Quiet == Answered(TRUE, TRUE)
Counted(met) == ops' = ops + 1 /\ faults' = faults \cup met

Init ==
    /\ bits \in Widths /\ uns \in BOOLEAN
    /\ val \in {v \in Operands : Fits(v, bits, uns)}
    /\ \E pad \in {0, 1} : buf = Encode(val, bits, pad)
    /\ answer = TRUE /\ truth = TRUE
    /\ faults = {} /\ ops = 0

\* C leaves a signed result that does not fit undefined.
Defined(v) == uns \/ Fits(v, bits, FALSE)
Quotient(x, y) == LET q == (IF x < 0 THEN -x ELSE x) \div (IF y < 0 THEN -y ELSE y)
                  IN IF (x < 0) = (y < 0) THEN q ELSE -q
BitByBit(op, x, y) ==
    LET u == Encode(x, bits, 0)
        v == Encode(y, bits, 0)
    IN  Convert(Value(bitop(op, bits, u, v), bits, TRUE), bits, uns)
Result(op, x, y) ==
    CASE op = "add" -> x + y [] op = "sub" -> x - y [] op = "mul" -> x * y
      [] op = "div" -> Quotient(x, y) [] op = "mod" -> x - y * Quotient(x, y)
      [] OTHER -> BitByBit(op, x, y)
\* The shift of the divisor that eval_bitint_shl does not do.
NarrowDivisor(v) ==
    LET fsb == first_set(bits, Encode(IF v < 0 THEN -v ELSE v, bits, 0))
    IN  (H - (fsb % H)) % H >= bits
Call(op, b, u, l, r) ==
    CASE op = "add" -> add(b, l, r) [] op = "sub" -> sub(b, l, r) [] op = "mul" -> mul(b, l, r)
      [] op \in {"div", "mod"} -> div(b, l, r, u, op = "div")
      [] OTHER -> bitop(op, b, l, r)

Of(b, u) == {v \in (IF ops = 0 THEN Operands ELSE Lasts) : Fits(v, b, u)}
Pads == IF ops = 0 THEN {0, 1} ELSE {1}
Binary(op) == \E v \in Of(bits, uns), pad \in Pads, left \in BOOLEAN :
    LET x == IF left THEN val ELSE v
        y == IF left THEN v ELSE val
        other == Encode(v, bits, pad)
    IN  /\ op \in {"div", "mod"} => y # 0
        /\ op = "mod" => Defined(Quotient(x, y))
        /\ Defined(Result(op, x, y))
        /\ Become(bits, uns, IF left THEN Call(op, bits, uns, buf, other) ELSE Call(op, bits, uns, other, buf),
                  Convert(Result(op, x, y), bits, uns))
        /\ Quiet
        /\ Counted(IF op \in {"div", "mod"} /\ NarrowDivisor(y) THEN {"narrow-bitint-div"} ELSE {})

Unary(op) ==
    /\ op = "neg" => Defined(-val)
    /\ Become(bits, uns, IF op = "neg" THEN neg(bits, buf) ELSE bitnot(bits, buf),
              Convert(IF op = "neg" THEN -val ELSE -1 - val, bits, uns))
    /\ Quiet /\ Counted({})

Shift == \E n \in (IF ops = 0 THEN 0..(bits - 1) ELSE {bits - 1}), left \in BOOLEAN :
    /\ left => Defined(val * 2^n)
    /\ Become(bits, uns, IF left THEN shl(bits, buf, n) ELSE shr(bits, buf, n, uns),
              Convert(IF left THEN val * 2^n ELSE val \div 2^n, bits, uns))
    /\ Quiet /\ Counted({})

\* A wider type adds words to the buffer, a narrower one leaves its bits as padding.
Cast == \E b \in Widths, u \in BOOLEAN, pad \in Pads :
    LET room == [i \in 0..Top(b) |-> IF i \in DOMAIN buf THEN buf[i] ELSE pad * (WordSize - 1)]
    IN  /\ Become(b, u, IF b > bits THEN sign_ext(bits, room, b, uns) ELSE room, Convert(val, b, u))
        /\ Quiet /\ Counted({})

\* To an integer type of a word: the sign is brought down from the number's top bit.
CastToInteger == \E u \in BOOLEAN :
    LET n == W - bits
        word == IF n <= 0 THEN buf[0]
                ELSE IF uns THEN Srl(Sll(buf[0], n), n) ELSE Sra(Sll(buf[0], n), n)
    IN  /\ Become(W, u, [i \in {0} |-> word], Convert(val, W, u))
        /\ Quiet /\ Counted({})

Test == /\ Answered(to_bool(bits, buf), val # 0)
        /\ Become(bits, uns, ClearTop(bits, buf), val) /\ Counted({})

Ordering == \E v \in Of(bits, uns) \cup {val}, pad \in Pads :
    LET c == bitint_cmp(bits, buf, Encode(v, bits, pad), uns)
    IN  /\ Answered(<<c = 0, c = 1, c # 2, c = 2, c # 1>>, <<val = v, val < v, val <= v, val > v, val >= v>>)
        /\ UNCHANGED <<bits, uns, buf, val>> /\ Counted({})

\* Checked arithmetic is done in a type with room for any result.
ovf_headroom(op, b, u) == (IF op = "mul" THEN 2 * b ELSE b + 1) + Bit(u)
WordsFor(b) == W * Cnt(b)
gen_cast_to_bitint(wide, a, b, u) ==
    LET room == [i \in 0..Top(wide) |-> IF i \in DOMAIN a THEN a[i] ELSE 0]
    IN  IF wide > b THEN sign_ext(b, room, wide, u) ELSE room
Checked(op) == \E b2 \in CheckWidths, u2 \in BOOLEAN, rb \in CheckWidths, ru \in BOOLEAN :
    \E v \in Of(b2, u2) :
    LET exact == Result(op, val, v)
        chk_bits == rb + Bit(ru)
        need == {chk_bits, WordsFor(rb), ovf_headroom(op, bits, uns), ovf_headroom(op, b2, u2)}
        wide == WordsFor(CHOOSE n \in need : \A k \in need : k <= n)
        res == Call(op, wide, FALSE, gen_cast_to_bitint(wide, buf, bits, uns),
                      gen_cast_to_bitint(wide, Encode(v, b2, 1), b2, u2))
    IN  /\ ops = 0
        /\ Become(rb, ru, [i \in 0..Top(rb) |-> res[i]], Convert(exact, rb, ru))
        /\ Answered(overflow(wide, res, chk_bits, ru), ~Fits(exact, rb, ru))
        /\ Counted({})

\* The value is stored in a bit-field of its type among other bits, and read again.
\* A field that only packing lets cross the words of its type is left out.
BitField == \E width \in 1..bits, ofs \in Offsets, old \in {0, 1} :
    LET full == WordsFor(bits)
        around == [i \in 0..Top(bits) |-> old * (WordSize - 1)]
        dst == bitfield_save(bits, buf, around, width, ofs)
        kept == bitfield_save(bits, Encode(0, bits, 0), dst, width, ofs)
        stored == (2^width - 1) * 2^ofs
    IN  /\ ops = 0 /\ width + ofs <= full
        /\ Become(bits, uns, bitfield_load(bits, dst, width, ofs, uns), Convert(Convert(val, width, uns), bits, uns))
        /\ Answered(Value(kept, full, TRUE), old * (2^full - 1 - stored))
        /\ Counted(IF width + ofs > bits THEN {"bitint-field-load"} ELSE {})

\* An expression that has met a known fault is not continued.
Next ==
    /\ ops < MaxOps /\ faults \cap KnownFaults = {}
    /\ \/ \E op \in {"add", "sub", "mul", "div", "mod", "bitand", "bitor", "bitxor"} : Binary(op)
       \/ \E op \in {"neg", "bitnot"} : Unary(op)
       \/ Shift \/ Cast \/ CastToInteger \/ Test \/ Ordering \/ BitField
       \/ \E op \in {"add", "sub", "mul"} : Checked(op)
Spec == Init /\ [][Next]_vars

-----------------------------------------------------------------------------
\* Whatever operations made it, and whatever padding they found and left, the
\* buffer holds the value that C gives the expression; a test, a comparison and
\* the overflow of checked arithmetic are answered as the values ask, and a
\* bit-field that is written leaves its neighbours alone.
BitIntIsC == faults \cap KnownFaults = {} => Value(buf, bits, uns) = val /\ answer = truth
=============================================================================
