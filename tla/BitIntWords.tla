----------------------------- MODULE BitIntWords -----------------------------
(***************************************************************************)
(* Arithmetic on _BitInt (bitint.c), by the routines that the compiler     *)
(* folds constants with and the programs it makes call.  A number of       *)
(* "bits" bits is a buffer of words of W bits (64 in the code), least      *)
(* significant first; multiplication and division see it as halves of H    *)
(* bits.  What the top word holds above the number is padding, which any   *)
(* routine must be ready to find and may leave.                            *)
(***************************************************************************)
EXTENDS Integers, FiniteSets, Bitwise, TLC

CONSTANT H  \* bits of a half word

ASSUME HAssumption == H \in Nat /\ H > 1

W == 2 * H
WordSize == 2^W
HalfSize == 2^H
Cnt(bits) == (bits + W - 1) \div W
Top(bits) == (bits - 1) \div W
wrap(v) == v % WordSize
Sll(word, n) == wrap(word * 2^n)
Srl(word, n) == word \div 2^n
SignedWord(word) == IF word >= WordSize \div 2 THEN word - WordSize ELSE word
Sra(word, n) == wrap(SignedWord(word) \div 2^n)
Bit(b) == IF b THEN 1 ELSE 0

\* A buffer read as words, and as halves.
Halves(a) == [i \in {2 * j : j \in DOMAIN a} \cup {2 * j + 1 : j \in DOMAIN a} |->
                IF i % 2 = 0 THEN a[i \div 2] % HalfSize ELSE a[i \div 2] \div HalfSize]
Words(h) == [i \in {j \div 2 : j \in DOMAIN h} |-> h[2 * i] + HalfSize * h[2 * i + 1]]
Clear(word, bits) == LET shft == W - 1 - ((bits - 1) % W) IN Srl(Sll(word, shft), shft)

first_set(bits, a) ==
    LET clear == [a EXCEPT ![Top(bits)] = Clear(@, bits)]
        set == {i \in 0..(W * (Top(bits) + 1) - 1) : Srl(clear[i \div W], i % W) % 2 = 1}
    IN  IF set = {} THEN 0 ELSE 1 + CHOOSE i \in set : \A j \in set : j <= i
to_bool(bits, a) == \E i \in 0..Top(bits) : [a EXCEPT ![Top(bits)] = Clear(@, bits)][i] # 0

overflow(bits, a, chk_bits, uns) ==
    LET at == Top(chk_bits)
        chk == Sra(a[at], (chk_bits - 1) % W)
    IN  \/ chk # 0 /\ (uns \/ chk # WordSize - 1)
        \/ \E i \in (at + 1)..Top(bits) : a[i] # chk

\* 0, 1 or 2 as l is equal, less or greater; a bit added to the top word orders signed numbers.
RECURSIVE cmp(_, _, _, _, _)
cmp(idx, l, r, lv, rv) ==
    IF lv > rv THEN 2 ELSE IF lv < rv THEN 1
    ELSE IF idx = 0 THEN 0 ELSE cmp(idx - 1, l, r, l[idx - 1], r[idx - 1])
Ordered(word, bits, uns) == wrap(Sll(word, W - 1 - ((bits - 1) % W)) + (IF uns THEN 0 ELSE WordSize \div 2))
bitint_cmp(bits, l, r, uns) ==
    cmp(Top(bits), l, r, Ordered(l[Top(bits)], bits, uns), Ordered(r[Top(bits)], bits, uns))

\* What could go wrong: only the words above the number are filled.
sign_ext_WholeWords(bits, a, bits2, uns) ==
    [i \in (DOMAIN a) \cup 0..Top(bits2) |->
        IF i <= Top(bits) THEN a[i] ELSE IF uns THEN 0 ELSE Sra(a[Top(bits)], W - 1)]

\* bits2 >= bits: the top word of the narrow number, then the words above it, are made its sign.
sign_ext(bits, a, bits2, uns) ==
    LET idx == Top(bits)
        shft == bits % W
        fill == IF shft = 0 THEN a[idx] ELSE Sll(a[idx], W - shft)
        sign == IF uns THEN 0 ELSE Sra(fill, W - 1)
    IN  [i \in (DOMAIN a) \cup 0..Top(bits2) |->
            IF i = idx /\ shft # 0 THEN IF uns THEN Srl(fill, W - shft) ELSE Sra(fill, W - shft)
            ELSE IF i <= idx \/ i > Top(bits2) THEN a[i] ELSE sign]

\* Word by word, with a carry or a borrow.
RECURSIVE neg_from(_, _, _, _)
neg_from(i, cnt, a, borrow) ==
    IF i = cnt THEN a
    ELSE LET tmp == wrap(a[i] + borrow)
             word == wrap(0 - tmp)
         IN  neg_from(i + 1, cnt, [a EXCEPT ![i] = word], Bit(tmp < borrow \/ word > 0))
neg(bits, a) == neg_from(0, Cnt(bits), a, 0)
bitnot(bits, a) == [i \in DOMAIN a |-> IF i < Cnt(bits) THEN wrap(-1 - a[i]) ELSE a[i]]
bitop(op, bits, l, r) ==
    [i \in DOMAIN r |-> IF i >= Cnt(bits) THEN r[i]
                        ELSE CASE op = "bitand" -> l[i] & r[i] [] op = "bitor" -> l[i] | r[i]
                               [] OTHER -> l[i] ^^ r[i]]

RECURSIVE add_from(_, _, _, _, _)
add_from(i, cnt, l, r, carry) ==
    IF i = cnt THEN r
    ELSE LET tmp == wrap(r[i] + carry)
             word == wrap(l[i] + tmp)
         IN  add_from(i + 1, cnt, l, [r EXCEPT ![i] = word], Bit(tmp < carry \/ word < tmp))
add(bits, l, r) == add_from(0, Cnt(bits), l, r, 0)

RECURSIVE sub_from(_, _, _, _, _)
sub_from(i, cnt, l, r, borrow) ==
    IF i = cnt THEN r
    ELSE LET tmp == wrap(r[i] + borrow)
             word == wrap(l[i] - tmp)
         IN  sub_from(i + 1, cnt, l, [r EXCEPT ![i] = word], Bit(tmp < borrow \/ word > l[i]))
sub(bits, l, r) == sub_from(0, Cnt(bits), l, r, 0)

\* In place: the words above the last one of "bits" stay.
shl(bits, a, amount) ==
    LET q == amount \div W
        shft == amount % W
        src(i) == IF i - q >= 0 THEN a[i - q] ELSE 0
    IN  IF amount < 0 \/ amount >= bits THEN a
        ELSE [i \in DOMAIN a |->
                IF i > Top(bits) THEN a[i]
                ELSE IF shft = 0 THEN src(i) ELSE Sll(src(i), shft) + Srl(src(i - 1), W - shft)]
shr(bits, a, amount, uns) ==
    LET q == amount \div W
        shft == amount % W
        src(i) == IF i + q <= Top(bits) THEN a[i + q] ELSE 0
        moved == [i \in DOMAIN a |->
                    IF i > Top(bits - amount) THEN a[i]
                    ELSE IF shft = 0 THEN src(i) ELSE Sll(src(i + 1), W - shft) + Srl(src(i), shft)]
    IN  IF amount < 0 \/ amount >= bits THEN a ELSE sign_ext(bits - amount, moved, bits, uns)

\* A bit-field of a _BitInt type, brought to the top and down again, or put among its neighbours.
bitfield_load(bits, a, width, ofs, uns) == shr(bits, shl(bits, a, bits - width - ofs), bits - width, uns)
bitfield_save(bits, a, dst, width, ofs) ==
    LET full == Cnt(bits) * W
        place(b) == shr(full, shl(full, b, full - width), full - width - ofs, TRUE)
        mask == bitnot(full, place([i \in 0..Top(full) |-> WordSize - 1]))
        new == place(a)
    IN  [i \in DOMAIN dst |-> (dst[i] & mask[i]) | new[i]]

\* The halves of a product, column by column.
RECURSIVE column(_, _, _, _, _), mul_from(_, _, _, _, _)
column(i, j, l, r, acc) ==
    IF j > i THEN acc
    ELSE LET sum == acc.low + l[j] * r[i - j]
         IN  column(i, j + 1, l, r, [low |-> wrap(sum), ovf |-> acc.ovf + Bit(wrap(sum) < l[j] * r[i - j])])
mul_from(i, cnt, l, r, accum) ==
    IF i = cnt THEN r
    ELSE LET c == column(i, 0, l, r, [low |-> accum, ovf |-> 0])
         IN  [mul_from(i + 1, cnt, l, r, wrap(c.ovf * HalfSize + c.low \div HalfSize))
                EXCEPT ![i] = c.low % HalfSize]
mul(bits, l, r) == Words(mul_from(0, (bits + H - 1) \div H, Halves(l), Halves(r), 0))

-----------------------------------------------------------------------------
(* Long division, a half word of the quotient at a time. *)

HWrap(v) == v % HalfSize
Pad(a) == a @@ (Cardinality(DOMAIN a) :> 0)

\* The guess of a digit is corrected by the next half of the divisor.
RECURSIVE correct(_, _, _, _)
correct(q, r, next, inc) ==
    IF r >= wrap(q * next) THEN q
    ELSE IF wrap(r + inc) < inc THEN q - 1 ELSE correct(q - 1, wrap(r + inc), next, inc)
digit(rb, rh, rn, qi) ==
    LET high == rh[rn - 1]
        top == rb[qi + rn] * HalfSize + rb[qi + rn - 1]
    IN  IF rb[qi + rn] = high THEN HalfSize - 1
        ELSE IF rn = 1 THEN HWrap(top \div high)
        ELSE HWrap(correct(top \div high, wrap((top % high) * HalfSize + rb[qi + rn - 2]),
                           rh[rn - 2], wrap(high * HalfSize)))

RECURSIVE submul(_, _, _, _, _, _), addback(_, _, _, _, _, _)
submul(i, rn, qi, rb, rh, st) ==
    IF i = rn THEN st
    ELSE LET prod == st.quo * rh[i]
             tmp == HWrap(prod + st.sub)
             sub_ == Bit(tmp < st.sub) + Bit(st.rb[qi + i] < tmp) + prod \div HalfSize
         IN  submul(i + 1, rn, qi, rb, rh,
                    [st EXCEPT !.sub = HWrap(sub_), !.rb[qi + i] = HWrap(@ - tmp)])
addback(i, rn, qi, rb, rh, carry) ==
    IF i = rn THEN [rb |-> rb, carry |-> carry]
    ELSE LET tmp == rh[i] + carry
             word == HWrap(rb[qi + i] + tmp)
         IN  addback(i + 1, rn, qi, [rb EXCEPT ![qi + i] = word], rh, Bit(word < tmp))

RECURSIVE digits(_, _, _, _, _)
digits(qi, rn, rb, rh, qb) ==
    IF qi < 0 THEN [rb |-> rb, qb |-> qb]
    ELSE LET quo == digit(rb, rh, rn, qi)
             s == submul(0, rn, qi, rb, rh, [quo |-> quo, sub |-> 0, rb |-> rb])
             rem == HWrap(rb[qi + rn] - s.sub)
             back == addback(0, rn, qi, s.rb, rh, 0)
         IN  IF rem > rb[qi + rn]
             THEN digits(qi - 1, rn, [back.rb EXCEPT ![qi + rn] = HWrap(rem + back.carry)], rh,
                         [qb EXCEPT ![qi] = HWrap(quo - 1)])
             ELSE digits(qi - 1, rn, [s.rb EXCEPT ![qi + rn] = rem], rh, [qb EXCEPT ![qi] = quo])

Negative(bits, a, uns) == ~uns /\ Srl(a[Top(bits)], (bits - 1) % W) % 2 = 1
\* Finding the first bit set clears the padding of the operand it looks at.
ClearTop(bits, a) == [a EXCEPT ![Top(bits)] = Clear(@, bits)]
div(bits, l, r, uns, is_div) ==
    LET l_neg == Negative(bits, l, uns)
        r_neg == Negative(bits, r, uns)
        la == ClearTop(bits, IF l_neg THEN neg(bits, l) ELSE l)
        ra == ClearTop(bits, IF r_neg THEN neg(bits, r) ELSE r)
        l_fsb == first_set(bits, la)
        r_fsb == first_set(bits, ra)
        r_shft == (H - (r_fsb % H)) % H
        ln == (l_fsb + H - 1) \div H
        rn == (r_fsb + H - 1) \div H
        lb == shl(bits + W, Pad(la), r_shft)
        rb == shl(bits, ra, r_shft)
        zero == [i \in DOMAIN Halves(l) |-> 0]
        d == digits(ln - rn, rn, Halves(lb), Halves(rb), zero)
        quo == Words(d.qb)
        rem == shr(bits + W, Words(d.rb), r_shft, TRUE)
        res == IF is_div THEN IF l_neg # r_neg THEN neg(bits, quo) ELSE quo
               ELSE IF l_neg THEN neg(bits, rem) ELSE rem
    IN  [i \in DOMAIN l |-> res[i]]
==============================================================================
