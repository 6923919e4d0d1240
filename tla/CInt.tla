-------------------------------- MODULE CInt --------------------------------
(***************************************************************************)
(* The integer types of the compiler (type.c) and the arithmetic of words. *)
(* Widths are scaled: an object of 1, 2, 4 and 8 bytes has Bits[size]      *)
(* bits, so that every value of a small type can be tried.  One floating   *)
(* type is included, whose values are small integers and NaN.              *)
(***************************************************************************)
EXTENDS Integers

CONSTANT Bits

ASSUME BitsAssumption ==
    /\ Bits \in [{1, 2, 4, 8} -> Nat \ {0}]
    /\ Bits[1] < Bits[2] /\ Bits[2] < Bits[4] /\ 2 * Bits[4] > Bits[8] /\ Bits[4] < Bits[8]

Signeds == {"i8", "i16", "i32", "i64", "ll"}
Unsigneds == {"bool", "u8", "u16", "u32", "u64", "ull"}
IntTypes == Signeds \cup Unsigneds
Types == IntTypes \cup {"f64"}

size(t) == CASE t \in {"bool", "i8", "u8"} -> 1
             [] t \in {"i16", "u16"} -> 2
             [] t \in {"i32", "u32"} -> 4
             [] OTHER -> 8
is_unsigned(t) == t \in Unsigneds
is_integer(t) == t \in IntTypes
is_flonum(t) == t = "f64"

Compares == {"eq", "ne", "lt", "le", "gt", "ge"}
Logicals == {"logand", "logor"}
Shifts == {"shl", "shr", "sar"}
Bitwises == {"bitand", "bitor", "bitxor"}

\* Words: the low bits of a number, read as an unsigned or a signed one.
Low(v, bits) == v % 2^bits
Signed(v, bits) == LET u == Low(v, bits) IN IF u >= 2^(bits - 1) THEN u - 2^bits ELSE u
U64(v) == Low(v, Bits[8])
I64(v) == Signed(v, Bits[8])
U32(v) == Low(v, Bits[4])
I32(v) == Signed(v, Bits[4])

\* The quotient of integers rounded towards zero.
Quotient(x, y) == LET q == (IF x < 0 THEN -x ELSE x) \div (IF y < 0 THEN -y ELSE y)
                  IN IF (x < 0) = (y < 0) THEN q ELSE -q

\* NaN differs from every other value and compares false with all.
NaN == 2^(2 * Bits[8])
Compare(op, x, y) ==
    CASE op = "eq" -> x = y /\ NaN \notin {x, y}
      [] op = "ne" -> x # y \/ NaN \in {x, y}
      [] op = "lt" -> x < y /\ NaN \notin {x, y}
      [] op = "le" -> x <= y /\ NaN \notin {x, y}
      [] op = "gt" -> x > y /\ NaN \notin {x, y}
      [] op = "ge" -> x >= y /\ NaN \notin {x, y}
Truth(b) == IF b THEN 1 ELSE 0
=============================================================================
