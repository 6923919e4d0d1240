----------------------------- MODULE Alignment -----------------------------
(* Rounding and comparing sizes (align_to in parse.c, MAX and MIN).           *)
EXTENDS Integers

AlignTo(n, a) == ((n + a - 1) \div a) * a
AlignDown(n, a) == (n \div a) * a
Larger(a, b) == IF a > b THEN a ELSE b
Smaller(a, b) == IF a < b THEN a ELSE b
=============================================================================
