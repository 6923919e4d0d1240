----------------------------- MODULE CSemantics -----------------------------
(***************************************************************************)
(* What C says of an expression: its type (C11 6.3.1.1, 6.3.1.8) and its   *)
(* value, with the changes it makes to variables.  Written from the rules  *)
(* of the language, not from the compiler; values are mathematical         *)
(* integers.  An expression whose behaviour C leaves undefined has no      *)
(* value ("def" is FALSE).  As the compiler documents nothing else,        *)
(* conversions to signed types and >> of negative numbers, which C leaves  *)
(* to the implementation, are modular and arithmetic.                      *)
(***************************************************************************)
EXTENDS CInt, Bitwise

Rank == [bool |-> 0, i8 |-> 1, u8 |-> 1, i16 |-> 2, u16 |-> 2, i32 |-> 3, u32 |-> 3,
         i64 |-> 4, u64 |-> 4, ll |-> 5, ull |-> 5]
UnsignedOf == [i32 |-> "u32", i64 |-> "u64", ll |-> "ull"]

Least(t) == IF is_unsigned(t) THEN 0 ELSE -(2^(Bits[size(t)] - 1))
Greatest(t) == CASE t = "bool" -> 1
                 [] t \in Signeds -> 2^(Bits[size(t)] - 1) - 1
                 [] OTHER -> 2^Bits[size(t)] - 1
InRange(v, t) == v >= Least(t) /\ v <= Greatest(t)

\* 6.3.1.1: a type of lower rank than int is promoted to int, which can represent all its values.
Promoted(t) == IF t \in IntTypes /\ Rank[t] < Rank["i32"] THEN "i32" ELSE t

\* 6.3.1.8, the usual arithmetic conversions.
Common(s, t) ==
    IF "f64" \in {s, t} THEN "f64"
    ELSE LET p == Promoted(s)
             q == Promoted(t)
             high == IF Rank[p] >= Rank[q] THEN p ELSE q
             uns == IF is_unsigned(p) THEN p ELSE q
             sig == IF is_unsigned(p) THEN q ELSE p
         IN  CASE p = q -> p
               [] is_unsigned(p) = is_unsigned(q) -> high
               [] Rank[uns] >= Rank[sig] -> uns
               [] Greatest(sig) >= Greatest(uns) -> sig
               [] OTHER -> UnsignedOf[sig]

RECURSIVE CType(_)
CType(e) ==
    CASE e.k \in {"num", "var", "cast"} -> e.t
      [] e.k \in Compares \cup Logicals \cup {"not"} -> "i32"
      [] e.k \in {"neg", "pos", "bitnot", "shl", "shift"} -> Promoted(CType(e.l))
      [] e.k \in {"assign", "opassign", "postinc"} -> CType(e.l)
      [] e.k = "comma" -> CType(e.r)
      [] OTHER -> Common(CType(e.l), CType(e.r))

\* 6.3.1.2 to 6.3.1.4; a floating value out of range of the type is undefined.
Convertible(v, s, t) == t = "bool" \/ t = "f64" \/ s # "f64" \/ (v # NaN /\ InRange(v, t))
Convert(v, t) == CASE t = "f64" -> v
                   [] t = "bool" -> Truth(v # 0)
                   [] is_unsigned(t) -> Low(v, Bits[size(t)])
                   [] OTHER -> Signed(v, Bits[size(t)])

\* 6.5.5 to 6.5.12 on two values of type t; the bits of a negative number are its complement's.
FloatOperable(op, x, y) == /\ op = "div" => y # 0 /\ (NaN \in {x, y} \/ y * Quotient(x, y) = x)
FloatOperate(op, x, y) ==
    IF NaN \in {x, y} THEN NaN
    ELSE CASE op = "add" -> x + y [] op = "sub" -> x - y [] op = "mul" -> x * y
           [] OTHER -> Quotient(x, y)
Operable(op, x, y, t) ==
    CASE t = "f64" -> FloatOperable(op, x, y)
      [] t # "f64" /\ op \in {"div", "mod"} -> y # 0 /\ (is_unsigned(t) \/ InRange(Quotient(x, y), t))
      [] t # "f64" /\ op \in {"add", "sub", "mul"} ->
            is_unsigned(t) \/ InRange(CASE op = "add" -> x + y [] op = "sub" -> x - y
                                        [] OTHER -> x * y, t)
      [] OTHER -> TRUE
Operate(op, x, y, t) ==
    LET bits == Bits[size(t)] IN
    IF t = "f64" THEN FloatOperate(op, x, y)
    ELSE
    Convert(CASE op = "add" -> x + y [] op = "sub" -> x - y [] op = "mul" -> x * y
              [] op = "div" -> Quotient(x, y)
              [] op = "mod" -> x - y * Quotient(x, y)
              [] op = "bitand" -> Low(x, bits) & Low(y, bits)
              [] op = "bitor" -> Low(x, bits) | Low(y, bits)
              [] op = "bitxor" -> Low(x, bits) ^^ Low(y, bits), t)

\* 6.5.7; a shift of a negative number to the left is taken as one of its bits.
Shiftable(y, t) == y >= 0 /\ y < Bits[size(t)]
ShiftBy(op, x, y, t) == IF op = "shl" THEN Convert(x * 2^y, t) ELSE x \div 2^y

\* A value and the variables after it; env gives the value of each variable.
Val(v, env) == [def |-> TRUE, v |-> v, env |-> env]
Undefined == [def |-> FALSE, v |-> 0, env |-> << >>]

\* x op y, each converted first.
Binary(op, x, s, y, u, env) ==
    LET t == Common(s, u)
        p == Promoted(s)
    IN  IF op \in {"shl", "shift"}
        THEN IF Shiftable(y, p) THEN Val(ShiftBy(op, x, y, p), env) ELSE Undefined
        ELSE IF op \in Compares
        THEN Val(Truth(Compare(op, Convert(x, t), Convert(y, t))), env)
        ELSE IF Operable(op, Convert(x, t), Convert(y, t), t)
        THEN Val(Operate(op, Convert(x, t), Convert(y, t), t), env)
        ELSE Undefined

\* A value stored to a variable, whose new value is that of the expression.
Stored(r, s, var) ==
    IF r.def /\ Convertible(r.v, s, var.t)
    THEN Val(Convert(r.v, var.t), [r.env EXCEPT ![var.x] = Convert(r.v, var.t)])
    ELSE Undefined

RECURSIVE CValue(_, _)
CValue(e, env) ==
    CASE e.k = "num" -> Val(e.v, env)
      [] e.k = "var" -> Val(env[e.x], env)
      [] e.k = "assign" -> Stored(CValue(e.r, env), CType(e.r), e.l)
      [] e.k = "opassign" ->
            LET r == CValue(e.r, env) IN
            IF ~r.def THEN Undefined
            ELSE Stored(Binary(e.op, r.env[e.l.x], e.l.t, r.v, CType(e.r), r.env),
                        IF e.op \in {"shl", "shift"} THEN Promoted(e.l.t)
                        ELSE Common(e.l.t, CType(e.r)), e.l)
      [] e.k = "postinc" ->
            LET s == Stored(Binary("add", env[e.l.x], e.l.t, e.v, "i32", env),
                            Common(e.l.t, "i32"), e.l)
            IN  IF s.def THEN [s EXCEPT !.v = env[e.l.x]] ELSE Undefined
      [] OTHER ->
            LET l == CValue(e.l, env)
                r == CValue(e.r, l.env)
            IN  IF ~l.def THEN Undefined
                ELSE IF e.k = "cast"
                THEN IF Convertible(l.v, CType(e.l), e.t) THEN [l EXCEPT !.v = Convert(l.v, e.t)]
                     ELSE Undefined
                ELSE IF e.k \in {"neg", "bitnot", "pos"}
                THEN LET p == CType(e) IN
                     CASE e.k = "pos" -> l
                       [] e.k = "bitnot" -> [l EXCEPT !.v = Convert(-1 - l.v, p)]
                       [] OTHER -> IF InRange(-l.v, p) \/ is_unsigned(p)
                                   THEN [l EXCEPT !.v = Convert(-l.v, p)] ELSE Undefined
                ELSE IF e.k = "not" THEN [l EXCEPT !.v = Truth(l.v = 0)]
                ELSE IF e.k \in Logicals
                THEN IF (l.v # 0) = (e.k = "logor") THEN [l EXCEPT !.v = Truth(l.v # 0)]
                     ELSE IF r.def THEN [r EXCEPT !.v = Truth(r.v # 0)] ELSE Undefined
                ELSE IF e.k = "cond"
                THEN LET b == CValue(IF CValue(e.c, env).v # 0 THEN e.l ELSE e.r, CValue(e.c, env).env)
                     IN  IF CValue(e.c, env).def /\ b.def THEN [b EXCEPT !.v = Convert(b.v, CType(e))]
                         ELSE Undefined
                ELSE IF e.k = "elvis"
                THEN IF l.v # 0 THEN [l EXCEPT !.v = Convert(l.v, CType(e))]
                     ELSE IF r.def THEN [r EXCEPT !.v = Convert(r.v, CType(e))] ELSE Undefined
                ELSE IF ~r.def THEN Undefined
                ELSE IF e.k = "comma" THEN r
                ELSE Binary(e.k, l.v, CType(e.l), r.v, CType(e.r), r.env)
=============================================================================
