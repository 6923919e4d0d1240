---------------------------- MODULE MCArithmetic ----------------------------
(***************************************************************************)
(* Expressions of up to two operators over all types, and of _BitInt types *)
(* in words of six bits: narrower than half a word, of a word, and of up   *)
(* to three words.                                                         *)
(***************************************************************************)
EXTENDS Arithmetic, TLC

MCBits == 1 :> 3 @@ 2 :> 4 @@ 4 :> 5 @@ 8 :> 8
MCConstants == {<<"i32", 1>>, <<"i32", -1>>, <<"i32", 4>>, <<"u32", 31>>, <<"i64", -16>>, <<"u64", 32>>, <<"f64", 2>>}
MCBinaryOps == {"add", "sub", "mul", "div", "mod", "bitand", "bitxor", "shl", "shift", "eq", "lt", "logand", "logor"}
MCAssignOps == {"assign", "add", "sub", "div", "bitor", "shift"}
MCWraps == {"neg", "bitnot", "not", "pos", "postinc", "cond", "elvis", "comma"}
MCOperands == {-2048, -8, -2, -1, 0, 1, 5, 9, 63, 200, 2047}
MCLasts == {-2, 1, 11}
=============================================================================
