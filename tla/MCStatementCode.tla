-------------------------- MODULE MCStatementCode --------------------------
(***************************************************************************)
(* Functions of up to four statements, in mixes of their kinds; asm        *)
(* statements of up to four operands, in mixes of constraints, arguments   *)
(* and clobbers.                                                           *)
(***************************************************************************)
EXTENDS StatementCode, Sequences, TLC

MCBits == 1 :> 2 @@ 2 :> 3 @@ 4 :> 4 @@ 8 :> 6
Known == {"true", "false"}
Dead == <<{"label", "goto", "if", "else", "for", "free", "block"} \cup Known, 4>>
Loops == <<{"label", "goto", "do", "for", "break", "continue", "single", "if", "free", "false"}, 4>>
Deferred == <<{"defer", "return", "break", "for", "if", "noreturn", "unreachable", "true", "block"}, 4>>
Unbraced == <<{"label", "goto", "mark", "do", "if", "return", "single", "false"}, 4>>
Switches == <<{"switch", "i32", "case", "break", "if", "for", "true", "false", "block"}, 3>>
Dispatched == <<{"switch", "case", "u8", "u32", "i64", "u64"}, 2>>
MCFunctionMixes == {Dead, Loops, Deferred, Unbraced, Switches, Dispatched}
MCRanges == {<<0, 0>>, <<1, 3>>, <<4, 4>>, <<5, 15>>, <<-1, -1>>, <<-32, -32>>, <<31, 31>>}

----------------------------------------------------------------------------
\* Seven general registers instead of fifteen, so that they run out.
MCGp == <<"ax", "cx", "dx", "r12", "r13", "bx", "bp">>
MCXmm == <<"xmm0", "xmm1">>
MCX87 == <<"st0", "st1">>
Operand(letters, arg) ==
  [letters |-> letters, arg |-> arg, is_input |-> FALSE, plus |-> FALSE, early |-> FALSE, flag |-> FALSE,
   number |-> 0, name |-> "null"]
Early(p) == [p EXCEPT !.early = TRUE]
Plus(p) == [p EXCEPT !.plus = TRUE]
Flag(arg) == [Operand({}, arg) EXCEPT !.flag = TRUE]
As(n, p) == [p EXCEPT !.number = n]
Named(r, p) == [p EXCEPT !.name = r]
Mix(outs, ins, clobbers, labels, max) == [outs |-> outs, ins |-> ins, clobbers |-> clobbers, labels |-> labels, max |-> max]
R == {"r"}
General == Mix({Operand(R, "local"), Early(Operand(R, "deref")), Operand({"a"}, "deref"), Plus(Operand(R, "param")),
                Operand({"m"}, "deref"), Operand({"b"}, "local")},
               {Operand(R, "value"), Operand({"m"}, "param"), Operand({"m"}, "deref"), Operand({"a"}, "local"),
                Operand({"b"}, "value"), As(1, Operand({}, "value")), As(2, Operand({"r"}, "param"))},
               {{}, {"bp"}, {"ax", "bx"}, {"r12", "bp", "bx"}, {"cx", "dx", "r12"}}, {FALSE}, 3)
Crowded == Mix({Operand(R, "local"), Early(Operand(R, "deref")), Operand({"g"}, "deref")},
               {Operand(R, "value"), Operand({"m"}, "deref"), As(1, Operand({}, "local")), Operand({"g"}, "const")},
               {{"ax", "cx"}, {"r12", "r13"}}, {FALSE}, 4)
Floats == Mix({Operand({"t"}, "deref"), Operand({"u"}, "local"), Operand({"x"}, "deref"), Plus(Operand({"t"}, "local"))},
              {Operand({"t"}, "value"), Operand({"u"}, "deref"), Operand({"f"}, "value"), Operand({"x"}, "value")},
              {{}, {"st1"}, {"xmm0", "bp"}}, {FALSE}, 4)
Fields == Mix({Operand(R, "field"), Early(Operand(R, "field")), Operand(R, "deref"), Flag("deref"), Flag("local"),
               Plus(Operand(R, "field")), Flag("field")},
              {Operand(R, "field"), Operand({"i"}, "symbol"), Operand({"i", "r"}, "const")},
              {{}, {"ax", "bp"}, {"bx", "bp"}}, {FALSE}, 3)
Jumps == Mix({Operand(R, "local"), Operand(R, "deref"), Operand({"m"}, "global"), Flag("deref")},
             {Operand(R, "value"), Operand({"b"}, "local"), Named("r12", Operand(R, "local")), As(1, Named("r12", Operand(R, "param")))},
             {{}, {"bp"}, {"r13", "bx"}}, {TRUE}, 3)
MCAsmMixes == <<General, Crowded, Floats, Fields, Jumps>>
=============================================================================
