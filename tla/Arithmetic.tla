----------------------------- MODULE Arithmetic -----------------------------
(***************************************************************************)
(* An expression of arithmetic types (Arith) or of _BitInt types (BitInt). *)
(***************************************************************************)
EXTENDS CInt, BitIntWords

CONSTANTS ObjectTypes, PointerTypes, DeepTypes, DeepKinds, LastTypes, Constants, CastTypes,
          BinaryOps, AssignOps, Wraps, LastOps,
          Widths, Offsets, MaxOps, Operands, Lasts, CheckWidths,
          KnownFaults

VARIABLES wide,               \* whether the expression is one of _BitInt types
          ops,                \* the operations it has
          src, node, opt, obj,                           \* see Arith
          bits, uns, buf, val, answer, truth, faults     \* see BitInt
plainVars == <<src, node, opt, obj>>
bitintVars == <<bits, uns, buf, val, answer, truth, faults>>
vars == <<wide, ops, plainVars, bitintVars>>

Plain == INSTANCE Arith
Wide == INSTANCE BitInt

Init ==
    \/ /\ wide = FALSE /\ Plain!Init
       /\ bits = 0 /\ uns = TRUE /\ buf = <<>> /\ val = 0 /\ answer = TRUE /\ truth = TRUE /\ faults = {}
    \/ /\ wide = TRUE /\ Wide!Init
       /\ src = <<>> /\ node = <<>> /\ opt = TRUE /\ obj = <<>>
Next ==
    \/ ~wide /\ Plain!Next /\ UNCHANGED <<wide, bitintVars>>
    \/ wide /\ Wide!Next /\ UNCHANGED <<wide, plainVars>>
Spec == Init /\ [][Next]_vars

-----------------------------------------------------------------------------
\* The type the parser gives an expression, through promotions, conversions and the casts it
\* drops, is the one C gives it (type.c:694 usual_arith_conv, parse.c:878 new_cast).
TypesAreC == ~wide => Plain!TypesAreC

\* An expression that folds, folds to the value C gives it whatever the objects hold, and folding
\* never drops an effect (parse.c:3928 eval2).
FoldIsC == ~wide => Plain!FoldIsC

\* The code made of an expression, optimized or not, for its value or for its effects alone, leaves
\* the value C gives it and changes the objects as C does, never a byte beside them (codegen.c:2401
\* gen_expr2, 3764 gen_expr_opt, 3045 gen_void_expr).
CodeIsC == ~wide => Plain!CodeIsC

\* Whatever _BitInt operations made it, and whatever padding they found and left, the buffer holds
\* the value that C gives the expression; a test, a comparison and the overflow of checked arithmetic
\* are answered as the values ask, and a bit-field that is written leaves its neighbours alone
\* (bitint.c, codegen.c gen_bitint_arith).
BitIntIsC == wide => Wide!BitIntIsC
=============================================================================
