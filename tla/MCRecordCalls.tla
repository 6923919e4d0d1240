--------------------------- MODULE MCRecordCalls ---------------------------
EXTENDS RecordCalls

CharT == Scalar("int", 1, "int")
ShortT == Scalar("int", 2, "int")
IntT == Scalar("int", 4, "int")
DoubleT == Scalar("fp", 8, "sse")
LDoubleT == Scalar("x87", 16, "x87")

MCDecls ==
  {Bitfield(CharT, 3, TRUE), Bitfield(CharT, 7, FALSE), Bitfield(ShortT, 11, FALSE), Bitfield(IntT, 6, FALSE),
   Bitfield(IntT, 17, TRUE), Bitfield(IntT, 25, FALSE)}
  \cup {Unnamed(IntT, 5), Unnamed(IntT, 0)}
  \cup {Plain(ShortT, FALSE, 0), Plain(IntT, TRUE, 0), Plain(CharT, FALSE, 32)}
  \cup {Plain(DoubleT, FALSE, 0), Plain(LDoubleT, FALSE, 0)}

PassedScalar(ty) == Passed(ty.kind, ty.size, ty.align, ty.leaves)
MCScalars == {PassedScalar(IntT), PassedScalar(DoubleT), PassedScalar(LDoubleT)}
=============================================================================
