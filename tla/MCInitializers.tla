--------------------------- MODULE MCInitializers ---------------------------
EXTENDS Initializers

MCWhole == Struct(<<Scalar, Scalar>>)
MCTypes == {Array(2, Array(3, Scalar)),
            Array(Unsized, Scalar),
            Array(Unsized, MCWhole),
            Struct(<<MCWhole, Scalar>>),
            Struct(<<Union(<<MCWhole, Scalar>>), Scalar>>),
            Struct(<<Array(3, Char), Scalar>>)}
=============================================================================
