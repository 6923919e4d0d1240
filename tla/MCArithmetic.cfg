CONSTANTS
    Bits <- MCBits
    ObjectTypes = {"bool", "i8", "u8", "i32", "u32", "i64", "u64", "ll", "f64"}
    PointerTypes = {"u16"}
    DeepTypes = {"i8", "u32", "i64", "f64"}
    DeepKinds = {"sub", "lt", "logor", "not", "cast", "assign", "opassign", "postinc"}
    LastTypes = {"i32"}
    Constants <- MCConstants
    CastTypes = {"bool", "i8", "u16", "u32", "i64", "f64"}
    BinaryOps <- MCBinaryOps
    AssignOps <- MCAssignOps
    LastOps = {"sub", "bitand", "shift", "lt"}
    Wraps <- MCWraps
    H = 3
    Widths = {2, 5, 6, 7, 13}
    Offsets = {0, 1, 3}
    MaxOps = 2
    Operands <- MCOperands
    Lasts <- MCLasts
    CheckWidths = {3, 7}
    KnownFaults = {"not-nan", "half-min-div", "narrow-bitint-div", "bitint-field-load"}
SPECIFICATION Spec
INVARIANT TypesAreC
INVARIANT FoldIsC
INVARIANT CodeIsC
INVARIANT BitIntIsC
\* An expression of the greatest size has no next step.
CHECK_DEADLOCK FALSE
