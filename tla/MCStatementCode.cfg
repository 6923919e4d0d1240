CONSTANTS
    Bits <- MCBits
    FunctionMixes <- MCFunctionMixes
    SwitchTypes = {"u8", "i32", "u32", "i64", "u64"}
    Ranges <- MCRanges
    MaxRanges = 3
    Gp <- MCGp
    Xmm <- MCXmm
    X87 <- MCX87
    Saved = {"r12", "r13"}
    AsmMixes <- MCAsmMixes
    KnownFaults = {"goto-restore", "goto-tmp", "field-tmp", "plus-field", "flag-field"}
SPECIFICATION Spec
INVARIANT LabelsAreKept
INVARIANT EffectsAreKept
INVARIANT OperandsArrive
INVARIANT ResultsArrive
INVARIANT RegistersKept
\* The function or statement has ended, or was rejected.
CHECK_DEADLOCK FALSE
