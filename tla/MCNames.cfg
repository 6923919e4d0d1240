CONSTANTS
    Idents <- MCIdents
    NpDecls <- MCNpDecls
    Paths <- MCPaths
    CaptureLists <- MCCaptureLists
    AliasDecls <- MCAliasDecls
    Alpha <- MCAlpha
    MaxNps = 3
    MaxOpen = 3
    MaxDecls = 2
    MaxDepth = 3
    KnownFaults = {"unset-entry", "block-prefix", "tag-unprefixed", "missing-parent", "global-child"}
SPECIFICATION Spec
INVARIANT EntriesAreDeclared
INVARIANT LookupIsScoped
INVARIANT QualifiedIsFound
CHECK_DEADLOCK FALSE
