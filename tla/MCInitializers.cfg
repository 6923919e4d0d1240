CONSTANTS
    Whole <- MCWhole
    Types <- MCTypes
    MaxItems = 3
    MaxIndex = 1
    KnownFaults = {"stale-list", "range-copy", "range-tail", "text-dropped"}
SPECIFICATION Spec
INVARIANT LocalsAreC
INVARIANT StaticsAreC
CHECK_DEADLOCK FALSE
