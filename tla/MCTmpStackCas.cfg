CONSTANTS
  GP_SLOTS = 6
  FP_SLOTS = 2
  opt_reuse_stack = TRUE
  Uses = {"gp", "callee", "fp"}
  LvarWords = {0}
  BitIntWords = {}
  BufSizes = {}
  MaxDepth = 3
  MaxPeak = 3
SPECIFICATION Spec
INVARIANTS CasOperandsDistinct
