CONSTANTS
  GP_SLOTS = 6
  FP_SLOTS = 2
  opt_reuse_stack = TRUE
  Uses = {"gp", "callee", "fp", "x87"}
  LvarWords = {1}
  BitIntWords = {2}
  BufSizes = {10}
  MaxDepth = 3
  MaxPeak = 3
SPECIFICATION Spec
INVARIANTS TempsSurvive FrameHoldsTemps BitintContiguous NoReuseIsFresh
