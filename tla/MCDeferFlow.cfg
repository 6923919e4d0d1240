SPECIFICATION Spec
CONSTANTS
  Mixes <- MCMixes
  MaxStatements = 4
INVARIANTS ChainIsPending StackFollowsVlas
\* The function has returned, or was rejected.
CHECK_DEADLOCK FALSE
