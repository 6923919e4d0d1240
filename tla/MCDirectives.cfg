SPECIFICATION Spec
CONSTANTS
  Trees <- MCTrees
  Main = "main"
  MaxIncludes = 3
INVARIANTS GuardedFilesAreEmpty OnceIsOnce
PROPERTY IsConditional
\* The preprocessor stops at the end of its input, at an error, or at the
\* bound on the number of files it reads.
CHECK_DEADLOCK FALSE
