SPECIFICATION Spec
CONSTANT MaxInputs = 3
INVARIANTS TmpFilesGone InputsProduced SuccessMeansDone
PROPERTY Ends
\* The driver stops when it has exited.
CHECK_DEADLOCK FALSE
