SPECIFICATION Spec
CONSTANTS
  Decls <- MCDecls
  Packs = {0, 2}
  MaxMembers = 3
  MaxBytes = 8
  GP_MAX = 2
  FP_MAX = 2
  Shapes = {"direct", "computed"}
  Tops = {2}
  MaxArgs = 3
  ScalarTypes <- MCScalars
INVARIANTS FieldsReadBack ParamsArrive VaArgsArrive InSync StackAligned
PROPERTY StoresStayInside
CHECK_DEADLOCK FALSE
