---------------------------- MODULE StatementCode ----------------------------
(***************************************************************************)
(* The code of a function's statements (Statements), or of one asm         *)
(* statement (InlineAsm).                                                  *)
(***************************************************************************)
EXTENDS CInt

CONSTANTS FunctionMixes, SwitchTypes, Ranges, MaxRanges,  \* see Statements
          Gp, Xmm, X87, Saved, AsmMixes, KnownFaults      \* see InlineAsm

VARIABLES asm,                                            \* whether it is an asm statement
          phase,
          open, used, count, code, plain, at, ref,        \* see Statements
          stmt, made, m, jumped                           \* see InlineAsm
flowVars == <<open, used, count, code, plain, at, ref>>
asmVars == <<stmt, made, m, jumped>>
vars == <<asm, phase, flowVars, asmVars>>

Flow == INSTANCE Statements WITH Mixes <- FunctionMixes
Asm == INSTANCE InlineAsm WITH Mixes <- AsmMixes

Init ==
    \/ /\ asm = FALSE /\ Flow!Init
       /\ stmt = <<>> /\ made = <<>> /\ m = <<>> /\ jumped = FALSE
    \/ /\ asm = TRUE /\ Asm!Init
       /\ open = <<>> /\ used = {} /\ count = 0 /\ code = <<>> /\ plain = <<>> /\ at = <<>> /\ ref = <<>>
Next ==
    \/ ~asm /\ Flow!Next /\ UNCHANGED <<asm, asmVars>>
    \/ asm /\ Asm!Next /\ UNCHANGED <<asm, flowVars>>
Spec == Init /\ [][Next]_vars

-----------------------------------------------------------------------------
\* Whatever the conditions and values are, the code has the effects C asks for, in their order: no
\* statement that can be reached is left out, no jump is blanked that goes elsewhere than on, and
\* every value of a switch goes to its label (codegen.c:3652-3763, 5252, parse.c:3316).
EffectsAreKept == ~asm => Flow!EffectsAreKept

\* Every label that is jumped to is emitted, and once: a jump that was kept never goes to a statement
\* that was left out (codegen.c:3741).
LabelsAreKept == ~asm => Flow!LabelsAreKept

\* When the body of an asm statement starts, each operand it reads is in the place its text names, and
\* no output takes the place of what is still read (codegen.c:4006 asm_get_use, 4193
\* asm_assign_oprands).
OperandsArrive == asm => Asm!OperandsArrive

\* After an asm statement every output object has the value the body gave its operand, and execution
\* goes on where the body left to (codegen.c:4284 acquire_out_tmp, 4762 gen_asm).
ResultsArrive == asm => Asm!ResultsArrive

\* After an asm statement the frame pointers and the registers of the caller are what they were, and
\* the x87 stack is empty (codegen.c:4718 asm_push_clobbers, 4731 asm_push_frame_ptr).
RegistersKept == asm => Asm!RegistersKept
=============================================================================
