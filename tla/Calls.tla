------------------------------- MODULE Calls -------------------------------
(* One function call, from both sides (codegen.c): prepare_funcall, which the *)
(* parser calls, and gen_funcall decide where the arguments go and put them   *)
(* there; the prologue of emit_text, va_start and va_arg fetch them.  The two *)
(* sides share no state but registers and stack: each runs the same           *)
(* calling_convention, the caller over its arguments, the callee over its     *)
(* parameters, and the caller decides twice which arguments need a home in    *)
(* memory before they are loaded.                                             *)
(*                                                                            *)
(* The unit of size, address and alignment is the eightbyte.                  *)
EXTENDS Alignment, Sequences, FiniteSets

CONSTANTS
  GP_MAX, FP_MAX,  \* argument registers of each kind
  Shapes,          \* how an argument expression may be evaluated
  Tops,            \* where the stack pointer may be before the call
  MaxArgs          \* bound on the number of arguments

ASSUME RegisterAssumption == GP_MAX \in Nat \ {0} /\ FP_MAX \in Nat \ {0}
ASSUME ShapeAssumption == Shapes \subseteq {"direct", "computed", "redeclared"}
ASSUME TopAssumption == \A t \in Tops : t \in Int /\ t % 2 = 0
ASSUME BoundAssumption == MaxArgs \in Nat

VARIABLES
  types,   \* the types of arguments in the program
  call,    \* the call: its arguments, how many of them the callee names, its result
  pc, i,   \* the step of the compiled program, or of the compiler, and the argument it is at
  count,   \* the running totals of calling_convention
  place,   \* pass_by_stack and stack_offset of each argument
  param,   \* the same of each parameter, as the callee sees it
  homed,   \* the arguments with a home in the caller's frame
  home,    \* what has been stored there
  next,    \* the next argument register of each kind to load or to store
  regs,    \* the argument registers and %al
  stack, rsp, rbp,
  saved,   \* gen_funcall's stack pointer before the call, and the room it made
  local,   \* what the callee stored in the homes of its parameters
  va,      \* its va_list and register save area
  got      \* what its va_args returned

callVars == <<types, call, pc, i, count, place, param, homed, home, next, regs, stack, rsp, saved, rbp,
              local, va, got>>

----------------------------------------------------------------------------
(* Types: a kind, a size, an alignment, and the classes of the first and the  *)
(* second eightbyte and of both.                                              *)

Classes == {"no", "int", "sse", "x87", "mem"}
Kinds == {"int", "fp", "x87", "bitint", "record"}
Scalars == {"int", "fp", "bitint"}

Descriptors ==
  {ty \in [kind : Kinds, words : Nat \ {0}, align : Nat \ {0}, lo : Classes, hi : Classes, all : Classes] :
     /\ ty.kind \in {"int", "fp"} => ty.words = 1 /\ ty.align = 1
     /\ ty.kind = "fp" <=> ty.lo = "sse" /\ ty.kind \in {"int", "fp"}
     /\ ty.kind = "x87" => ty.all = "x87"
     /\ ty.kind = "int" => ty.all = "int"
     /\ ty.kind = "fp" => ty.all = "sse"}

is_by_reg_agg(ty) == ty.words <= 2 /\ ty.all \notin {"x87", "mem"}
va_arg_need_copy(ty) == ty.words = 2 /\ (ty.lo = "sse" \/ ty.hi = "sse")

InFp(ty, w) == (IF w = 1 THEN ty.lo ELSE ty.hi) = "sse"
FpWords(ty) == Cardinality({w \in 1..ty.words : InFp(ty, w)})
GpWords(ty) == Cardinality({w \in 1..ty.words : ~InFp(ty, w)})

----------------------------------------------------------------------------
(* calling_convention: one iteration of its loop.  A scalar is counted even   *)
(* when the registers of its kind have run out; a record takes registers for  *)
(* all of its eightbytes or none.                                             *)

Fits(ty, c) ==
  CASE ty.kind \in {"bitint", "record"} ->
         /\ is_by_reg_agg(ty)
         /\ FpWords(ty) = 0 \/ c.fp + FpWords(ty) <= FP_MAX
         /\ GpWords(ty) = 0 \/ c.gp + GpWords(ty) <= GP_MAX
    [] ty.kind = "fp" -> c.fp < FP_MAX
    [] ty.kind = "int" -> c.gp < GP_MAX
    [] ty.kind = "x87" -> FALSE

StackOffset(ty, c) == IF ty.align > 1 THEN AlignTo(c.stack, ty.align) ELSE c.stack

Counted(ty, c) ==
  LET counts == Fits(ty, c) \/ ty.kind \in {"int", "fp"}
  IN [gp |-> IF counts THEN c.gp + GpWords(ty) ELSE c.gp,
      fp |-> IF counts THEN c.fp + FpWords(ty) ELSE c.fp,
      stack |-> IF Fits(ty, c) THEN c.stack ELSE StackOffset(ty, c) + ty.words,
      align |-> IF Fits(ty, c) \/ ty.align <= 1 THEN c.align ELSE Larger(c.align, ty.align)]

PlaceOf(ty, c) ==
  [pass_by_stack |-> ~Fits(ty, c), stack_offset |-> IF Fits(ty, c) THEN 0 ELSE StackOffset(ty, c)]

\* A mutant: the callee takes the first register to hold the result's address always.
NewCount_AlwaysBuffer == [gp |-> 1, fp |-> 0, stack |-> 0, align |-> 2]

NewCount == [gp |-> IF call.rtn_by_stk THEN 1 ELSE 0, fp |-> 0, stack |-> 0, align |-> 2]
gp_count == Smaller(count.gp, GP_MAX)
fp_count == Smaller(count.fp, FP_MAX)

----------------------------------------------------------------------------
(* Values: word w of argument a.                                              *)

Junk == <<0, 0>>
RtnBuf == <<0, 1>>
Word(a, w) == <<a, w>>
Words(a, ty) == [w \in 1..ty.words |-> Word(a, w)]

Clobbered == [gp |-> [r \in 0..(GP_MAX - 1) |-> Junk], fp |-> [r \in 0..(FP_MAX - 1) |-> Junk], al |-> 0]
NextReg == [gp |-> IF call.rtn_by_stk THEN 1 ELSE 0, fp |-> 0]
NoVa == [gp |-> 0, fp |-> 0, st |-> 0, area |-> Clobbered]

\* The register of its kind that word w of an argument is loaded into.
RegOf(ty, w) ==
  IF InFp(ty, w) THEN next.fp + Cardinality({v \in 1..(w - 1) : InFp(ty, v)})
  ELSE next.gp + Cardinality({v \in 1..(w - 1) : ~InFp(ty, v)})
After(ty) == [gp |-> next.gp + GpWords(ty), fp |-> next.fp + FpWords(ty)]

\* The word that goes to register r of its kind, if any does.
GpWordFor(ty, r) == {w \in 1..ty.words : ~InFp(ty, w) /\ RegOf(ty, w) = r}
FpWordFor(ty, r) == {w \in 1..ty.words : InFp(ty, w) /\ RegOf(ty, w) = r}

place_reg_arg(ty, words, rs) ==
  [rs EXCEPT
     !.gp = [r \in DOMAIN rs.gp |->
               IF GpWordFor(ty, r) = {} THEN rs.gp[r] ELSE words[CHOOSE w \in GpWordFor(ty, r) : TRUE]],
     !.fp = [r \in DOMAIN rs.fp |->
               IF FpWordFor(ty, r) = {} THEN rs.fp[r] ELSE words[CHOOSE w \in FpWordFor(ty, r) : TRUE]]]

Arg(a) == call.args[a]
Type(a) == call.args[a].ty
Args == 1..Len(call.args)

(* An argument that is a constant or can be loaded by one instruction needs   *)
(* no home.  Whether a global can, depends on what has been declared of it so *)
(* far; code is generated after the whole function has been parsed.           *)
Direct(a, when) ==
  /\ Type(a).kind \in {"int", "fp"}
  /\ Arg(a).shape = "direct" \/ (Arg(a).shape = "redeclared" /\ when = "parse")

\* A mutant: an argument is computed while others are in their registers.
ComputedLast_Any(a) == Type(a).kind \in Scalars

\* Nothing is loaded yet when the first register argument is: it may be computed then.
FirstInReg(a) == \A b \in 1..(a - 1) : place[b].pass_by_stack
ComputedLast(a) == FirstInReg(a) /\ Type(a).kind \in Scalars

----------------------------------------------------------------------------
Idle ==
  /\ call = [args |-> <<>>, named |-> 0, rtn_by_stk |-> FALSE, optimize |-> FALSE]
  /\ pc = "idle" /\ i = 0
  /\ count = [gp |-> 0, fp |-> 0, stack |-> 0, align |-> 2]
  /\ place = <<>> /\ param = <<>>
  /\ homed = {} /\ home = <<>>
  /\ next = [gp |-> 0, fp |-> 0]
  /\ regs = Clobbered
  /\ stack = <<>> /\ rsp = 0 /\ rbp = 0 /\ saved = [rsp |-> 0, size |-> 0, align |-> 2]
  /\ local = <<>> /\ va = NoVa /\ got = <<>>

\* Without optimization no expression is treated specially.
Expressions ==
  {e \in [ty : types, shape : Shapes] : e.ty.kind \in {"int", "fp"} \/ e.shape = "computed"}

CallInit == types \in SUBSET Descriptors /\ Idle

funcall ==
  /\ pc = "idle"
  /\ \E n \in 0..MaxArgs :
     \E args \in [1..n -> Expressions], named \in 0..n, rtn, optimize \in BOOLEAN, top \in Tops :
       /\ optimize \/ \A a \in 1..n : args[a].shape = "computed"
       /\ call' = [args |-> args, named |-> named, rtn_by_stk |-> rtn, optimize |-> optimize]
       /\ count' = [gp |-> IF rtn THEN 1 ELSE 0, fp |-> 0, stack |-> 0, align |-> 2]
       /\ rsp' = top
  /\ pc' = "classify" /\ i' = 1
  /\ UNCHANGED <<types, place, param, homed, home, next, regs, stack, saved, rbp, local, va, got>>

ClassifyArg ==
  /\ pc = "classify" /\ i \in Args
  /\ place' = Append(place, PlaceOf(Type(i), count))
  /\ count' = Counted(Type(i), count)
  /\ i' = i + 1
  /\ UNCHANGED <<types, call, pc, param, homed, home, next, regs, stack, rsp, saved, rbp, local, va, got>>

prepare_funcall ==
  /\ pc = "classify" /\ i \notin Args
  /\ homed' = {a \in Args : /\ ~place[a].pass_by_stack
                            /\ call.optimize => ~Direct(a, "parse") /\ ~ComputedLast(a)}
  /\ home' = [a \in Args |-> [w \in 1..Type(a).words |-> Junk]]
  /\ pc' = "begin"
  /\ UNCHANGED <<types, call, i, count, place, param, next, regs, stack, rsp, saved, rbp, local, va, got>>

\* A mutant: the room is not rounded up.
gen_funcall_Unrounded ==
  /\ pc = "begin"
  /\ saved' = [rsp |-> rsp, size |-> count.stack, align |-> count.align]
  /\ rsp' = IF count.stack = 0 THEN rsp
            ELSE IF count.align > 2 THEN AlignDown(rsp - count.stack, count.align)
            ELSE rsp - count.stack
  /\ pc' = "spill" /\ i' = 1
  /\ UNCHANGED <<types, call, count, place, param, homed, home, next, regs, stack, rbp, local, va, got>>

(* gen_funcall runs calling_convention again, with the same result, and makes *)
(* room for the stack arguments.                                              *)
gen_funcall ==
  /\ pc = "begin"
  /\ saved' = [rsp |-> rsp, size |-> count.stack, align |-> count.align]
  /\ rsp' = IF count.stack = 0 THEN rsp
            ELSE IF count.align > 2 THEN AlignDown(rsp - count.stack, count.align)
            ELSE rsp - AlignTo(count.stack, 2)
  /\ pc' = "spill" /\ i' = 1
  /\ UNCHANGED <<types, call, count, place, param, homed, home, next, regs, stack, rbp, local, va, got>>

(* The first loop of gen_funcall_args computes the arguments that go to       *)
(* memory; a computation may call functions and use every register.           *)
SpillArg ==
  /\ pc = "spill" /\ i \in Args
  /\ place[i].pass_by_stack \/ i \in homed
  /\ IF place[i].pass_by_stack
     THEN /\ stack' = [a \in DOMAIN stack \cup {rsp + place[i].stack_offset + w - 1 : w \in 1..Type(i).words} |->
                         LET w == a - (rsp + place[i].stack_offset) + 1
                         IN IF w \in 1..Type(i).words THEN Word(i, w) ELSE stack[a]]
          /\ UNCHANGED home
     ELSE home' = [home EXCEPT ![i] = Words(i, Type(i))] /\ UNCHANGED stack
  /\ regs' = Clobbered
  /\ i' = i + 1
  /\ UNCHANGED <<types, call, pc, count, place, param, homed, next, rsp, saved, rbp, local, va, got>>

SkipSpill ==
  /\ pc = "spill" /\ i \in Args
  /\ ~place[i].pass_by_stack /\ i \notin homed
  /\ i' = i + 1
  /\ UNCHANGED <<types, call, pc, count, place, param, homed, home, next, regs, stack, rsp, saved, rbp,
                 local, va, got>>

Spilled ==
  /\ pc = "spill" /\ i \notin Args
  /\ pc' = "load" /\ i' = 1
  /\ next' = NextReg
  /\ UNCHANGED <<types, call, count, place, param, homed, home, regs, stack, rsp, saved, rbp, local, va, got>>

\* A mutant: code generation does not know that the first argument may be computed late.
FromHome_Unsynced(a) == call.optimize => ~Direct(a, "codegen")

\* The second loop loads the register arguments.
FromHome(a) == call.optimize => ~Direct(a, "codegen") /\ ~ComputedLast(a)

LoadArg ==
  /\ pc = "load" /\ i \in Args /\ ~place[i].pass_by_stack
  /\ regs' = place_reg_arg(Type(i), IF FromHome(i) THEN home[i] ELSE Words(i, Type(i)),
                           IF FromHome(i) \/ Direct(i, "codegen") THEN regs ELSE Clobbered)
  /\ next' = After(Type(i))
  /\ i' = i + 1
  /\ UNCHANGED <<types, call, pc, count, place, param, homed, home, stack, rsp, saved, rbp, local, va, got>>

SkipLoad ==
  /\ pc = "load" /\ i \in Args /\ place[i].pass_by_stack
  /\ i' = i + 1
  /\ UNCHANGED <<types, call, pc, count, place, param, homed, home, next, regs, stack, rsp, saved, rbp,
                 local, va, got>>

(* The address of the result buffer goes to the first register and the number *)
(* of floating-point registers to %al; the call and the prologue push two     *)
(* words.                                                                     *)
variadic == call.named < Len(call.args)

CallFunction ==
  /\ pc = "load" /\ i \notin Args
  /\ regs' = [regs EXCEPT !.gp = IF call.rtn_by_stk THEN [@ EXCEPT ![0] = RtnBuf] ELSE @,
                          !.al = IF variadic THEN fp_count ELSE @]
  /\ rbp' = rsp - 2
  /\ count' = NewCount
  /\ pc' = "params" /\ i' = 1
  /\ UNCHANGED <<types, call, place, param, homed, home, next, stack, rsp, saved, local, va, got>>

----------------------------------------------------------------------------
(* The callee.                                                                *)

ClassifyParam ==
  /\ pc = "params" /\ i \in 1..call.named
  /\ param' = Append(param, PlaceOf(Type(i), count))
  /\ count' = Counted(Type(i), count)
  /\ i' = i + 1
  /\ UNCHANGED <<types, call, pc, place, homed, home, next, regs, stack, rsp, saved, rbp, local, va, got>>

(* The prologue of a variadic function saves the registers its parameters do  *)
(* not use; those of floating-point arguments only if %al says there are any. *)
Prologue ==
  /\ pc = "params" /\ i \notin 1..call.named
  /\ va' = IF ~variadic THEN va
           ELSE [va EXCEPT !.area =
                   [gp |-> [r \in DOMAIN regs.gp |-> IF r >= gp_count THEN regs.gp[r] ELSE Junk],
                    fp |-> [r \in DOMAIN regs.fp |-> IF regs.al # 0 /\ r >= fp_count THEN regs.fp[r] ELSE Junk],
                    al |-> 0]]
  /\ next' = NextReg
  /\ pc' = "receive" /\ i' = 1
  /\ UNCHANGED <<types, call, count, place, param, homed, home, regs, stack, rsp, saved, rbp, local, got>>

ReceiveParam ==
  /\ pc = "receive" /\ i \in 1..call.named
  /\ IF param[i].pass_by_stack
     THEN local' = Append(local, <<>>) /\ UNCHANGED next
     ELSE /\ local' = Append(local, [w \in 1..Type(i).words |->
                                       IF InFp(Type(i), w) THEN regs.fp[RegOf(Type(i), w)]
                                       ELSE regs.gp[RegOf(Type(i), w)]])
          /\ next' = After(Type(i))
  /\ i' = i + 1
  /\ UNCHANGED <<types, call, pc, count, place, param, homed, home, regs, stack, rsp, saved, rbp, va, got>>

va_start ==
  /\ pc = "receive" /\ i \notin 1..call.named
  /\ va' = [va EXCEPT !.gp = gp_count, !.fp = fp_count, !.st = rbp + 2 + count.stack]
  /\ regs' = Clobbered
  /\ pc' = "body" /\ i' = call.named + 1
  /\ UNCHANGED <<types, call, count, place, param, homed, home, next, stack, rsp, saved, rbp, local, got>>

AtStack(a) == IF a \in DOMAIN stack THEN stack[a] ELSE Junk

(* va_arg tries the save area, for a record that spans both kinds word by     *)
(* word, and takes what does not fit from the overflow area.                  *)
InArea(ty) ==
  /\ is_by_reg_agg(ty)
  /\ IF va_arg_need_copy(ty)
     THEN /\ GpWords(ty) = 0 \/ va.gp <= GP_MAX - GpWords(ty)
          /\ va.fp <= FP_MAX - FpWords(ty)
     ELSE IF ty.lo = "sse" THEN va.fp <= FP_MAX - 1
     ELSE va.gp <= GP_MAX - ty.words

FromArea(ty) ==
  [w \in 1..ty.words |->
     LET before == {v \in 1..(w - 1) : InFp(ty, v) = InFp(ty, w)}
     IN IF InFp(ty, w) THEN va.area.fp[va.fp + Cardinality(before)]
        ELSE va.area.gp[va.gp + Cardinality(before)]]

\* A mutant: the overflow area is read without aligning.
OverflowAt_Packed(ty) == va.st

OverflowAt(ty) == IF ty.align <= 1 THEN va.st ELSE AlignTo(va.st, ty.align)

va_arg ==
  /\ pc = "body" /\ i \in Args
  /\ LET ty == Type(i)
     IN IF InArea(ty)
        THEN /\ got' = Append(got, FromArea(ty))
             /\ va' = [va EXCEPT !.gp = @ + GpWords(ty), !.fp = @ + FpWords(ty)]
        ELSE /\ got' = Append(got, [w \in 1..ty.words |-> AtStack(OverflowAt(ty) + w - 1)])
             /\ va' = [va EXCEPT !.st = OverflowAt(ty) + ty.words]
  /\ i' = i + 1
  /\ UNCHANGED <<types, call, pc, count, place, param, homed, home, next, regs, stack, rsp, saved, rbp, local>>

Return ==
  /\ pc = "body" /\ i \notin Args
  /\ rsp' = IF saved.size = 0 THEN rbp + 2
            ELSE IF saved.align > 2 THEN saved.rsp
            ELSE rbp + 2 + AlignTo(saved.size, 2)
  /\ pc' = "returned"
  /\ UNCHANGED <<types, call, i, count, place, param, homed, home, next, regs, stack, saved, rbp, local, va, got>>

CallNext ==
  \/ funcall \/ ClassifyArg \/ prepare_funcall
  \/ gen_funcall \/ SpillArg \/ SkipSpill \/ Spilled \/ LoadArg \/ SkipLoad \/ CallFunction
  \/ ClassifyParam \/ Prologue \/ ReceiveParam \/ va_start \/ va_arg \/ Return

CallSpec == CallInit /\ [][CallNext]_callVars

----------------------------------------------------------------------------
(* Properties                                                                 *)

Values == Nat \X Nat
Places == [pass_by_stack : BOOLEAN, stack_offset : Nat]
RegFiles == [gp : [0..(GP_MAX - 1) -> Values], fp : [0..(FP_MAX - 1) -> Values], al : Nat]

CallTypeOK ==
  /\ types \subseteq Descriptors
  /\ call.args \in Seq([ty : Descriptors, shape : Shapes])
  /\ call.named \in 0..Len(call.args) /\ call.rtn_by_stk \in BOOLEAN /\ call.optimize \in BOOLEAN
  /\ i \in 0..(Len(call.args) + 1)
  /\ count \in [gp : Nat, fp : Nat, stack : Nat, align : Nat \ {0}]
  /\ place \in Seq(Places) /\ Len(place) <= Len(call.args)
  /\ param \in Seq(Places) /\ Len(param) <= call.named
  /\ homed \subseteq Args
  /\ next.gp \in 0..GP_MAX /\ next.fp \in 0..FP_MAX
  /\ regs \in RegFiles /\ va.area \in RegFiles
  /\ rsp \in Int /\ rbp \in Int

(* What the callee finds in a parameter, wherever it was passed, is what the  *)
(* caller computed for that argument, and the result goes to its buffer.      *)
ParamAt(p) ==
  IF param[p].pass_by_stack
  THEN [w \in 1..Type(p).words |-> AtStack(rbp + 2 + param[p].stack_offset + w - 1)]
  ELSE local[p]

ParamsArrive ==
  pc = "body" => \A p \in 1..call.named : ParamAt(p) = Words(p, Type(p))

(* Each va_arg returns the next argument after the named ones, though the     *)
(* callee learns its type only then and never how many there are.             *)
VaArgsArrive ==
  pc \in {"body", "returned"} =>
    \A k \in DOMAIN got : got[k] = Words(call.named + k, Type(call.named + k))

(* prepare_funcall, at parse time, and gen_funcall_args, at code generation,  *)
(* are in sync: an argument loaded from a home has one, and it was stored.    *)
InSync ==
  pc = "load" =>
    \A a \in Args : ~place[a].pass_by_stack /\ FromHome(a) => a \in homed /\ home[a] = Words(a, Type(a))

(* Once an argument register is loaded, computing and loading the arguments   *)
(* after it does not overwrite it.                                            *)
LoadedStay ==
  [][pc = "load" /\ pc' = "load" =>
       /\ \A r \in NextReg.gp..(next.gp - 1) : regs'.gp[r] = regs.gp[r]
       /\ \A r \in 0..(next.fp - 1) : regs'.fp[r] = regs.fp[r]]_callVars

(* At the call the stack pointer is a multiple of 16 bytes, and every stack   *)
(* argument is aligned as its type; after it the stack pointer is back.       *)
StackAligned ==
  /\ pc = "params" =>
       /\ rbp % 2 = 0
       /\ \A a \in Args : place[a].pass_by_stack /\ Type(a).align > 1 =>
                            (rbp + 2 + place[a].stack_offset) % Type(a).align = 0
  /\ pc = "returned" => rsp = saved.rsp
=============================================================================
