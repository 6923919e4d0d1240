------------------------------ MODULE InlineAsm ------------------------------
(***************************************************************************)
(* An asm statement with operands.  Preparing it gives each operand its    *)
(* place: a register, memory, or a constant.  The code made for it then    *)
(* loads the inputs, saves the registers that must survive, runs the body, *)
(* stores the outputs, and restores.  Registers and objects hold symbols:  *)
(* the value of an operand, its address, or what was there before.         *)
(*                                                                         *)
(* The body is any text that keeps to its constraints: it reads inputs,    *)
(* writes outputs and clobbers, and nothing else.                          *)
(***************************************************************************)
EXTENDS Naturals, Sequences, FiniteSets, SequencesExt, FiniteSetsExt, TLC

CONSTANTS Gp, Xmm, X87,  \* registers, in the order they are tried
          Saved,         \* general ones that a function keeps for its caller, beside rbx and rbp
          Mixes,         \* tuples of the outputs, inputs, clobbers and labels to choose from, and how many operands at most
          KnownFaults

VARIABLES stmt,   \* the statement
          made,   \* what preparing it made: asm_ops (outputs, then inputs), asm_use, AsmContext
          m,      \* registers, x87 stack, temporaries and objects
          jumped, \* whether the body left by a label
          phase   \* "write", "prepared", "body", "left", "ended" or "rejected"
vars == <<stmt, made, m, jumped, phase>>

Null == "null"
Regs == Range(Gp) \cup Range(Xmm) \cup Range(X87)
Order == Gp \o Xmm \o X87
Within(set) == SelectSeq(Order, LAMBDA r : r \in set)
is_gp_reg(r) == r \in Range(Gp)
is_x87_reg(r) == r \in Range(X87)
x87_at(r) == CHOOSE k \in DOMAIN X87 : X87[k] = r

-----------------------------------------------------------------------------
(* Preparing.  S has the operands, and the registers used before the body  *)
(* and after it; asm_set_use and asm_get_use decide which of the two an    *)
(* operand needs.                                                          *)
Memops == {"local", "param", "global"}  \* arguments with an address known to the assembler
has_memop(ap) == ap.arg \in Memops
is_bitfield(ap) == ap.arg = "field"

\* What a letter of a constraint allows.
Allows(letter) ==
  CASE letter \in {"r", "g"} -> Range(Gp)
    [] letter = "x" -> Range(Xmm)
    [] letter = "f" -> Range(X87)
    [] letter = "a" -> {"ax"}
    [] letter = "b" -> {"bx"}
    [] OTHER -> {}
Mask(ap) == UNION {Allows(letter) : letter \in ap.letters}
is_mem(ap) == ap.letters \cap {"m", "g"} # {}
is_num(ap) == ap.letters \cap {"i", "g"} # {} /\ ap.arg = "const"
is_symbolic(ap) == "i" \in ap.letters /\ ap.arg = "symbol"
Explicit(ap) == CASE "t" \in ap.letters -> X87[1] [] "u" \in ap.letters -> X87[2] [] OTHER -> Null

Pending(S, i) == S.ops[i].match # 0 /\ S.ops[S.ops[i].match].kind = "none"
asm_get_use_Late(S, i, is_reg) ==  \* mutant: an early output may share the register of an input
  LET ap == S.ops[i]
      shared == Pending(S, i) /\ is_reg
  IN  CASE ~shared /\ ap.is_input -> S.in
        [] ~shared /\ ~ap.is_input /\ ~ap.plus /\ is_reg -> S.out
        [] OTHER -> S.in \cup S.out
asm_get_use(S, i, is_reg) ==
  LET ap == S.ops[i]
      shared == Pending(S, i) /\ is_reg
  IN  CASE ~shared /\ ap.is_input -> S.in
        [] ~shared /\ ~ap.is_input /\ ~ap.plus /\ ~ap.early /\ is_reg -> S.out
        [] OTHER -> S.in \cup S.out

asm_set_use(S, i, kind, r) ==
  LET ap == S.ops[i]
      shared == Pending(S, i) /\ kind = "REG"
      set == [S EXCEPT !.ops[i].kind = kind, !.ops[i].reg = r]
      both == [set EXCEPT !.in = @ \cup {r}, !.out = @ \cup {r}]
  IN  CASE shared -> [both EXCEPT !.ops[ap.match].kind = "REG", !.ops[ap.match].reg = r]
        [] ~shared /\ ap.is_input -> [set EXCEPT !.in = @ \cup {r}]
        [] ~shared /\ ~ap.is_input /\ ~ap.plus /\ ~ap.early /\ kind = "REG" -> [set EXCEPT !.out = @ \cup {r}]
        [] OTHER -> both

\* The registers in which an output and its matching input can meet.
Meeting(S, i, mask) ==
  LET match == S.ops[S.ops[i].match]
  IN  IF match.named # Null THEN mask \cap {match.named} ELSE mask

Place(S, i, mask, x87_clobber) ==
  LET ap == S.ops[i]
      inreg == is_mem(ap) /\ ~has_memop(ap)
      st == Explicit(ap)
      matching == ap.is_input /\ ap.number # 0
      other == S.ops[ap.number]
      waits == [S EXCEPT !.ops[i].is_mem_inreg = inreg, !.ops[i].reg_constraint = mask]
  IN  CASE is_num(ap) -> [S EXCEPT !.ops[i].kind = "NUM"]
        [] ~is_num(ap) /\ is_symbolic(ap) -> [S EXCEPT !.ops[i].kind = "SYMBOLIC"]
        [] ~is_num(ap) /\ ~is_symbolic(ap) /\ is_mem(ap) /\ has_memop(ap) ->
             [S EXCEPT !.ops[i].kind = "MEM"]
        [] st # Null /\ st \notin asm_get_use(S, i, TRUE) ->
             asm_set_use([S EXCEPT !.ops[i].is_clobbered_x87 = x87_clobber >= x87_at(st)], i, "REG", st)
        [] matching /\ (other.match # 0 \/ other.is_input \/ other.plus) -> [S EXCEPT !.ok = FALSE]
        [] matching /\ ~(other.match # 0 \/ other.is_input \/ other.plus) ->
             [waits EXCEPT !.ops[ap.number].match = i]
        [] OTHER -> waits

asm_constraint(S, i, x87_clobber) ==
  LET ap == S.ops[i]
      named == IF Mask(ap) = {} THEN Null ELSE ap.name
      mask == IF named # Null THEN Mask(ap) \cap {named} ELSE Mask(ap)
      T == [S EXCEPT !.ops[i].named = named]
      meeting == IF Pending(S, i) THEN Meeting(S, i, mask) ELSE {}
  IN  CASE ap.flag -> [S EXCEPT !.ops[i].kind = "FLAG"]
        [] ~ap.flag /\ meeting # {} ->
             [T EXCEPT !.ops[i].reg_constraint = meeting, !.ops[ap.match].reg_constraint = @ \cup meeting]
        [] OTHER -> Place([T EXCEPT !.ops[i].match = 0], i, mask, x87_clobber)

\* Registers are given to the operands with the least choice first.
asm_assign_oprands_presort(S) ==
  LET Choice(i) == Cardinality(S.ops[i].reg_constraint)
  IN  SetToSortSeq({i \in DOMAIN S.ops : S.ops[i].kind = "none" /\ S.ops[i].reg_constraint # {}},
                   LAMBDA i, j : Choice(i) < Choice(j) \/ (Choice(i) = Choice(j) /\ i < j))

AssignReg(S, i) ==
  LET free == Within(S.ops[i].reg_constraint \ asm_get_use(S, i, TRUE))
  IN  IF S.ops[i].kind = "none" /\ free # <<>> THEN asm_set_use(S, i, "REG", free[1]) ELSE S
AssignMem(S, i) ==
  LET free == Within(Range(Gp) \ asm_get_use(S, i, FALSE))
  IN  CASE S.ops[i].kind # "none" -> S
        [] S.ops[i].kind = "none" /\ S.ops[i].is_mem_inreg /\ free # <<>> -> asm_set_use(S, i, "MEM", free[1])
        [] OTHER -> [S EXCEPT !.ok = FALSE]
asm_assign_oprands(S) ==
  LET given == FoldLeft(AssignReg, S, asm_assign_oprands_presort(S))
  IN  FoldLeft(AssignMem, given, [i \in DOMAIN S.ops |-> i])

\* Temporaries of the frame: the address of an output or of memory, the value
\* of an input.  Counted is how many registers storing the outputs takes.
Outputs(S) == SelectSeq([i \in DOMAIN S.ops |-> i], LAMBDA i : ~S.ops[i].is_input)
Temp(ap) ==
  CASE has_memop(ap) -> "none"
    [] ~has_memop(ap) /\ (~ap.is_input \/ ap.kind = "MEM") -> "ptr"
    [] ~has_memop(ap) /\ ap.is_input /\ ap.kind = "REG" -> "var"
    [] OTHER -> "none"
Counted(S) ==
  LET far == SelectSeq(Outputs(S), LAMBDA i : Temp(S.ops[i]) = "ptr")
  IN  CASE far = <<>> -> 0
        [] far # <<>> /\ is_bitfield(S.ops[Last(far)]) -> 2
        [] OTHER -> 1
asm_prepare_args(S) == [S EXCEPT !.ops = [i \in DOMAIN @ |-> [@[i] EXCEPT !.temp = Temp(S.ops[i])]]]

\* Registers that hold the frame pointers during the body when it uses them,
\* and those that storing the outputs takes.
acquire_gp(used) == LET free == Within(Range(Gp) \ (used \cup {"bx", "bp"})) IN IF free = <<>> THEN Null ELSE free[1]
Keep(S, r) == [S EXCEPT !.ok = @ /\ r # Null, !.in = @ \cup {r}, !.out = @ \cup {r}]
Hold(S, p) ==
  LET r == acquire_gp(S.in \cup S.out)
  IN  IF p \in S.in \cup S.out THEN [Keep(S, r) EXCEPT !.alt[p] = r] ELSE S
acquire_out_tmp_In(S) ==  \* mutant: a frame pointer the body does not read is taken to be free
  CASE S.alt["bp"] # Null /\ "bp" \notin S.in -> "bp"
    [] ~(S.alt["bp"] # Null /\ "bp" \notin S.in) /\ S.alt["bx"] # Null /\ "bx" \notin S.in -> "bx"
    [] OTHER -> acquire_gp(S.out)
acquire_out_tmp(S) ==
  CASE S.alt["bp"] # Null /\ "bp" \notin S.out -> "bp"
    [] ~(S.alt["bp"] # Null /\ "bp" \notin S.out) /\ S.alt["bx"] # Null /\ "bx" \notin S.out -> "bx"
    [] OTHER -> acquire_gp(S.out)
OutTmp(S) ==
  LET r == acquire_out_tmp(S)
  IN  [S EXCEPT !.ok = @ /\ r # Null, !.out = @ \cup {r}, !.tmps = <<r>> \o @]
asm_prepare_regs_Asked(S) ==  \* mutant: saved are the registers of operands and clobbers alone
  LET held == Hold(Hold(S, "bp"), "bx")
      done == CASE Counted(S) = 2 -> OutTmp(OutTmp(held)) [] Counted(S) = 1 -> OutTmp(held) [] OTHER -> held
  IN  [done EXCEPT !.mask = Saved \cap (S.in \cup S.out)]
asm_prepare_regs(S) ==
  LET held == Hold(Hold(S, "bp"), "bx")
      done == CASE Counted(S) = 2 -> OutTmp(OutTmp(held)) [] Counted(S) = 1 -> OutTmp(held) [] OTHER -> held
  IN  [done EXCEPT !.mask = Saved \cap (done.in \cup done.out)]

\* The parameters, without what is known of them.
asm_fill_ops(params) ==
  [i \in DOMAIN params |->
     params[i] @@ [kind |-> "none", reg |-> Null, match |-> 0, reg_constraint |-> {}, named |-> Null,
                   is_mem_inreg |-> FALSE, is_clobbered_x87 |-> FALSE, temp |-> "none"]]
x87_clobber(clobbers) == Max({0} \cup {x87_at(r) : r \in clobbers \cap Range(X87)})
asm_prepare_clobbers(params, clobbers) ==
  [ops |-> asm_fill_ops(params), in |-> clobbers \ Range(X87), out |-> clobbers \ Range(X87), ok |-> TRUE,
   alt |-> [p \in {"bp", "bx"} |-> Null], tmps |-> <<>>, mask |-> {}]

prepare_inline_asm(params, clobbers) ==
  LET S == asm_prepare_clobbers(params, clobbers)
      inputs == SelectSeq([i \in DOMAIN params |-> i], LAMBDA i : params[i].is_input)
      read == FoldLeft(LAMBDA T, i : asm_constraint(T, i, x87_clobber(clobbers)), S, inputs)
      all == FoldLeft(LAMBDA T, i : asm_constraint(T, i, 0), read, Outputs(S))
  IN  asm_prepare_regs(asm_prepare_args(asm_assign_oprands(all)))

-----------------------------------------------------------------------------
(* The code.  It reads and writes M, in which a register or an object      *)
(* holds one of these.                                                     *)
Arg(i) == <<"arg", i>>    \* the value of an operand before the body
New(i) == <<"new", i>>    \* the value the body gives it
Addr(i) == <<"addr", i>>
Unit(i) == <<"unit", i>>  \* the bytes a bit-field lies in, with what else they hold
Old(r) == <<"old", r>>    \* what a register held before the statement
Junk == <<"junk", 0>>
Ops == DOMAIN made.ops
Tmp(k) == IF k \in DOMAIN made.tmps THEN made.tmps[k] ELSE Null
Start == [r |-> [r \in Regs \cup {Null} |-> Old(r)], st |-> <<>>, pushed |-> [r \in {} |-> Junk],
          temp |-> [i \in Ops |-> Junk], obj |-> [i \in Ops |-> Arg(i)], using |-> [p \in {"bp", "bx"} |-> Null],
          dest |-> FALSE]

\* A variable is found from a frame pointer, or from the register that stands
\* for it meanwhile.
alt_ptr(M, p) == IF M.using[p] # Null THEN M.using[p] ELSE p
Found(M, p) == M.r[alt_ptr(M, p)] = Old(p)
Direct(M, ap) == CASE ap.arg = "local" -> Found(M, stmt.lvar_ptr)
                   [] ap.arg = "param" -> Found(M, "bp")
                   [] OTHER -> TRUE
Recall(M, i) == IF Found(M, stmt.lvar_ptr) THEN M.temp[i] ELSE Junk
SetReg(M, r, v) == [M EXCEPT !.r[r] = v]

\* After it an operand can be accessed, or not.
asm_gen_ptr(M, i, tmp) == IF made.ops[i].temp = "ptr" THEN SetReg(M, tmp, Recall(M, i)) ELSE M
Accessible(M, i, tmp) ==
  LET ap == made.ops[i]
  IN  CASE has_memop(ap) -> Direct(M, ap)
        [] ~has_memop(ap) /\ ap.temp = "ptr" -> tmp # Null /\ M.r[tmp] = Addr(i)
        [] OTHER -> Found(M, stmt.lvar_ptr)
Fetched(M, i, tmp) ==
  LET ap == made.ops[i]
  IN  CASE ~Accessible(M, i, tmp) -> Junk
        [] Accessible(M, i, tmp) /\ ap.temp = "var" -> M.temp[i]
        [] Accessible(M, i, tmp) /\ ap.temp = "ptr" /\ is_bitfield(ap) -> Unit(i)
        [] OTHER -> M.obj[i]
asm_reg_input(M, i, tmp) ==
  LET L == asm_gen_ptr(M, i, tmp)
      v == Fetched(L, i, tmp)
  IN  IF is_x87_reg(made.ops[i].reg) THEN [L EXCEPT !.st = <<v>> \o @] ELSE SetReg(L, made.ops[i].reg, v)
\* What is stored through the address of a bit-field replaces its neighbours.
Store(M, i, tmp, v) ==
  LET L == asm_gen_ptr(M, i, tmp)
  IN  IF Accessible(L, i, tmp) THEN [L EXCEPT !.obj[i] = IF is_bitfield(made.ops[i]) THEN Unit(i) ELSE v] ELSE L

asm_gen_operands(M) ==
  [M EXCEPT !.temp = [i \in Ops |-> IF made.ops[i].temp = "ptr" THEN Addr(i) ELSE Arg(i)]]

get_input_reg(ap) == IF ap.kind = "REG" /\ (ap.is_input \/ ap.plus) THEN ap.reg ELSE Null
Inputs(regs) == SelectSeq([i \in Ops |-> i], LAMBDA i : get_input_reg(made.ops[i]) \in Range(regs))
Backwards(is) == SortSeq(is, LAMBDA i, j : x87_at(made.ops[i].reg) > x87_at(made.ops[j].reg))
asm_x87_inputs(M) == FoldLeft(LAMBDA L, i : asm_reg_input(L, i, "dx"), M, Backwards(Inputs(X87)))
Deep == Len(SelectSeq(Inputs(X87), LAMBDA i : ~made.ops[i].is_clobbered_x87))
asm_xmm_inputs(M) == FoldLeft(LAMBDA L, i : asm_reg_input(L, i, "dx"), M, Inputs(Xmm))

push_from(M, r) == [M EXCEPT !.pushed = (r :> M.r[r]) @@ @]
pop(M, r) == SetReg(M, r, IF Found(M, stmt.lvar_ptr) THEN M.pushed[r] ELSE Junk)
Each(Do(_, _), M, set) == FoldLeft(Do, M, Within(set))
asm_push_clobbers(M) == Each(push_from, M, made.mask)
asm_pop_clobbers(M) == Each(pop, M, made.mask)

Held == {p \in {"bp", "bx"} : made.alt[p] # Null}
asm_push_frame_ptr(M) ==
  LET moved == Each(LAMBDA L, p : SetReg(L, made.alt[p], L.r[p]), M, Held)
  IN  Each(push_from, [moved EXCEPT !.using = made.alt], Held)
asm_pop_frame_ptr(M) ==
  [Each(pop, M, Held) EXCEPT !.using = [p \in {"bp", "bx"} |-> Null]]

GpInput(M, i) ==
  LET ap == made.ops[i]
      L == IF ap.kind = "MEM" /\ ap.reg # Null THEN SetReg(M, ap.reg, Recall(M, i)) ELSE M
  IN  IF is_gp_reg(get_input_reg(ap)) THEN asm_reg_input(L, i, ap.reg) ELSE L
asm_gp_inputs(M) == FoldLeft(GpInput, M, [i \in Ops |-> i])

\* The body finds its operands where its text names them.  It takes the x87
\* inputs that are clobbered off the stack; outputs lie at the top of it.
InMemory(M, i) == IF has_memop(made.ops[i]) THEN Direct(M, made.ops[i]) ELSE M.r[made.ops[i].reg] = Addr(i)
OutRegs(i) == IF ~made.ops[i].is_input /\ made.ops[i].kind = "REG" THEN {made.ops[i].reg} ELSE {}
OutAt(r) == {i \in Ops : r \in OutRegs(i)}
OutSt == (UNION {OutRegs(i) : i \in Ops}) \cap Range(X87)
asm_body(M, jumps) ==
  LET kept == SubSeq(M.st, Len(M.st) - Deep + 1, Len(M.st))
      depth == Max({Deep, Cardinality(OutSt)})
  IN  [M EXCEPT !.r = [r \in DOMAIN @ |-> CASE OutAt(r) # {} -> New(Max(OutAt(r)))
                                            [] OutAt(r) = {} /\ r \in stmt.clobbers -> Junk
                                            [] OTHER -> @[r]],
                !.st = [k \in 1..depth |-> IF OutAt(X87[k]) # {} THEN New(Max(OutAt(X87[k]))) ELSE kept[k]],
                !.obj = [i \in Ops |-> IF ~made.ops[i].is_input /\ made.ops[i].kind = "MEM" /\ InMemory(M, i)
                                      THEN New(i) ELSE @[i]],
                !.dest = jumps]

Results(Has(_)) == SelectSeq([i \in Ops |-> i], LAMBDA i : ~made.ops[i].is_input /\ Has(made.ops[i]))
asm_save_out_flags(M) ==
  FoldLeft(LAMBDA L, i : Store(L, i, Tmp(1), New(i)), M, Results(LAMBDA ap : ap.kind = "FLAG"))

PopSt(M, k) ==
  LET at == OutAt(X87[k])
      popped == [M EXCEPT !.st = Tail(@)]
  IN  IF at # {} THEN Store(popped, Max(at), Tmp(1), Head(M.st)) ELSE popped
asm_save_out_x87(M) ==
  FoldLeft(PopSt, M, [k \in 1..Max({Deep, Cardinality(OutSt)}) |-> k])

asm_save_out_bitfield(M, i) ==
  LET L == SetReg(M, Tmp(2), Recall(M, i))
      there == Tmp(1) # Null /\ Tmp(2) # Null /\ L.r[Tmp(2)] = Addr(i)
  IN  SetReg(IF there THEN [L EXCEPT !.obj[i] = L.r[made.ops[i].reg]] ELSE L, Tmp(1), Junk)
SaveReg(M, i) ==
  IF is_bitfield(made.ops[i]) THEN asm_save_out_bitfield(M, i) ELSE Store(M, i, Tmp(1), M.r[made.ops[i].reg])
asm_save_out(M) ==
  FoldLeft(SaveReg, M, Results(LAMBDA ap : ap.kind = "REG" /\ ~is_x87_reg(ap.reg)))

\* With outputs, where the body leaves to is kept until they are stored.
HasOutputs == \E i \in Ops : ~made.ops[i].is_input
KeepDest(M) == IF stmt.labels /\ HasOutputs
               THEN [SetReg(M, Tmp(1), Junk) EXCEPT !.dest = @ /\ Tmp(1) # Null] ELSE M

-----------------------------------------------------------------------------
(* Statements, and the steps of one.  An operand is the letters of its     *)
(* constraint with what precedes them, the operand whose number it gives   *)
(* (or 0), the kind of its argument, and the register the argument is      *)
(* declared for (or Null).                                                 *)
Init ==
  /\ \E mix \in DOMAIN Mixes : stmt = [mix |-> mix, params |-> <<>>, clobbers |-> {}, labels |-> FALSE, lvar_ptr |-> "bp"]
  /\ made = <<>> /\ m = <<>> /\ jumped = FALSE /\ phase = "write"

Count(is_input) == Len(SelectSeq(stmt.params, LAMBDA p : p.is_input = is_input))
AddParam ==
  /\ phase = "write" /\ Len(stmt.params) < Mixes[stmt.mix].max
  /\ \/ Count(TRUE) = 0 /\ \E p \in Mixes[stmt.mix].outs : stmt' = [stmt EXCEPT !.params = Append(@, p)]
     \/ \E p \in Mixes[stmt.mix].ins :
          /\ p.number <= Count(FALSE)
          /\ stmt' = [stmt EXCEPT !.params = Append(@, [p EXCEPT !.is_input = TRUE])]
  /\ UNCHANGED <<made, m, jumped, phase>>

\* Places on the x87 stack are used from its top, and clobbered all or none.
Tops(is_input, letter) == \E i \in DOMAIN stmt.params :
                            (stmt.params[i].is_input = is_input \/ stmt.params[i].plus) /\ letter \in stmt.params[i].letters
Legal(clobbers) ==
  /\ \A is_input \in BOOLEAN : Tops(is_input, "u") => Tops(is_input, "t")
  /\ clobbers \cap Range(X87) # {} => ~Tops(TRUE, "f")
Prepare ==
  /\ phase = "write" /\ stmt.params # <<>>
  /\ \E clobbers \in Mixes[stmt.mix].clobbers, labels \in Mixes[stmt.mix].labels, lvar_ptr \in {"bp", "bx"} :
       /\ Legal(clobbers)
       /\ stmt' = [stmt EXCEPT !.clobbers = clobbers, !.labels = labels, !.lvar_ptr = lvar_ptr]
       /\ made' = prepare_inline_asm(stmt.params, clobbers)
       /\ phase' = IF made'.ok THEN "prepared" ELSE "rejected"
  /\ UNCHANGED <<m, jumped>>

\* gen_asm, to the body; the body; and from there.
Enter ==
  /\ phase = "prepared" /\ phase' = "body"
  /\ m' = asm_gp_inputs(asm_push_frame_ptr(asm_push_clobbers(
             asm_xmm_inputs(asm_x87_inputs(asm_gen_operands(Start))))))
  /\ UNCHANGED <<stmt, made, jumped>>
Body ==
  /\ phase = "body" /\ phase' = "left"
  /\ \E jumps \in {FALSE, stmt.labels} : jumped' = jumps /\ m' = asm_body(m, jumps)
  /\ UNCHANGED <<stmt, made>>
Leave ==
  /\ phase = "left" /\ phase' = "ended"
  /\ m' = IF jumped /\ ~HasOutputs THEN m
          ELSE asm_pop_clobbers(asm_pop_frame_ptr(
                 asm_save_out(asm_save_out_x87(asm_save_out_flags(KeepDest(m))))))
  /\ UNCHANGED <<stmt, made, jumped>>

Next == AddParam \/ Prepare \/ Enter \/ Body \/ Leave
Spec == Init /\ [][Next]_vars

-----------------------------------------------------------------------------
(* Properties.                                                             *)

\* What the code does wrong whatever the registers: a jump out of the body
\* without outputs skips the restoring; with outputs that all lie in memory it
\* has no register; bit-fields are read and set with their neighbours, or
\* lack a register when another output follows.
Faults ==
  LET Has(P(_)) == \E i \in Ops : P(made.ops[i])
  IN  {f \in {"goto-restore", "goto-tmp", "field-tmp", "plus-field", "flag-field"} :
         CASE f = "goto-restore" -> stmt.labels /\ ~HasOutputs /\ (Held # {} \/ made.mask # {})
           [] f = "goto-tmp" -> stmt.labels /\ HasOutputs /\ made.tmps = <<>>
           [] f = "field-tmp" -> Len(made.tmps) < 2 /\ Has(LAMBDA ap : is_bitfield(ap) /\ ~ap.is_input /\ ap.kind = "REG")
           [] f = "plus-field" -> Has(LAMBDA ap : is_bitfield(ap) /\ ap.plus)
           [] OTHER -> Has(LAMBDA ap : is_bitfield(ap) /\ ap.flag)}
Sound == Faults \cap KnownFaults = {}

\* When the body starts, each operand it reads is in the place its text names,
\* no load having overwritten another; each output has a place of its own, an
\* early one apart from what is still read; and no place is clobbered
\* (codegen.c:4006 asm_get_use, 4193 asm_assign_oprands).
OperandsArrive ==
  phase = "body" /\ Sound =>
    /\ \A i \in Ops :
         LET ap == made.ops[i]
         IN  /\ ap.kind = "REG" => ap.reg \notin stmt.clobbers \ Range(X87)
             /\ ap.kind = "REG" /\ (ap.is_input \/ ap.plus) =>
                  Arg(i) = (IF is_x87_reg(ap.reg) THEN m.st[x87_at(ap.reg)] ELSE m.r[ap.reg])
             /\ ap.kind = "MEM" => InMemory(m, i)
    /\ \A i, j \in Ops :
         LET to == made.ops[i]
             other == made.ops[j]
         IN  i # j /\ OutRegs(i) # {} /\ to.reg = other.reg =>
               /\ other.is_input
               /\ ~to.early \/ other.number = i
    /\ Len(m.st) = Len(Inputs(X87))

\* Afterwards every output object has the value the body gave its operand, and
\* execution goes on where the body left to (codegen.c:4284 acquire_out_tmp,
\* 4487 asm_save_out_x87, 4762 gen_asm).
ResultsArrive ==
  phase = "ended" /\ Sound =>
    /\ m.dest = jumped
    /\ \A i \in Ops : ~made.ops[i].is_input /\ ~(jumped /\ ~HasOutputs) => m.obj[i] = New(i)

\* The frame pointers and the registers of the caller are what they were, and
\* the x87 stack is empty (codegen.c:4718 asm_push_clobbers, 4731
\* asm_push_frame_ptr).
RegistersKept ==
  phase = "ended" /\ Sound => m.st = <<>> /\ \A r \in Saved \cup {"bx", "bp"} : m.r[r] = Old(r)
=============================================================================
