----------------------------- MODULE DeferFlow -----------------------------
(* Leaving scopes that hold defer statements, variables with a cleanup        *)
(* function and variable-length arrays (VLAs): the chain fnctx->defr kept    *)
(* while a function is parsed, the parts of it that every jump and every end *)
(* of a block is told to run (dfr_from, dfr_dest), and the code gen_defr      *)
(* makes of them.                                                            *)
(*                                                                            *)
(* Parsing chooses the next statement freely, so that every function of up   *)
(* to MaxStatements statements is parsed; if it is accepted, its code runs.  *)
(* The bodies of defer statements are not looked into: they may not contain  *)
(* jumps out of them.                                                        *)
EXTENDS Integers, Sequences, FiniteSets, SequencesExt

CONSTANTS Mixes,         \* sets of kinds of statement: a function keeps to one of them
          MaxStatements  \* how many statements it has (the bound of a run)

VARIABLES
  defr,    \* fnctx->defr: the chain of what is to be undone, newest last
  open,    \* the statements and blocks being parsed, innermost last
  code,    \* the instructions of the function
  used,    \* the kinds of statement parsed
  count,   \* the statements parsed, which also numbers them
  phase,   \* "parse", then "run" and "done", or "rejected"
  pc,      \* the next instruction
  pending, \* what was reached and has not been undone since, newest last
  rsp,     \* the VLA whose space the stack pointer is at, or 0
  fault    \* something was undone that was not the newest pending

vars == <<defr, open, code, used, count, phase, pc, pending, rsp, fault>>
running == <<pc, pending, rsp, fault>>

Controls == {"if", "else", "for", "do", "switch"}
Jumps == {"for", "do", "switch"}

----------------------------------------------------------------------------
(* Instructions.  chain is the chain where the instruction stands; from and  *)
(* dest delimit what it undoes; to is the label it goes to, if any.          *)
Instr(op, from, dest, to) == [op |-> op, chain |-> defr, from |-> from, dest |-> dest, to |-> to]
Plain(op, to) == Instr(op, defr, defr, to)
Undo(from, dest) == [op |-> "undo", chain |-> from, from |-> from, dest |-> dest, to |-> <<>>]
Label(l, chain) == [op |-> "label", chain |-> chain, from |-> chain, dest |-> chain, to |-> l]

Positions(l) == {i \in 1..Len(code) : code[i].op = "label" /\ code[i].to = l}
Position(l) == CHOOSE i \in Positions(l) : TRUE

TypeOfDefr == [id : Nat, kind : {"fn", "vla"}]

(* A construct being parsed: outer is the chain before its scope, and lvl    *)
(* that of its jump context, which has the variables of the condition.       *)
Construct(kind, n) == [kind |-> kind, id |-> n, outer |-> defr, lvl |-> defr,
                       first |-> "none", last |-> "none"]
Top == Last(open)
(* An unbraced body is complete after one statement.                         *)
Full == Top.kind = "single" /\ Top.first # "none" /\ Top.last # "label"

Seen(c, node) == [c EXCEPT !.first = IF @ = "none" THEN node ELSE @, !.last = node]
Within(stack, node) == Append(Front(stack), Seen(Last(stack), node))

Init ==
  /\ defr = <<>>
  /\ open = << [kind |-> "block", id |-> 0, outer |-> <<>>, lvl |-> <<>>,
                first |-> "none", last |-> "none"] >>
  /\ code = <<>> /\ used = {} /\ count = 0 /\ phase = "parse"
  /\ pc = 1 /\ pending = <<>> /\ rsp = 0 /\ fault = FALSE

Allowed(kinds) ==
  /\ count < MaxStatements /\ count' = count + 1
  /\ used' = used \cup kinds /\ \E mix \in Mixes : used' \subseteq mix

(* A statement of these kinds may come next.                                 *)
Parsing(kinds) ==
  /\ phase = "parse" /\ open # <<>> /\ Top.kind \in {"block", "single"} /\ ~Full
  /\ Allowed(kinds)
Emit(is) == code' = code \o is

Reject == phase' = "rejected" /\ UNCHANGED <<defr, open, code, running>>

(* new_defr, for a defer statement, a cleanup variable without initialiser   *)
(* (which leaves no node) and a VLA.                                         *)
new_defr(kind) == Append(defr, [id |-> count', kind |-> kind])

Defer ==
  /\ Parsing({"defer"})
  /\ defr' = new_defr("fn")
  /\ Emit(<<Plain("defer", <<count'>>)>>) /\ open' = Within(open, "null")
  /\ UNCHANGED <<phase, running>>

Cleanup ==
  /\ Parsing({"cleanup"}) /\ Top.kind = "block"
  /\ defr' = new_defr("fn")
  /\ Emit(<<Plain("defer", <<count'>>)>>) /\ UNCHANGED open
  /\ UNCHANGED <<phase, running>>

Vla ==
  /\ Parsing({"vla"}) /\ Top.kind = "block"
  /\ defr' = new_defr("vla")
  /\ Emit(<<Plain("vla", <<count'>>)>>) /\ open' = Within(open, "expr")
  /\ UNCHANGED <<phase, running>>

(* label_stmt: a named label, of which the function has one.                 *)
LabelStmt ==
  /\ Parsing({"label"}) /\ Positions(<<"L">>) = {}
  /\ Emit(<<Label(<<"L">>, defr)>>) /\ open' = Within(open, "label")
  /\ UNCHANGED <<defr, phase, running>>

(* resolve_gotos fills in what a goto undoes.                                *)
Goto ==
  /\ Parsing({"goto"})
  /\ Emit(<<Instr("goto", defr, <<>>, <<"L">>)>>) /\ open' = Within(open, "goto")
  /\ UNCHANGED <<defr, phase, running>>

(* The address of a label, &&L, is listed with the gotos; its dfr_from is    *)
(* never set.                                                                *)
LabelValue ==
  /\ Parsing({"&&"})
  /\ Emit(<<Instr("&&", <<>>, <<>>, <<"L">>)>>) /\ open' = Within(open, "expr")
  /\ UNCHANGED <<defr, phase, running>>

Return ==
  /\ Parsing({"return"})
  /\ Emit(<<Instr("jump", defr, <<>>, <<"rtn">>)>>) /\ open' = Within(open, "return")
  /\ UNCHANGED <<defr, phase, running>>

(* resolve_labeled_jump without a label: the innermost loop, or switch.      *)
Contexts(kinds) == {i \in 1..Len(open) : open[i].kind \in kinds}
Innermost(kinds) == open[CHOOSE i \in Contexts(kinds) : \A j \in Contexts(kinds) : j <= i]

JumpTo(kind, kinds, label) ==
  /\ Parsing({kind}) /\ Contexts(kinds) # {}
  /\ Emit(<<Instr("jump", defr, Innermost(kinds).lvl, <<label, Innermost(kinds).id>>)>>)
  /\ open' = Within(open, kind)
  /\ UNCHANGED <<defr, phase, running>>
Break == JumpTo("break", Jumps, "brk")
Continue == JumpTo("continue", {"for", "do"}, "cont")

CaseStmt_Unchecked ==  \* mutant: a case may be anywhere in its switch
  /\ Parsing({"case"}) /\ Contexts({"switch"}) # {}
  /\ Emit(<<Label(<<"case", Innermost({"switch"}).id>>, defr)>>)
  /\ open' = Within(open, "label")
  /\ UNCHANGED <<defr, phase, running>>

(* A case is checked against the innermost jump context, whichever it is.    *)
CaseStmt ==
  /\ Parsing({"case"}) /\ Contexts({"switch"}) # {}
  /\ IF Innermost(Jumps).lvl # defr THEN Reject
     ELSE /\ Emit(<<Label(<<"case", Innermost({"switch"}).id>>, defr)>>)
          /\ open' = Within(open, "label")
          /\ UNCHANGED <<defr, phase, running>>

----------------------------------------------------------------------------
(* Statements with a body, which is a block or an unbraced statement.  The    *)
(* condition may declare a variable with a cleanup function, which is new in *)
(* every round of a loop.                                                    *)
Bodies == {"block", "single"}

Block ==
  /\ Parsing({"block"})
  /\ open' = Append(open, Construct("block", count'))
  /\ UNCHANGED <<defr, code, phase, running>>

(* before is what comes before the condition, and op tests it.               *)
Statement(kind, before, op, bodies) ==
  /\ \E declares \in BOOLEAN, body \in bodies :
       /\ Parsing(IF declares THEN {kind, "cleanup"} ELSE {kind})
       /\ defr' = IF declares THEN new_defr("fn") ELSE defr
       /\ Emit(before \o (IF declares THEN <<Plain("defer", <<count'>>)>> ELSE <<>>)
               \o << [op |-> op, chain |-> defr', from |-> defr', dest |-> defr', to |-> <<"brk", count'>>] >>)
       /\ open' = open \o << [Construct(kind, count') EXCEPT !.lvl = defr'],
                             [Construct(body, 0) EXCEPT !.outer = defr'] >>
  /\ UNCHANGED <<phase, running>>

If == Statement("if", <<>>, "branch", Bodies)
For == Statement("for", <<Label(<<"bg", count'>>, defr)>>, "branch", Bodies)
Switch == Statement("switch", <<>>, "dispatch", {"block"})

Do ==
  /\ Parsing({"do"}) /\ UNCHANGED defr
  /\ Emit(<<Label(<<"bg", count'>>, defr)>>)
  /\ \E body \in Bodies : open' = open \o <<Construct("do", count'), Construct(body, 0)>>
  /\ UNCHANGED <<phase, running>>

----------------------------------------------------------------------------
(* The end of a body.  A block whose last node, or an unbraced body whose     *)
(* first node, is a return or a goto has nothing to undo at its end.         *)
LeavesEarly_First(c) == c.first \in {"return", "goto"}  \* mutant
LeavesEarly(c) == (IF c.kind = "block" THEN c.last ELSE c.first) \in {"return", "goto"}
EndChain(c) == IF LeavesEarly(c) THEN c.outer ELSE defr
Bodied == phase = "parse" /\ open # <<>> /\ (Top.kind = "block" \/ Full)
Around == IF Len(open) > 1 THEN open[Len(open) - 1] ELSE [kind |-> "function"]

(* What follows the body of the statement around it: the end of a round, and *)
(* leave_stmt_scope.                                                         *)
Round(c) ==
  CASE c.kind = "for" -> <<Label(<<"cont", c.id>>, c.lvl), Undo(c.lvl, c.outer),
                           [Plain("go", <<"bg", c.id>>) EXCEPT !.chain = c.outer]>>
    [] c.kind = "do"  -> <<Label(<<"cont", c.id>>, c.lvl),
                           [Plain("branch", <<"bg", c.id>>) EXCEPT !.chain = c.lvl]>>
    [] OTHER          -> <<>>

CloseBody ==
  /\ Bodied
  /\ LET outer == Front(open)
         ended == <<Undo(EndChain(Top), Top.outer)>>
         c == Around
     IN  IF c.kind \in Controls
         THEN /\ Emit(ended \o Round(c) \o <<Label(<<"brk", c.id>>, c.lvl), Undo(c.lvl, c.outer)>>)
              /\ defr' = c.outer
              /\ open' = Within(Front(outer), IF c.lvl = c.outer THEN c.kind ELSE "block")
         ELSE /\ Emit(ended)
              /\ defr' = Top.outer
              /\ open' = IF outer = <<>> THEN <<>> ELSE Within(outer, "block")
  /\ UNCHANGED <<used, count, phase, running>>

(* The other branch of an if: the first one ends by going past it.           *)
Else ==
  /\ Bodied /\ Around.kind = "if" /\ Allowed({"else"})
  /\ LET c == Around
         then == Undo(EndChain(Top), Top.outer)
         past == [Plain("go", <<"brk", count'>>) EXCEPT !.chain = c.lvl]
     IN  /\ Emit(<<then, past, Label(<<"brk", c.id>>, c.lvl)>>)
         /\ defr' = c.lvl
         /\ \E body \in Bodies :
              open' = SubSeq(open, 1, Len(open) - 2)
                      \o << [c EXCEPT !.kind = "else", !.id = count'],
                            [Construct(body, 0) EXCEPT !.outer = c.lvl] >>
  /\ UNCHANGED <<phase, running>>

(* resolve_gotos: a goto undoes the chain down to that of the label, which   *)
(* must be part of its own.                                                  *)
Legal(i) == Positions(code[i].to) # {} /\ IsPrefix(code[Position(code[i].to)].chain, code[i].from)

EndFunction ==
  /\ phase = "parse" /\ open = <<>>
  /\ LET gotos == {i \in 1..Len(code) : code[i].op \in {"goto", "&&"}}
     IN  IF \A i \in gotos : Legal(i)
         THEN /\ code' = [i \in 1..Len(code) |->
                            IF i \in gotos THEN [code[i] EXCEPT !.dest = code[Position(code[i].to)].chain]
                            ELSE code[i]]
              /\ phase' = "run"
         ELSE phase' = "rejected" /\ UNCHANGED code
  /\ UNCHANGED <<defr, open, used, count, running>>

Simple == Defer \/ Cleanup \/ Vla \/ LabelStmt \/ Goto \/ LabelValue \/ Return \/ Break \/ Continue \/ CaseStmt
Nested == Block \/ If \/ Else \/ For \/ Do \/ Switch
Parse == Simple \/ Nested \/ CloseBody \/ EndFunction

----------------------------------------------------------------------------
(* gen_defr: a run of VLAs is released at once, by going back to the VLA     *)
(* that was there before.                                                    *)
Newest(chain) ==
  LET vlas == {i \in 1..Len(chain) : chain[i].kind = "vla"}
  IN  IF vlas = {} THEN 0 ELSE chain[CHOOSE i \in vlas : \A j \in vlas : j <= i].id

Undone(i) == SubSeq(i.from, Len(i.dest) + 1, Len(i.from))
(* Mutant: the stack pointer goes back to the VLA that is released.          *)
Released_Itself(i) == IF Len(Undone(i)) = 0 THEN rsp ELSE Newest(i.from)

dealloc_vla == \A i \in 1..Len(code) : code[i].op # "&&"
Released(i) ==
  LET vlas == {k \in (Len(i.dest) + 1)..Len(i.from) : i.from[k].kind = "vla"}
  IN  IF vlas = {} \/ ~dealloc_vla THEN rsp
      ELSE Newest(SubSeq(i.from, 1, (CHOOSE k \in vlas : \A j \in vlas : k <= j) - 1))

(* Undoing is right when what is undone is what is pending, newest first.    *)
gen_defr(i) ==
  LET n == Len(pending) - Len(Undone(i))
  IN  /\ fault' = (fault \/ n < 0 \/ SubSeq(pending, n + 1, Len(pending)) # Undone(i))
      /\ pending' = SubSeq(pending, 1, n)
      /\ rsp' = Released(i)

Now == code[pc]
At(ops) == phase = "run" /\ pc <= Len(code) /\ Now.op \in ops
Unmoved == UNCHANGED <<defr, open, code, used, count, phase>>

Pass == At({"label", "&&"}) /\ pc' = pc + 1 /\ Unmoved /\ UNCHANGED <<pending, rsp, fault>>

Reach ==
  /\ At({"defer", "vla"}) /\ pc' = pc + 1
  /\ pending' = Append(pending, [id |-> Now.to[1], kind |-> IF Now.op = "vla" THEN "vla" ELSE "fn"])
  /\ rsp' = IF Now.op = "vla" THEN Now.to[1] ELSE rsp
  /\ Unmoved /\ UNCHANGED fault

RunUndo == At({"undo"}) /\ gen_defr(Now) /\ pc' = pc + 1 /\ Unmoved

RunJump ==
  /\ At({"goto", "jump", "go"}) /\ gen_defr(Now)
  /\ pc' = IF Now.to = <<"rtn">> THEN Len(code) + 1 ELSE Position(Now.to)
  /\ Unmoved

Branch ==
  /\ At({"branch"}) /\ pc' \in {pc + 1, Position(Now.to)}
  /\ Unmoved /\ UNCHANGED <<pending, rsp, fault>>

Dispatch ==
  /\ At({"dispatch"})
  /\ pc' \in {Position(Now.to)} \cup Positions(<<"case", Now.to[2]>>)
  /\ Unmoved /\ UNCHANGED <<pending, rsp, fault>>

Leave == phase = "run" /\ pc > Len(code) /\ phase' = "done" /\ UNCHANGED <<defr, open, code, used, count, running>>

Run == Pass \/ Reach \/ RunUndo \/ RunJump \/ Branch \/ Dispatch \/ Leave
Next == Parse \/ Run
Spec == Init /\ [][Next]_vars

----------------------------------------------------------------------------
(* The chain the parser had at an instruction is what is pending when the    *)
(* instruction is reached, whatever way leads there, and nothing is pending  *)
(* when the function returns; so each exit from a scope undoes, newest       *)
(* first, exactly what was reached in it.                                    *)
ChainIsPending ==
  /\ ~fault
  /\ phase = "run" /\ pc <= Len(code) => pending = Now.chain
  /\ phase = "done" => pending = <<>>

(* The stack pointer is where the newest VLA still in scope put it: no VLA   *)
(* in scope is released, none out of scope is kept.                          *)
StackFollowsVlas == phase = "run" /\ dealloc_vla => rsp = Newest(pending)
=============================================================================
