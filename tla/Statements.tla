----------------------------- MODULE Statements -----------------------------
(***************************************************************************)
(* What becomes of statements.  The parser builds their tree and notes     *)
(* which scopes hold a label; the code generator leaves out what it takes  *)
(* for unreachable, makes comparisons of a switch, and blanks jumps to     *)
(* what follows them.  The code then runs in step with code that leaves    *)
(* nothing out (Plain), under the same outcomes of the conditions.         *)
(*                                                                         *)
(* A label stands for a statement with an effect that it labels.  What a   *)
(* goto undoes, and variables of conditions, are in DeferFlow.             *)
(***************************************************************************)
EXTENDS CInt, Sequences, FiniteSets, SequencesExt

CONSTANTS Mixes,        \* pairs: the kinds of statement, condition, type and body that a
                        \* function keeps to, and how many statements it may have
          SwitchTypes,  \* types of controlling expressions
          Ranges,       \* pairs of constants tried in the labels of a switch
          MaxRanges     \* how many of them a switch has

VARIABLES
  open,        \* the scopes being parsed, innermost last
  used, count, \* the kinds of statement parsed, and how many
  phase,       \* "parse", then "run", or "rejected"
  code,        \* the instructions made of the function
  plain,       \* those that leave nothing out
  at, ref      \* where each stands, and the effect it has there

vars == <<open, used, count, phase, code, plain, at, ref>>
running == <<code, plain, at, ref>>

----------------------------------------------------------------------------
(* Instructions, and the labels jumps go to.                               *)
Effect(op, id) == [op |-> op, id |-> id]
Label(l) == [op |-> "label", to |-> l]
Jmp(l) == [op |-> "jmp", to |-> l]
Blank == [op |-> "blank"]
Undo(ids) == [i \in DOMAIN ids |-> Effect("undo", ids[i])]
NoNode == [k |-> "none"]

(* A condition that is known is decided here, another one tested.          *)
gen_cond(cond, want, id, l) ==
  CASE cond = "free" -> <<[op |-> IF want THEN "jnz" ELSE "jz", id |-> id, to |-> l]>>
    [] cond # "free" /\ (cond = "true") = want -> <<Jmp(l)>>
    [] OTHER -> <<>>

(* The value, less sub, is compared as an unsigned number of the register. *)
RegBits(ty) == IF size(ty) = 8 THEN Bits[8] ELSE Bits[4]
Within(sub, lo, hi, bits, l) == [op |-> "in", sub |-> sub, lo |-> lo, hi |-> hi, bits |-> bits, to |-> l]
CompareRange(ty, cr, l) ==
  LET n == RegBits(ty)
  IN  CASE cr.hi = cr.lo -> Within(0, Low(cr.lo, n), Low(cr.lo, n), n, l)
        [] cr.hi # cr.lo /\ cr.lo = 0 -> Within(0, 0, Low(cr.hi, n), n, l)
        [] OTHER -> Within(cr.lo, 0, Low(cr.hi - cr.lo, n), n, l)

Brk(n) == <<"brk", n.id>>
Case(n, label) == <<"case", n.id, label>>
Compared(n, cases) == SelectSeq(cases, LAMBDA cr : cr.label # n.default)
Comparisons(n) ==
  LET cases == Compared(n, n.cases)
  IN  [i \in DOMAIN cases |-> CompareRange(n.ty, cases[i], Case(n, cases[i].label))]
Dispatch(n, comparisons) ==
  <<[op |-> "switch", id |-> n.id, ty |-> n.ty]>> \o comparisons
  \o <<Jmp(IF n.default = 0 THEN Brk(n) ELSE Case(n, n.default))>>

----------------------------------------------------------------------------
(* The code generator.  A generator that watches for unreachable code      *)
(* answers with its code whether the end of it can be reached.             *)
Made(is, reach) == [code |-> is, reach |-> reach]

RECURSIVE gen_stmt(_), gen_reachable_stmt(_), gen_unreachable_stmt(_)

gen_block_stmt(n, is_reach) ==
  LET upto[i \in 0..Len(n.body)] ==
        IF i = 0 THEN Made(<<>>, is_reach)
        ELSE LET before == upto[i - 1]
                 m == IF before.reach THEN gen_reachable_stmt(n.body[i]) ELSE gen_unreachable_stmt(n.body[i])
             IN  Made(before.code \o m.code, m.reach)
      all == upto[Len(n.body)]
  IN  Made(all.code \o (IF all.reach THEN Undo(n.undo) ELSE <<>>), all.reach)

gen_skip_unreachable_stmt(n, is_reach, l) ==
  CASE n = NoNode -> Made(<<>>, is_reach)
    [] n # NoNode /\ ~is_reach -> gen_unreachable_stmt(n)
    [] OTHER -> Made(<<Jmp(l)>> \o gen_unreachable_stmt(n).code \o <<Label(l)>>, TRUE)

(* Two branches, of which the second is reached past the first.            *)
Both(first, second) == Made(first.code \o second.code, second.reach)
gen_if_stmt(n, is_reach) ==
  LET else == <<"else", n.id>>
      end == <<"end", n.id>>
      dead == gen_unreachable_stmt(n.then)
      then == gen_reachable_stmt(n.then)
      other == IF n.els = NoNode THEN Made(<<>>, TRUE) ELSE gen_reachable_stmt(n.els)
      past(label) == IF then.reach THEN <<label>> ELSE <<>>
  IN  CASE ~is_reach -> Both(dead, gen_skip_unreachable_stmt(n.els, dead.reach, else))
        [] is_reach /\ n.cond = "true" -> Both(then, gen_skip_unreachable_stmt(n.els, then.reach, else))
        [] is_reach /\ n.cond = "false" -> Both(other, gen_skip_unreachable_stmt(n.then, other.reach, else))
        [] is_reach /\ n.cond = "free" /\ n.els = NoNode ->
             Made(gen_cond(n.cond, FALSE, n.id, else) \o then.code \o <<Label(else)>>, TRUE)
        [] OTHER ->
             Made(gen_cond(n.cond, FALSE, n.id, else) \o then.code \o past(Jmp(end)) \o <<Label(else)>>
                  \o other.code \o past(Label(end)), then.reach \/ other.reach)

Leaving == {"goto", "break", "continue", "return"}
gen_reachable_stmt(n) ==
  CASE n.k = "if" -> gen_if_stmt(n, TRUE)
    [] n.k = "block" -> gen_block_stmt(n, TRUE)
    [] n.k \in Leaving \cup {"noreturn"} -> Made(gen_stmt(n), FALSE)
    [] n.k = "unreachable" -> Made(<<>>, FALSE)
    [] OTHER -> Made(gen_stmt(n), TRUE)

gen_unreachable_stmt_Flat(n) ==  \* mutant: a statement with a body is left out whatever is in it
  CASE n.k = "if" -> gen_if_stmt(n, FALSE)
    [] n.k = "block" -> gen_block_stmt(n, FALSE)
    [] n.k \in {"label", "case"} -> Made(gen_stmt(n), TRUE)
    [] OTHER -> Made(<<>>, FALSE)
gen_unreachable_stmt(n) ==
  CASE n.k = "if" -> gen_if_stmt(n, FALSE)
    [] n.k = "block" -> gen_block_stmt(n, FALSE)
    [] n.k \in {"label", "case"} -> Made(gen_stmt(n), TRUE)
    [] n.k \in {"for", "do", "switch"} /\ ~n.then.no_label -> Made(gen_stmt(n), TRUE)
    [] OTHER -> Made(<<>>, FALSE)

Round(n, test, body) ==
  IF n.k = "for"
  THEN <<Label(<<"begin", n.id>>)>> \o test \o body \o <<Label(<<"cont", n.id>>), Jmp(<<"begin", n.id>>), Label(Brk(n))>>
  ELSE <<Label(<<"begin", n.id>>)>> \o body \o <<Label(<<"cont", n.id>>)>> \o test \o <<Label(Brk(n))>>
TestOf(n) == IF n.k = "for" THEN gen_cond(n.cond, FALSE, n.id, Brk(n))
             ELSE gen_cond(n.cond, TRUE, n.id, <<"begin", n.id>>)

gen_stmt(n) ==
  CASE n.k = "if" -> gen_if_stmt(n, TRUE).code
    [] n.k \in {"for", "do"} -> Round(n, TestOf(n), gen_stmt(n.then))
    [] n.k = "switch" -> Dispatch(n, Comparisons(n)) \o gen_stmt(n.then) \o <<Label(Brk(n))>>
    [] n.k = "block" -> gen_block_stmt(n, TRUE).code
    [] n.k \in Leaving -> Undo(n.undo) \o <<Jmp(n.to)>>
    [] n.k \in {"label", "case"} -> <<Label(n.to), Effect("mark", n.id)>>
    [] n.k = "defer" -> <<>>
    [] OTHER -> <<Effect(n.k, n.id)>>

----------------------------------------------------------------------------
(* The pass over the finished text: a jump is blanked when only labels are *)
(* between it and its own.                                                 *)
peep_redunt_jmp(is) ==
  LET follows(i) == \E j \in DOMAIN is : /\ j > i /\ is[j] = Label(is[i].to)
                                         /\ \A k \in (i + 1)..j : is[k].op = "label"
  IN  [i \in DOMAIN is |-> IF is[i].op = "jmp" /\ follows(i) THEN Blank ELSE is[i]]

emit_text(body) == peep_redunt_jmp(gen_reachable_stmt(body).code \o <<Label(<<"rtn">>)>>)

(* C's meaning of the tree: everything in its place.  A constant of a case *)
(* label is converted to the promoted type.                                *)
Promoted(ty) == IF size(ty) < 4 THEN "i32" ELSE ty
AsC(ty, v) == IF is_unsigned(Promoted(ty)) THEN Low(v, RegBits(ty)) ELSE Signed(v, RegBits(ty))
InRange(ty, cr, l) == [op |-> "case", lo |-> AsC(ty, cr.lo), hi |-> AsC(ty, cr.hi), to |-> l]
InRanges(n) ==
  LET given == Compared(n, n.given)
  IN  [i \in DOMAIN given |-> InRange(n.ty, given[i], Case(n, given[i].label))]

RECURSIVE Plain(_)
Plain(n) ==
  CASE n = NoNode -> <<>>
    [] n.k = "if" -> gen_cond(n.cond, FALSE, n.id, <<"else", n.id>>) \o Plain(n.then)
                     \o <<Jmp(<<"end", n.id>>), Label(<<"else", n.id>>)>> \o Plain(n.els) \o <<Label(<<"end", n.id>>)>>
    [] n.k \in {"for", "do"} -> Round(n, TestOf(n), Plain(n.then))
    [] n.k = "switch" -> Dispatch(n, InRanges(n)) \o Plain(n.then) \o <<Label(Brk(n))>>
    [] n.k = "block" -> FlattenSeq([i \in DOMAIN n.body |-> Plain(n.body[i])]) \o Undo(n.all)
    [] OTHER -> gen_stmt(n)

----------------------------------------------------------------------------
(* The parser.  A scope is that of a block, an unbraced body, or a         *)
(* statement with a body.                                                  *)
Scope(k, id) == [k |-> k, id |-> id, cond |-> "free", ty |-> "i32", body |-> <<>>, defers |-> <<>>,
                 has_label |-> FALSE, then |-> NoNode, els |-> NoNode, default |-> 0, cases |-> <<>>, given |-> <<>>]
Top == Last(open)
Bodies == {"block", "single"}
Conditions == {"free", "true", "false"}  \* a free one may turn out either way
Full == Top.k = "single" /\ Top.body # <<>> /\ Last(Top.body).k \notin {"label", "case"}

Init ==
  /\ open = <<Scope("block", 0)>> /\ used = {} /\ count = 0 /\ phase = "parse"
  /\ code = <<>> /\ plain = <<>>
  /\ at = [what |-> "start", id |-> 0, pc |-> 0] /\ ref = at

Allowed(kinds) ==
  /\ used' = used \cup kinds /\ count' = count + 1
  /\ \E mix \in Mixes : used' \subseteq mix[1] /\ count' <= mix[2]
Parsing(kinds) ==
  /\ phase = "parse" /\ open # <<>> /\ Top.k \in Bodies /\ ~Full
  /\ Allowed(kinds)
Add(scope, n) == [scope EXCEPT !.body = Append(@, n)]
Put(n) == open' = Append(Front(open), Add(Top, n)) /\ UNCHANGED <<phase, running>>

Simple(k) == Parsing({k}) /\ Put([k |-> k, id |-> count'])
Mark == Simple("mark")
NoReturn == Simple("noreturn")
Unreachable == Simple("unreachable")

Defer ==
  /\ Parsing({"defer"})
  /\ open' = Append(Front(open), Add([Top EXCEPT !.defers = <<count'>> \o @], [k |-> "defer", id |-> count']))
  /\ UNCHANGED <<phase, running>>

(* What a jump out of the scopes above the i-th one undoes, newest first.  *)
Above(i) == FlattenSeq([j \in 1..(Len(open) - i) |-> open[Len(open) + 1 - j].defers])
Jump(k, to, undo) == Put([k |-> k, id |-> count', to |-> to, undo |-> undo])

Innermost(kinds) == SelectLastInSeq(open, LAMBDA s : s.k \in kinds)
Goto == Parsing({"goto"}) /\ Jump("goto", <<"L">>, <<>>)
Return == Parsing({"return"}) /\ Jump("return", <<"rtn">>, Above(0))
Break ==
  /\ Parsing({"break"})
  /\ LET i == Innermost({"for", "do", "switch"}) IN i # 0 /\ Jump("break", Brk(open[i]), Above(i))
Continue ==
  /\ Parsing({"continue"})
  /\ LET i == Innermost({"for", "do"}) IN i # 0 /\ Jump("continue", <<"cont", open[i].id>>, Above(i))

(* new_label marks the scope it is in.  The function has one named label.  *)
new_label(scope, n) == [Add(scope, n) EXCEPT !.has_label = TRUE]
LabelStmt ==
  /\ Parsing({"label"}) /\ "label" \notin used
  /\ open' = Append(Front(open), new_label(Top, [k |-> "label", id |-> count', to |-> <<"L">>]))
  /\ UNCHANGED <<phase, running>>

(* A case or default label.  Constants are kept in the width of the type;  *)
(* neighbouring ranges of one label become one.                            *)
Cast(ty, v) == IF size(ty) = 8 THEN v ELSE IF is_unsigned(ty) THEN Low(v, Bits[4]) ELSE Signed(v, Bits[4])
less_eq(ty, x, y) == IF is_unsigned(ty) /\ size(ty) = 8 THEN U64(x) <= U64(y) ELSE x <= y

(* The last range of the label's own that ends before, or begins after it. *)
LastOf(is) == IF is = {} THEN 0 ELSE CHOOSE i \in is : \A j \in is : j <= i
Without(s, i) == RemoveAt(s, i)
MergeRange_Any(ty, cases, lo, hi, label) ==  \* mutant: the range of another label is extended
  LET below == {i \in DOMAIN cases : less_eq(ty, cases[i].hi, lo) /\ U64(cases[i].hi + 1) = U64(lo)}
  IN  IF below # {} THEN [cases EXCEPT ![LastOf(below)].hi = hi]
      ELSE <<[lo |-> lo, hi |-> hi, label |-> label]>> \o cases
MergeRange(ty, cases, lo, hi, label) ==
  LET own == {i \in DOMAIN cases : \A j \in 1..i : cases[j].label = label}
      below == {i \in own : less_eq(ty, cases[i].hi, lo) /\ U64(cases[i].hi + 1) = U64(lo)}
      above == {i \in own \ below : less_eq(ty, hi, cases[i].lo) /\ U64(hi + 1) = U64(cases[i].lo)}
      lo_adj == LastOf(below)
      hi_adj == LastOf(above)
  IN  CASE lo_adj # 0 /\ hi_adj # 0 /\ lo_adj < Len(cases) ->
             Without([cases EXCEPT ![hi_adj].lo = cases[lo_adj].lo], lo_adj)
        [] lo_adj # 0 /\ hi_adj # 0 /\ lo_adj = Len(cases) ->
             Without([cases EXCEPT ![lo_adj].hi = cases[hi_adj].hi], hi_adj)
        [] lo_adj # 0 /\ hi_adj = 0 -> [cases EXCEPT ![lo_adj].hi = hi]
        [] lo_adj = 0 /\ hi_adj # 0 -> [cases EXCEPT ![hi_adj].lo = lo]
        [] OTHER -> <<[lo |-> lo, hi |-> hi, label |-> label]>> \o cases

Overlap(ty, cr, lo, hi) == \/ less_eq(ty, cr.lo, lo) /\ less_eq(ty, lo, cr.hi)
                           \/ less_eq(ty, lo, cr.lo) /\ less_eq(ty, cr.lo, hi)
Accepted(ty, cases, lo, hi) ==
  /\ hi # lo => ~less_eq(ty, hi, lo)
  /\ \A i \in DOMAIN cases : ~Overlap(ty, cases[i], lo, hi)

Reject == phase' = "rejected" /\ UNCHANGED <<open, running>>

(* range is a pair of constants, or empty for default; stack is open with  *)
(* the label in it.                                                        *)
OfSwitch(stack, sw, range, label) ==
  LET s == stack[sw]
      lo == Cast(s.ty, range[1])
      hi == Cast(s.ty, range[2])
  IN  IF range = <<>>
      THEN IF s.default # 0 THEN Reject
           ELSE open' = [stack EXCEPT ![sw].default = label] /\ UNCHANGED <<phase, running>>
      ELSE IF ~Accepted(s.ty, s.cases, lo, hi) THEN Reject
           ELSE /\ open' = [stack EXCEPT ![sw].cases = MergeRange(s.ty, @, lo, hi, label),
                                         ![sw].given = Append(@, [lo |-> range[1], hi |-> range[2], label |-> label])]
                /\ UNCHANGED <<phase, running>>

MayHave(sw) == sw # 0 /\ Len(open[sw].given) < MaxRanges
CaseStmt ==
  /\ Parsing({"case"})
  /\ LET sw == Innermost({"switch"})
         node == [k |-> "case", id |-> count', to |-> <<"case", open[sw].id, count'>>]
     IN  /\ MayHave(sw) /\ Above(sw) = <<>>
         /\ \E range \in Ranges \cup {<<>>} :
              OfSwitch(Append(Front(open), new_label(Top, node)), sw, range, count')

(* Another range, or default, of the same label.                           *)
CaseMore ==
  /\ phase = "parse" /\ open # <<>> /\ Top.k \in Bodies /\ Top.body # <<>> /\ Last(Top.body).k = "case"
  /\ LET sw == Innermost({"switch"})
     IN  /\ MayHave(sw)
         /\ \E range \in Ranges \cup {<<>>} : OfSwitch(open, sw, range, Last(Top.body).id)
  /\ UNCHANGED <<used, count>>

(* Statements with a body.                                                 *)
Enter(scopes) == open' = open \o scopes /\ UNCHANGED <<phase, running>>
Block == Parsing({"block"}) /\ Enter(<<Scope("block", count')>>)
WithBody(kind) ==
  /\ \E cond \in Conditions, b \in Bodies :
       /\ Parsing({kind, cond, b})
       /\ Enter(<<[Scope(kind, count') EXCEPT !.cond = cond], Scope(b, 0)>>)
If == WithBody("if")
For == WithBody("for")
DoStmt == WithBody("do")
Switch ==
  /\ \E ty \in SwitchTypes :
       /\ Parsing({"switch", ty})
       /\ Enter(<<[Scope("switch", count') EXCEPT !.ty = ty], Scope("block", 0)>>)

(* The end of a body.  One that a return or a goto ends, or of which it is *)
(* the only statement, has nothing to undo at its end.                     *)
LeavesEarly(s) == s.body # <<>> /\ (IF s.k = "block" THEN Last(s.body) ELSE s.body[1]).k \in {"return", "goto"}
Closed(s) == [k |-> "block", body |-> s.body, undo |-> IF LeavesEarly(s) THEN <<>> ELSE s.defers,
              all |-> s.defers, no_label |-> ~s.has_label]
Ended == phase = "parse" /\ open # <<>> /\ (Top.k = "block" \/ Full)
Around == IF Len(open) > 1 THEN open[Len(open) - 1] ELSE Scope("function", 0)
leave_scope(stack, inner) == [stack EXCEPT ![Len(stack)].has_label = @ \/ inner.has_label]

Generate(body) ==
  /\ code' = emit_text(body) /\ plain' = Plain(body) \o <<Label(<<"rtn">>)>>
  /\ UNCHANGED <<at, ref>>
Controls == {"if", "for", "do", "switch"}
CloseBody ==
  /\ Ended
  /\ LET body == Closed(Top)
         outer == leave_scope(Front(open), Top)
         node == IF Around.els # NoNode THEN [Around EXCEPT !.els = body] ELSE [Around EXCEPT !.then = body]
         rest == leave_scope(Front(outer), Last(outer))
     IN  CASE Around.k = "function" -> open' = <<>> /\ UNCHANGED phase /\ Generate(body)
           [] Around.k \in Controls ->
                open' = Append(Front(rest), Add(Last(rest), node)) /\ UNCHANGED <<phase, running>>
           [] OTHER -> open' = Append(Front(outer), Add(Last(outer), body)) /\ UNCHANGED <<phase, running>>
  /\ UNCHANGED <<used, count>>

ElseBranch ==
  /\ Ended /\ Around.k = "if" /\ Around.els = NoNode 
  /\ \E b \in Bodies :
       /\ Allowed({"else", b})
       /\ open' = LET outer == leave_scope(Front(open), Top)
               IN  Append([outer EXCEPT ![Len(outer)].then = Closed(Top),
                                        ![Len(outer)].els = Closed(Scope(b, 0))], Scope(b, 0))
  /\ UNCHANGED <<phase, running>>

----------------------------------------------------------------------------
(* Running.  Follow goes to the next effect, from the value a switch has.  *)
Positions(is, l) == {i \in DOMAIN is : is[i] = Label(l)}
Stop(what, id, pc) == [what |-> what, id |-> id, pc |-> pc]
Taken(i, v) ==
  CASE i.op = "in" -> Low(v - i.sub, i.bits) \in i.lo..i.hi
    [] i.op = "case" -> v \in i.lo..i.hi
    [] OTHER -> TRUE

RECURSIVE Follow(_, _, _, _)
Follow(is, pc, v, steps) ==
  IF pc > Len(is) THEN Stop("end", 0, pc)
  ELSE IF steps = 0 THEN Stop("spin", 0, pc)
  ELSE CASE is[pc].op \in {"label", "blank"} -> Follow(is, pc + 1, v, steps)
         [] is[pc].op \in {"jmp", "in", "case"} /\ ~Taken(is[pc], v) -> Follow(is, pc + 1, v, steps)
         [] is[pc].op \in {"jmp", "in", "case"} /\ Taken(is[pc], v) ->
              IF Positions(is, is[pc].to) = {} THEN Stop("nowhere", 0, pc)
              ELSE Follow(is, CHOOSE p \in Positions(is, is[pc].to) : TRUE, v, steps - 1)
         [] OTHER -> Stop(IF is[pc].op \in {"jz", "jnz"} THEN "cond" ELSE is[pc].op, is[pc].id, pc)
Onwards(is, pc, v) == Follow(is, pc, v, Len(is))

Linked(is) == \A i \in DOMAIN is : is[i].op \in {"jmp", "jz", "jnz", "in", "case"} => Cardinality(Positions(is, is[i].to)) = 1
(* A goto without its label is an error of the parser.                     *)
Begin ==
  /\ phase = "parse" /\ open = <<>>
  /\ IF Linked(plain)
     THEN /\ phase' = "run"
          /\ at' = Onwards(code, 1, 0) /\ ref' = Onwards(plain, 1, 0)
          /\ UNCHANGED <<open, code, plain>>
     ELSE Reject
  /\ UNCHANGED <<used, count>>

Together(whats) == phase = "run" /\ ref.what \in whats /\ at.what = ref.what /\ at.id = ref.id
Unmoved == UNCHANGED <<open, used, count, phase, code, plain>>
RunEffect ==
  /\ Together({"mark", "undo"})
  /\ at' = Onwards(code, at.pc + 1, 0) /\ ref' = Onwards(plain, ref.pc + 1, 0) /\ Unmoved

After(is, p, outcome) ==
  LET i == is[p.pc]
  IN  IF (i.op = "jnz") = outcome THEN Onwards(is, CHOOSE q \in Positions(is, i.to) : TRUE, 0)
      ELSE Onwards(is, p.pc + 1, 0)
RunCond ==
  /\ Together({"cond"})
  /\ \E outcome \in BOOLEAN : at' = After(code, at, outcome) /\ ref' = After(plain, ref, outcome)
  /\ Unmoved

Values(ty) == LET n == Bits[size(ty)] IN IF is_unsigned(ty) THEN 0..(2^n - 1) ELSE -(2^(n - 1))..(2^(n - 1) - 1)
RunSwitch ==
  /\ Together({"switch"})
  /\ \E v \in Values(plain[ref.pc].ty) :
       at' = Onwards(code, at.pc + 1, v) /\ ref' = Onwards(plain, ref.pc + 1, v)
  /\ Unmoved

Parse == \/ Mark \/ NoReturn \/ Unreachable \/ Defer \/ Goto \/ Return \/ Break \/ Continue
         \/ LabelStmt \/ CaseStmt \/ CaseMore \/ Block \/ If \/ For \/ DoStmt \/ Switch
         \/ CloseBody \/ ElseBranch \/ Begin
Next == Parse \/ RunEffect \/ RunCond \/ RunSwitch
Spec == Init /\ [][Next]_vars

----------------------------------------------------------------------------
(* Whatever the conditions and values are, the code has the effects C asks *)
(* for, in their order: no statement that can be reached is left out, no   *)
(* jump is blanked that goes elsewhere than on, and every value of a       *)
(* switch goes to its label (codegen.c:3652-3763, 5252, parse.c:3316).     *)
EffectsAreKept == phase = "run" /\ ref.what # "unreachable" => at.what = ref.what /\ at.id = ref.id

(* Every label that is jumped to is emitted, and once: a jump that was     *)
(* kept never goes to a statement that was left out (codegen.c:3741).      *)
LabelsAreKept == phase = "run" => Linked(code)
=============================================================================
