---------------------------- MODULE MacroExpand ----------------------------
(* Macro replacement in preprocess.c: the scanning loops (preprocess2,        *)
(* expand_tok and read_const_expr), expand_macro, the reading of arguments,   *)
(* subst, and the stack of macro locks that keeps replacement finite.         *)
(*                                                                            *)
(* A loop walks a list of tokens.  A token that names a macro is replaced in  *)
(* place and the loop goes on with the first token of the replacement, so the *)
(* list only ever changes at its head and a position in it is named by the    *)
(* number of tokens that are left.  Replacing a parameter by its argument     *)
(* runs a loop of its own over the argument: the loops form a stack.          *)
(*                                                                            *)
(* Each expansion gives back the tokens it made and did not insert, and those *)
(* of its call.  What was allocated, and in which order, is a list of its own *)
(* (alloc_next); a token that leaves it is free to be made into another one.  *)
EXTENDS Integers, Sequences, FiniteSets, SequencesExt, FiniteSetsExt

CONSTANTS
  Programs,  \* what is expanded: the outermost loop, "root" or "cond" (#if), a
             \* macro table, and a list of names and punctuators
  Glue,      \* what a pair of texts pasted together spells, as a function
  MaxTokens  \* bound on the tokens made: an expansion that needs more stops,
             \* and does not terminate

(* Names are texts, and none is that of the source; read_macro_definition    *)
(* makes the bodies, and subst rejects one that begins or ends with ##.      *)
ASSUME ProgramsAreText ==
  \A p \in Programs :
    /\ p.kind \in {"root", "cond"}
    /\ p.input \in Seq(STRING) /\ \A i \in DOMAIN p.input : p.input[i] # "<source>"
    /\ \A m \in DOMAIN p.macros :
         /\ m \in STRING
         /\ p.macros[m] \in [kind : {"obj", "fun", "has"}, body : Seq(STRING)]
         /\ LET body == p.macros[m].body IN body # <<>> => "##" \notin {body[1], body[Len(body)]}
ASSUME GlueIsText == \A pair \in DOMAIN Glue : Glue[pair] \in STRING

VARIABLES
  macros,  \* the macro table; no directive runs while a macro is locked
  frames,  \* the loops that are running, the innermost last
  calls,   \* frame i, when not the innermost, is inside the call calls[i]
  locks,   \* locked_macros, the most recent last
  chain,   \* the tokens from last_alloc_tok on through alloc_next, that one last
  made,    \* how many tokens were made
  status   \* "run", then "done", "error" or "internal" (internal_error)

vars == <<macros, frames, calls, locks, chain, made, status>>
memory == <<chain, made>>

(* A macro is object-like, function-like with one parameter, or one of the   *)
(* built-in operators of the form name(identifier), as __has_builtin.        *)
Param == "x"
PMark == "<pmark>"
Source == "<source>"

(* "by" names the macro whose body the token was copied or pasted from.      *)
(* Only the properties read it.  id is the token's address and origin the    *)
(* token in the source it stands for, or NULL.  A free token that is made     *)
(* into a new one gets a new id: whoever still refers to the old one is wrong. *)
NULL == 0
Identifier(t) == t.text \notin {"(", ")", "1"}
NewToken(text, by, id, origin) ==
  [text |-> text, dont_expand |-> FALSE, by |-> by, id |-> id, origin |-> origin]
Ids(ts) == [i \in DOMAIN ts |-> ts[i].id]
Origin(t) == IF t.origin # NULL THEN t.origin ELSE t.id

\* copy_token, for each token of a list.
Copies(ts) == [i \in 1..Len(ts) |-> [ts[i] EXCEPT !.id = made + i]]
Allocate(n) ==
  /\ made + n <= MaxTokens
  /\ chain' = chain \o [i \in 1..n |-> made + i]
  /\ made' = made + n

\* The tokens of a list in alloc_next that are in ids: those of the others are given back.
Only(ts, ids) ==
  LET Until[i \in 0..Len(ts)] ==
        IF i = 0 THEN <<>> ELSE IF ts[i] \in ids THEN Append(Until[i - 1], ts[i]) ELSE Until[i - 1]
  IN  Until[Len(ts)]

Top == Len(frames)
Current == frames[Top]
Scanning == status = "run" /\ Len(calls) = Top - 1 /\ Current.tokens # <<>>
tok == Head(Current.tokens)
Call == calls[Top]
Substituting == status = "run" /\ Len(calls) = Top

----------------------------------------------------------------------------
(* The locks.  stop_tok is the frame it is in and how many tokens are left   *)
(* there when the loop reaches it.                                           *)
Locked(ls) == {ls[i].macro : i \in 1..Len(ls)}

(* Mutant: a replacement does not lock its macro.                            *)
push_macro_lock_Not(ls, m, left) == ls

push_macro_lock(ls, m, left) == Append(ls, [macro |-> m, frame |-> Top, left |-> left])

(* Mutant: one lock is popped, others with the same stop token stay.         *)
Held_PopsOnce(ls, n, left) ==
  IF n > 0 /\ ls[n].frame = Top /\ ls[n].left = left THEN n - 1 ELSE n

(* How many of the first n locks are held after the token with "left" tokens *)
(* left was reached: the latest are popped as long as they stop there.       *)
Held(ls, n, left) ==
  Max({i \in 0..n : i > 0 => ls[i].frame # Top \/ ls[i].left # left})

pop_macro_lock(ls, left) == SubSeq(ls, 1, Held(ls, Len(ls), left))

(* pop_macro_lock_until: one pop at each token, from the one with "from" left *)
(* on, n of them.                                                            *)
pop_macro_lock_until(ls, from, n) ==
  LET Left[i \in 0..n] == IF i = 0 THEN Len(ls) ELSE Held(ls, Left[i - 1], from - i + 1)
  IN  SubSeq(ls, 1, Left[n])

----------------------------------------------------------------------------
(* Arguments.  ts starts at the opening parenthesis.                         *)
Depth(ts, i) == Cardinality({j \in 1..i : ts[j].text = "("})
                - Cardinality({j \in 1..i : ts[j].text = ")"})

Closings(ts) == {i \in 1..Len(ts) : ts[i].text = ")" /\ Depth(ts, i) = 0}
Closing(ts) == Min(Closings(ts))

(* Mutant: the names of locked macros among the arguments are not marked.    *)
prepare_funclike_args_Unmarked(ts, ls) == SubSeq(ts, 1, Closing(ts))

(* prepare_funclike_args: each token read may end a lock, and an identifier   *)
(* that names a macro still locked there will never be expanded.             *)
prepare_funclike_args(ts, ls) ==
  LET LocksAt(i) == pop_macro_lock_until(ls, Len(ts), i)
      Paint(i) == [ts[i] EXCEPT !.dont_expand = @ \/ ts[i].text \in Locked(LocksAt(i))]
  IN  [i \in 1..Closing(ts) |-> Paint(i)]

(* Mutant: the token a run of them ends at is given back too.                *)
free_funclike_args_RunEnd(args, stop_tok) ==
  {args[i].id : i \in DOMAIN args} \cup {stop_tok}

(* free_funclike_args: a token of the call is given back when the next one   *)
(* was allocated right after it.                                             *)
free_funclike_args(args, stop_tok) ==
  LET Next(i) == IF i = Len(args) THEN stop_tok ELSE args[i + 1].id
  IN  {args[i].id : i \in {i \in DOMAIN args :
         \E k \in 2..Len(chain) : chain[k - 1] = args[i].id /\ chain[k] = Next(i)}}

----------------------------------------------------------------------------
Running(kind, ts) == [kind |-> kind, tokens |-> ts, out |-> <<>>, start |-> Len(locks), eof |-> NULL]

Init ==
  /\ \E p \in Programs :
       /\ macros = p.macros
       /\ frames = << [kind |-> p.kind, out |-> <<>>, start |-> 0, eof |-> Len(p.input) + 1,
                       tokens |-> [i \in 1..Len(p.input) |-> NewToken(p.input[i], Source, i, NULL)]] >>
       /\ made = Len(p.input) + 1 /\ chain = [i \in 1..made |-> i]
  /\ calls = <<>> /\ locks = <<>> /\ status = "run"

(* The end of an iteration: the loop goes on with ts after popping the locks  *)
(* that stop there, having pushed the tokens of "kept" on its result.        *)
Continue(ts, kept, ls) ==
  /\ frames' = [frames EXCEPT ![Top].tokens = ts, ![Top].out = @ \o kept]
  /\ locks' = pop_macro_lock(ls, Len(ts))

Fail == status' = "error" /\ UNCHANGED <<macros, frames, calls, locks, memory>>

(* What expand_macro decides for the token at the head of the loop.          *)
Named == ~tok.dont_expand /\ tok.text \in DOMAIN macros
Expandable == Named /\ tok.text \notin Locked(locks)
Kind == macros[tok.text].kind
Rest == Tail(Current.tokens)
CalledNext == Rest # <<>> /\ Head(Rest).text = "("

(* expand_macro returns false: the token is kept, and can no longer be       *)
(* expanded when it named a locked macro.  The loop over an argument leaves   *)
(* the argument as it is and keeps a copy.                                   *)
Keep ==
  /\ Scanning
  /\ Expandable => Kind = "fun" /\ ~CalledNext
  /\ Current.kind = "cond" => tok.text # "defined"
  /\ LET kept == << [tok EXCEPT !.dont_expand = @ \/ (Named /\ ~Expandable)] >>
     IN  IF Current.kind = "arg"
         THEN Continue(Rest, Copies(kept), locks) /\ Allocate(1)
         ELSE Continue(Rest, kept, locks) /\ UNCHANGED memory
  /\ UNCHANGED <<macros, calls, status>>

(* "defined NAME" and "defined ( NAME )" in the condition of #if.            *)
defined_args == IF CalledNext THEN Tail(Rest) ELSE Rest
NoOperand ==
  \/ defined_args = <<>> \/ ~Identifier(Head(defined_args))
  \/ CalledNext /\ (Tail(defined_args) = <<>> \/ Head(Tail(defined_args)).text # ")")
AfterOperand == IF CalledNext THEN Tail(Tail(defined_args)) ELSE Tail(defined_args)
Defined ==
  /\ Scanning /\ Current.kind = "cond" /\ tok.text = "defined"
  /\ IF NoOperand THEN Fail
     ELSE /\ Continue(AfterOperand, << [tok EXCEPT !.text = "1", !.by = Source] >>, locks)
          /\ UNCHANGED <<macros, calls, memory, status>>

(* __has_builtin(name) and its like: the operator and its operand become a   *)
(* number, after every lock that ends inside them is popped.                 *)
HasOperator ==
  /\ Scanning /\ Expandable /\ Kind = "has"
  /\ IF ~CalledNext \/ Len(Rest) < 3 \/ ~Identifier(Rest[2]) \/ Rest[3].text # ")"
     THEN Fail
     ELSE LET left == Len(Rest) - 3
              number == NewToken("1", Source, made + 1, Origin(tok))
          IN  /\ frames' = [frames EXCEPT ![Top].tokens = <<number>> \o SubSeq(Rest, 4, Len(Rest))]
              /\ locks' = pop_macro_lock_until(locks, left + 4, 4)
              /\ Allocate(1)
              /\ UNCHANGED <<macros, calls, status>>

Calling(arg) == Append(calls, [macro |-> tok.text, orig |-> Origin(tok), free_alloc_end |-> Last(chain),
                               arg |-> arg, expanded |-> <<>>, body |-> macros[tok.text].body, out |-> <<>>])

BeginObjectLike ==
  /\ Scanning /\ Expandable /\ Kind = "obj"
  /\ calls' = Calling(<<>>)
  /\ frames' = [frames EXCEPT ![Top].tokens = Rest]
  /\ UNCHANGED <<macros, locks, memory, status>>

(* A call takes its argument from as far ahead as it must: past the end of   *)
(* replacements it is inside of, whose locks are then popped.  The argument   *)
(* is copied; in the text itself, the call is then given back.               *)
BeginFunctionLike ==
  /\ Scanning /\ Expandable /\ Kind = "fun" /\ CalledNext
  /\ IF Closings(Rest) = {}
     THEN Fail
     ELSE LET args == prepare_funclike_args(Rest, locks)
              close == Len(args)
              stop_tok == IF close = Len(Rest) THEN Current.eof ELSE Rest[close + 1].id
              freed == IF Current.kind = "root" THEN free_funclike_args(SubSeq(Rest, 1, close), stop_tok) ELSE {}
              copies == Copies(SubSeq(args, 2, close - 1))
          IN  /\ made + Len(copies) <= MaxTokens
              /\ calls' = Calling(copies)
              /\ \E left \in {ToSet(chain) \ freed} : chain' = Only(chain, left) \o Ids(copies)
              /\ made' = made + Len(copies)
              /\ frames' = [frames EXCEPT ![Top].tokens = SubSeq(Rest, close + 1, Len(Rest))]
              /\ locks' = pop_macro_lock_until(locks, Len(Rest), close)
              /\ UNCHANGED <<macros, status>>

----------------------------------------------------------------------------
(* subst, and insert_objlike, one token of the body at a time.               *)
Body == Call.body
AtParam(i) == macros[Call.macro].kind = "fun" /\ Len(Body) >= i /\ Body[i] = Param
AtPaste(i) == Len(Body) >= i /\ Body[i] = "##"
Substitute(rest, ts) ==
  /\ calls' = [calls EXCEPT ![Top].body = rest, ![Top].out = ts]
  /\ UNCHANGED <<macros, frames, locks, status>>

Marker == <<NewToken(PMark, Source, NULL, NULL)>>

(* expand_arg: the first use of the parameter away from ## expands the       *)
(* argument in a loop of its own.                                            *)
ExpandArg ==
  /\ Substituting /\ AtParam(1) /\ ~AtPaste(2) /\ Call.expanded = <<>>
  /\ frames' = Append(frames, Running("arg", Call.arg))
  /\ UNCHANGED <<macros, calls, locks, memory, status>>

(* Mutant: what an argument expands to is inserted without copying it.       *)
UseArg_InPlace ==
  /\ Substituting /\ AtParam(1)
  /\ \E ts \in IF AtPaste(2) THEN {Call.arg} ELSE ToSet(Call.expanded) :
       LET used == IF ts = <<>> THEN Copies(Marker) ELSE ts
       IN  Substitute(Tail(Body), Call.out \o used) /\ Allocate(Len(used))

UseArg ==
  /\ Substituting /\ AtParam(1)
  /\ \E ts \in IF AtPaste(2) THEN {Call.arg} ELSE ToSet(Call.expanded) :
       LET used == Copies(IF ts = <<>> THEN Marker ELSE ts)
       IN  Substitute(Tail(Body), Call.out \o used) /\ Allocate(Len(used))

UseOther ==
  /\ Substituting /\ Body # <<>> /\ ~AtParam(1) /\ ~AtPaste(1)
  /\ Substitute(Tail(Body), Append(Call.out, NewToken(Body[1], Call.macro, made + 1, NULL)))
  /\ Allocate(1)

(* paste: the last token so far and the first of ts become one token, free   *)
(* to be expanded whatever the two were.  It is made in place of the last    *)
(* token, of which a copy is made first if it came from the source.          *)
Lhs == Last(Call.out)
Spelled(ts) == <<Lhs.text, Head(ts).text>>
Pasted(ts) ==
  LET origin == IF Lhs.origin # NULL THEN Lhs.origin ELSE made + 1
  IN  Append(Front(Call.out), NewToken(Glue[Spelled(ts)], Call.macro, Lhs.id, origin))

(* A placemarker on the left drops out and the right operand is then handled *)
(* as if no ## stood before it.                                              *)
PasteMarker ==
  /\ Substituting /\ AtPaste(1) /\ Lhs.text = PMark
  /\ Substitute(Tail(Body), Call.out) /\ UNCHANGED memory

Paste ==
  /\ Substituting /\ AtPaste(1) /\ Lhs.text # PMark
  /\ LET ts == IF AtParam(2) THEN Call.arg ELSE <<NewToken(Body[2], Call.macro, NULL, NULL)>>
         rest == SubSeq(Body, 3, Len(Body))
         tail == [i \in 1..(Len(ts) - 1) |-> [ts[i + 1] EXCEPT !.id = made + 1 + i]]
     IN  IF ts = <<>> THEN Substitute(rest, Call.out) /\ UNCHANGED memory
         ELSE IF Spelled(ts) \notin DOMAIN Glue THEN Fail
         ELSE Substitute(rest, Pasted(ts) \o tail) /\ Allocate(Len(ts))

(* The body is used up: what it gave, without placemarkers, goes in front of  *)
(* stop_tok, and the macro is locked until the loop gets there.  All other   *)
(* tokens made since the call was read are given back.                       *)
WithoutMarkers(ts) ==
  LET Until[i \in 0..Len(ts)] ==
        IF i = 0 THEN <<>> ELSE IF ts[i].text = PMark THEN Until[i - 1] ELSE Append(Until[i - 1], ts[i])
  IN  Until[Len(ts)]
Kept == WithoutMarkers(Call.out)
Inserted == [i \in 1..Len(Kept) |-> [Kept[i] EXCEPT !.origin = Call.orig]]
Remaining(new) ==
  LET end == Max({0} \cup {k \in DOMAIN chain : chain[k] = Call.free_alloc_end})
  IN  SubSeq(chain, 1, end) \o Only(SubSeq(chain, end + 1, Len(chain)), ToSet(Ids(new)))
EndCall ==
  /\ Substituting /\ Body = <<>>
  /\ LET new == Inserted
         stop == Len(Current.tokens)
     IN  /\ Continue(new \o Current.tokens, <<>>,
                     IF new = <<>> THEN locks ELSE push_macro_lock(locks, Call.macro, stop))
         /\ chain' = Remaining(new)
  /\ calls' = Front(calls)
  /\ UNCHANGED <<macros, made, status>>

----------------------------------------------------------------------------
(* The end of a loop, which must leave the locks as it found them.           *)
AtEnd == status = "run" /\ Len(calls) = Top - 1 /\ Current.tokens = <<>>

Balanced == Len(locks) = Current.start

EndArg ==
  /\ AtEnd /\ Top > 1
  /\ IF Balanced
     THEN /\ frames' = Front(frames)
          /\ calls' = [calls EXCEPT ![Top - 1].expanded = <<Current.out>>]
          /\ UNCHANGED status
     ELSE status' = "internal" /\ UNCHANGED <<frames, calls>>
  /\ UNCHANGED <<macros, locks, memory>>

Finish ==
  /\ AtEnd /\ Top = 1
  /\ status' = IF Balanced THEN "done" ELSE "internal"
  /\ UNCHANGED <<macros, frames, calls, locks, memory>>

Scan == Keep \/ Defined \/ HasOperator \/ BeginObjectLike \/ BeginFunctionLike
Subst == ExpandArg \/ UseArg \/ UseOther \/ PasteMarker \/ Paste \/ EndCall
End == EndArg \/ Finish
Next == Scan \/ Subst \/ End

Spec == Init /\ [][Next]_vars /\ WF_vars(Next)

----------------------------------------------------------------------------
(* Every list of tokens the loops can still look at.  What a call under way  *)
(* copied from its own body is not among them: the macro is locked only when *)
(* the call ends.                                                            *)
Pending(i) == {t \in ToSet(calls[i].out) : t.by # calls[i].macro}
              \cup ToSet(calls[i].arg) \cup UNION {ToSet(ts) : ts \in ToSet(calls[i].expanded)}
InLoops == UNION {ToSet(frames[i].tokens) \cup ToSet(frames[i].out) : i \in 1..Top}
InCalls == UNION {Pending(i) : i \in 1..Len(calls)}
InPlay == InLoops \cup InCalls

(* Locks nest: checking only the latest is enough, for it is the first to    *)
(* stop; no stop token has been passed; and no macro is locked twice, so     *)
(* unlocking the latest unlocks the macro.                                   *)
LocksNest ==
  \A i \in 1..Len(locks) :
    /\ locks[i].left <= Len(frames[locks[i].frame].tokens)
    /\ \A j \in 1..(i - 1) :
         /\ locks[j].macro # locks[i].macro
         /\ locks[j].frame <= locks[i].frame
         /\ locks[j].frame = locks[i].frame => locks[j].left <= locks[i].left

(* A loop leaves the locks as it found them, the assertion at the end of     *)
(* preprocess2, expand_tok and read_const_expr never fails, and meanwhile    *)
(* the locks nest.                                                           *)
LocksBalanced == status # "internal" /\ LocksNest

(* A macro is not applied to what came from its own body, even where the     *)
(* token is carried, as an argument or as the name of a call, past the point *)
(* where the macro is unlocked.                                              *)
OwnNameIsInert ==
  \A t \in InPlay : t.by = t.text => t.dont_expand \/ t.text \in Locked(locks)

(* A token that something still refers to has not been given back, and is in *)
(* one list only: the tokens to come and those done with, the arguments of a *)
(* call and what they expand to, what a call has substituted so far, the      *)
(* names they all stand for (origin), and the token up to which the end of a  *)
(* call gives tokens back (preprocess.c:938 free_funclike_args, 1032).        *)
OfFrame(f) == IF f.kind = "arg" THEN f.out ELSE f.tokens \o f.out
OfCall(c) == c.arg \o FlattenSeq(c.expanded) \o c.out
InLists ==
  FlattenSeq([i \in 1..Top |-> OfFrame(frames[i])]) \o FlattenSeq([i \in 1..Len(calls) |-> OfCall(calls[i])])
TokensAreKept ==
  LET ids == Ids(InLists)
  IN  /\ Cardinality(ToSet(ids)) = Len(ids)
      /\ \A t \in ToSet(InLists) \cup UNION {ToSet(frames[i].tokens) : i \in 1..Top} :
            t.id \in ToSet(chain) /\ t.origin \in ToSet(chain) \cup {NULL}
      /\ \A i \in DOMAIN calls : calls[i].free_alloc_end \in ToSet(chain)

(* Expansion stops, whatever macros call each other.                         *)
Terminates == <>(status # "run")
=============================================================================
