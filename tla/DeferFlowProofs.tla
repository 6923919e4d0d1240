--------------------------- MODULE DeferFlowProofs ---------------------------
(***************************************************************************)
(* Proofs about DeferFlow, for functions of any number of statements.      *)
(*                                                                         *)
(* The parser writes down the chain it has at each instruction.  What is   *)
(* proved of the code is that this is consistent: an instruction that goes *)
(* on leaves pending what the next one starts with (Connected), except     *)
(* where nothing goes on (Cut), as behind a jump, where the parser has no  *)
(* chain worth the name; and a jump arrives with the chain of the label it *)
(* goes to (Kept), a label that may still be promised by a statement that  *)
(* is open.  Running the code then keeps pending equal to that chain.      *)
(***************************************************************************)
EXTENDS DeferFlow, SequenceTheorems, WellFoundedInduction, TLAPS

\* A case in a loop of its switch is compared with the loop (parse.c:3279), so
\* it may enter a scope with something to undo; functions that have cases and
\* loops have nothing to undo.
CasesOutsideLoops ==
  \A mix \in Mixes : {"switch", "case"} \subseteq mix /\ mix \cap {"for", "do"} # {}
                     => mix \cap {"defer", "cleanup", "vla"} = {}

Chains == Seq(TypeOfDefr)
Places == {<<"L">>, <<"rtn">>, <<>>} \cup {<<n>> : n \in Nat}
          \cup {<<w, n>> : w \in {"bg", "cont", "brk", "case"}, n \in Nat}
Falling == {"label", "&&", "defer", "vla", "undo", "branch"}
Leaving == {"goto", "jump", "go", "dispatch"}
Instructions == [op : Falling \cup Leaving, chain : Chains, from : Chains, dest : Chains, to : Places]
Nodes == {"null", "expr", "label", "goto", "return", "break", "continue", "block"} \cup Controls
Constructs == [kind : Controls \cup Bodies, id : Nat, outer : Chains, lvl : Chains,
               first : Nodes \cup {"none"}, last : Nodes \cup {"none"}]

Types ==
  /\ defr \in Chains /\ open \in Seq(Constructs) /\ code \in Seq(Instructions)
  /\ count \in Nat /\ phase \in {"parse", "run", "done", "rejected"}
  /\ pc \in Nat /\ pending \in Chains /\ rsp \in Nat /\ fault \in BOOLEAN

(***************************************************************************)
(* The code.                                                               *)
(***************************************************************************)

\* What is pending after an instruction that goes on to the next one.
After(i) ==
  CASE i.op = "defer" -> Append(i.chain, [id |-> i.to[1], kind |-> "fn"])
    [] i.op = "vla"   -> Append(i.chain, [id |-> i.to[1], kind |-> "vla"])
    [] i.op = "undo"  -> i.dest
    [] OTHER          -> i.chain

\* Execution does not go on behind the n-th instruction.
Cut(cd, n) ==
  \E j \in 1..n : cd[j].op \notin Falling /\ \A k \in (j + 1)..n : cd[k].op # "label"

\* The chain behind the n-th instruction; end is that behind the last one.
Behind(cd, end, n) == IF n < Len(cd) THEN cd[n + 1].chain ELSE end
Connected(cd, end) ==
  /\ Behind(cd, end, 0) = <<>>
  /\ \A n \in 1..Len(cd) : ~Cut(cd, n) => Behind(cd, end, n) = After(cd[n])

\* What is pending where a jump arrives.
Goal(i) == IF i.op \in {"goto", "jump"} THEN i.dest ELSE i.chain
Jumping(i) == i.op \in {"jump", "go", "branch", "dispatch"} /\ i.to # <<"rtn">>

\* The shape of each kind of instruction, in a function of n statements.
Formed(i, n) ==
  /\ i.op \in {"goto", "jump", "undo"} => i.from = i.chain
  /\ i.op \in {"jump", "undo"} => IsPrefix(i.dest, i.from)
  /\ i.op = "go" => i.dest = i.from
  /\ i.op = "goto" => i.to = <<"L">>
  /\ i.op \in {"go", "branch", "dispatch"} => i.to # <<"rtn">>
  /\ i.op = "jump" /\ i.to = <<"rtn">> => i.dest = <<>>
  /\ Jumping(i) => i.to[2] \in 1..n /\ \E w \in {"bg", "brk", "cont"} : i.to = <<w, i.to[2]>>
  /\ i.op = "dispatch" => i.to = <<"brk", i.to[2]>>
  /\ i.op = "label" => i.to = <<"L">> \/ \E w \in {"bg", "brk", "cont", "case"}, m \in 1..n : i.to = <<w, m>>
  /\ i.op \in {"defer", "vla"} => i.to[1] \in Nat

LabelsAt(cd, l) == {i \in 1..Len(cd) : cd[i].op = "label" /\ cd[i].to = l}

\* The statement c will end with label l, or has it before its next round.
Promises(c, l) ==
  /\ c.kind \in Controls
  /\ l = <<"brk", c.id>> \/ (l = <<"cont", c.id>> /\ c.kind \in {"for", "do"})

Meets(cd, op, i) ==
  /\ \A p \in LabelsAt(cd, i.to) : cd[p].chain = Goal(i)
  /\ \/ LabelsAt(cd, i.to) # {}
     \/ \E k \in 1..Len(op) : Promises(op[k], i.to) /\ op[k].lvl = Goal(i)
  /\ i.op = "dispatch" => \A p \in LabelsAt(cd, <<"case", i.to[2]>>) : cd[p].chain = i.chain
Kept(cd, op) == \A n \in 1..Len(cd) : Jumping(cd[n]) => Meets(cd, op, cd[n])

\* The labels of an open statement.
Unmade(cd, c) == \A p \in 1..Len(cd) : cd[p].op = "label" => ~Promises(c, cd[p].to)
Begun(cd, c) ==
  c.kind \in {"for", "do"} =>
    /\ LabelsAt(cd, <<"bg", c.id>>) # {}
    /\ \A p \in LabelsAt(cd, <<"bg", c.id>>) : cd[p].chain = c.outer

(***************************************************************************)
(* The statements that are open.                                           *)
(***************************************************************************)

\* The chain in front of the body of a control statement, or of a body.
Base(c) == IF c.kind \in Controls THEN c.lvl ELSE c.outer
Scoped(op, d) ==
  /\ op = <<>> => d = <<>>
  /\ \A k \in 1..Len(op) :
       /\ IsPrefix(Base(op[k]), d) /\ IsPrefix(op[k].outer, Base(op[k]))
       /\ k = 1 => op[k].outer = <<>> /\ op[k].kind = "block"
       /\ op[k].kind \in Controls =>
            k < Len(op) /\ op[k + 1].kind \in Bodies /\ op[k + 1].outer = op[k].lvl
       /\ op[k].kind = "do" => op[k].lvl = op[k].outer
       /\ \A j \in 1..(k - 1) : IsPrefix(Base(op[j]), op[k].outer)
Numbered(op, n) ==
  \A k \in 1..Len(op) : op[k].kind \in Controls =>
    op[k].id \in 1..n /\ \A j \in 1..(k - 1) : op[j].kind \in Controls => op[j].id # op[k].id
\* An unbraced body is at its end once it is left early.
Quiet(c) == ~(c.kind = "single" /\ c.first \in {"return", "goto"})
Ends(op) ==
  \A k \in 1..Len(op) :
    /\ ~Quiet(op[k]) => k = Len(op) /\ op[k].last = op[k].first
    /\ op[k].last = "none" <=> op[k].first = "none"
Early(cd, op) == op # <<>> /\ LeavesEarly(Last(op)) => Cut(cd, Len(cd))

\* Without a statement that has something to undo all chains are empty.
Undoable == {"defer", "cleanup", "vla"}
Bare(cd, op, d) ==
  /\ d = <<>>
  /\ \A n \in 1..Len(cd) : cd[n].chain = <<>>
  /\ \A k \in 1..Len(op) : op[k].lvl = <<>>
UsedKinds(u, cd, op, d) ==
  /\ u # {} => \E mix \in Mixes : u \subseteq mix
  /\ \A k \in 1..Len(op) : op[k].kind \in Controls \ {"else"} => op[k].kind \in u
  /\ u \cap Undoable = {} => Bare(cd, op, d)

\* What is known of the instructions, and of the labels of open statements.
Flow(cd, op, end, n) ==
  /\ \A i \in 1..Len(cd) : Formed(cd[i], n)
  /\ Connected(cd, end) /\ Kept(cd, op)
Settled(cd, op) == \A k \in 1..Len(op) : Unmade(cd, op[k]) /\ Begun(cd, op[k])

Stacked(cd, op, d, n) == Scoped(op, d) /\ Numbered(op, n) /\ Settled(cd, op)
Written == phase # "rejected" => Flow(code, open, defr, count)
Parsing1 == phase = "parse" =>
  /\ Stacked(code, open, defr, count) /\ Ends(open) /\ Early(code, open)
  /\ UsedKinds(used, code, open, defr)
  /\ pc = 1 /\ pending = <<>> /\ rsp = 0 /\ ~fault
Running == phase \in {"run", "done"} =>
  /\ open = <<>> /\ defr = <<>>
  /\ \A n \in 1..Len(code) : code[n].op = "goto" =>
       /\ Positions(<<"L">>) # {} /\ code[n].dest = code[Position(<<"L">>)].chain
       /\ IsPrefix(code[n].dest, code[n].from)
  /\ pc \in 1..(Len(code) + 1) /\ pending = Behind(code, <<>>, pc - 1) /\ ~fault
  /\ Cut(code, pc - 1) /\ pc <= Len(code) => code[pc].op = "label"
  /\ dealloc_vla => rsp = Newest(pending)
  /\ phase = "done" => pending = <<>>
Inv == Types /\ Written /\ Parsing1 /\ Running /\ (phase = "rejected" => ~fault)

----------------------------------------------------------------------------
(* Prefixes.                                                               *)
LEMMA PrefixAt ==
  ASSUME NEW S, NEW s \in Seq(S), NEW t \in Seq(S)
  PROVE  IsPrefix(s, t) <=> Len(s) <= Len(t) /\ \A i \in 1..Len(s) : s[i] = t[i]
<1>1. PICK m \in Nat : m = Len(s)
  BY LenProperties
<1>2. PICK n \in Nat : n = Len(t)
  BY LenProperties
<1>3. SubSeq(s, 1, m) = s
  BY <1>1, SubSeqFull
<1>4. CASE m <= n
  <2>1. \A i \in 1..m : t[i] \in S
    BY <1>2, <1>4, ElementOfSeq
  <2>2. /\ SubSeq(t, 1, m) \in Seq(S)
        /\ Len(SubSeq(t, 1, m)) = IF 1 <= m THEN m - 1 + 1 ELSE 0
        /\ \A i \in 1..m - 1 + 1 : SubSeq(t, 1, m)[i] = t[1 + i - 1]
    BY <2>1, SubSeqProperties
  <2>3. Len(SubSeq(t, 1, m)) = m /\ \A i \in 1..m : SubSeq(t, 1, m)[i] = t[i]
    BY <2>2
  <2>4. s = SubSeq(t, 1, m) <=> \A i \in 1..m : s[i] = t[i]
    BY <1>1, <2>2, <2>3, SeqEqual
  <2>5. QED
    BY <1>1, <1>2, <1>3, <1>4, <2>4 DEF IsPrefix
<1>5. CASE m > n
  BY <1>1, <1>2, <1>5 DEF IsPrefix
<1>6. QED
  BY <1>4, <1>5

LEMMA PrefixRefl ==
  ASSUME NEW S, NEW s \in Seq(S)
  PROVE  IsPrefix(s, s) /\ IsPrefix(<<>>, s) /\ (IsPrefix(s, <<>>) => s = <<>>)
<1>1. Len(s) \in Nat
  BY LenProperties
<1>2. <<>> \in Seq(S) /\ Len(<<>>) = 0 /\ (Len(s) = 0 => s = <<>>)
  BY EmptySeq
<1>3. \A t \in Seq(S), u \in Seq(S) :
        IsPrefix(t, u) <=> Len(t) <= Len(u) /\ \A i \in 1..Len(t) : t[i] = u[i]
  BY PrefixAt
<1>4. IsPrefix(s, s)
  BY <1>1, <1>3
<1>5. IsPrefix(<<>>, s)
  <2>1. PICK e \in Seq(S) : e = <<>>
    BY <1>2
  <2>2. Len(e) <= Len(s) /\ \A i \in 1..Len(e) : e[i] = s[i]
    BY <1>1, <1>2, <2>1
  <2>3. IsPrefix(e, s)
    BY <2>2, PrefixAt
  <2>4. QED
    BY <2>1, <2>3
<1>6. IsPrefix(s, <<>>) => Len(s) <= 0
  BY <1>2, <1>3
<1>7. QED
  BY <1>1, <1>2, <1>4, <1>5, <1>6

LEMMA PrefixTrans ==
  ASSUME NEW S, NEW s \in Seq(S), NEW t \in Seq(S), NEW u \in Seq(S),
         IsPrefix(s, t), IsPrefix(t, u)
  PROVE  IsPrefix(s, u)
<1>1. Len(s) \in Nat /\ Len(t) \in Nat /\ Len(u) \in Nat
  BY LenProperties
<1>2. Len(s) <= Len(t) /\ \A i \in 1..Len(s) : s[i] = t[i]
  BY PrefixAt
<1>3. Len(t) <= Len(u) /\ \A i \in 1..Len(t) : t[i] = u[i]
  BY PrefixAt
<1>4. Len(s) <= Len(u) /\ \A i \in 1..Len(s) : s[i] = u[i]
  BY <1>1, <1>2, <1>3
<1>5. QED
  BY <1>4, PrefixAt

LEMMA PrefixAppend ==
  ASSUME NEW S, NEW s \in Seq(S), NEW x \in S
  PROVE  IsPrefix(s, Append(s, x))
<1> DEFINE t == Append(s, x)
<1>1. t \in Seq(S) /\ Len(t) = Len(s) + 1 /\ Len(s) \in Nat /\ \A i \in 1..Len(s) : t[i] = s[i]
  BY AppendProperties, LenProperties
<1> HIDE DEF t
<1>2. Len(s) <= Len(t) /\ \A i \in 1..Len(s) : s[i] = t[i]
  BY <1>1
<1>3. IsPrefix(s, t)
  BY <1>1, <1>2, PrefixAt
<1>4. QED
  BY <1>3 DEF t

----------------------------------------------------------------------------
(* One more instruction.                                                   *)
LEMMA CutAppend ==
  ASSUME NEW S, NEW cd \in Seq(S), NEW x \in S
  PROVE  /\ \A n \in 0..Len(cd) : Cut(Append(cd, x), n) <=> Cut(cd, n)
         /\ Cut(Append(cd, x), Len(cd) + 1) <=> x.op \notin Falling \/ (Cut(cd, Len(cd)) /\ x.op # "label")
<1> DEFINE c2 == Append(cd, x)
<1>n. PICK n \in Nat : n = Len(cd)
  BY LenProperties
<1>1. (\A i \in 1..n : c2[i] = cd[i]) /\ c2[n + 1] = x
  BY <1>n, AppendProperties
<1> HIDE DEF c2
<1>2. \A k \in 0..n : Cut(c2, k) <=> Cut(cd, k)
  BY <1>1 DEF Cut
<1>3. Cut(c2, n + 1) <=> x.op \notin Falling \/ (Cut(cd, n) /\ x.op # "label")
  <2>1. ASSUME Cut(c2, n + 1), x.op \in Falling
        PROVE  Cut(cd, n) /\ x.op # "label"
    <3>1. PICK j \in 1..(n + 1) : c2[j].op \notin Falling /\ \A k \in (j + 1)..(n + 1) : c2[k].op # "label"
      BY <2>1 DEF Cut
    <3>2. j \in 1..n
      BY <1>1, <2>1, <3>1
    <3>3. QED
      BY <1>1, <3>1, <3>2 DEF Cut
  <2>2. ASSUME x.op \notin Falling PROVE Cut(c2, n + 1)
    BY <1>1, <2>2 DEF Cut
  <2>3. ASSUME Cut(cd, n), x.op # "label" PROVE Cut(c2, n + 1)
    <3>1. PICK j \in 1..n : cd[j].op \notin Falling /\ \A k \in (j + 1)..n : cd[k].op # "label"
      BY <2>3 DEF Cut
    <3>2. \A k \in (j + 1)..(n + 1) : c2[k].op # "label"
      BY <1>1, <2>3, <3>1
    <3>3. QED
      BY <1>1, <3>1, <3>2 DEF Cut
  <2>4. QED
    BY <2>1, <2>2, <2>3
<1>4. QED
  BY <1>n, <1>2, <1>3 DEF c2

LEMMA NeverCut == \A cd : ~Cut(cd, 0)
BY DEF Cut

LEMMA ConnectedAppend ==
  ASSUME NEW S, NEW cd \in Seq(S), NEW x \in S, NEW end, NEW end2, Connected(cd, end),
         Cut(cd, Len(cd)) \/ x.chain = end,
         Cut(Append(cd, x), Len(cd) + 1) \/ end2 = After(x)
  PROVE  Connected(Append(cd, x), end2)
<1> DEFINE c2 == Append(cd, x)
<1>n. PICK n \in Nat : n = Len(cd)
  BY LenProperties
<1>1. /\ Len(c2) = n + 1 /\ c2 \in Seq(S)
      /\ (\A i \in 1..n : c2[i] = cd[i]) /\ c2[n + 1] = x
  BY <1>n, AppendProperties
<1>2. \A i \in 0..n : Cut(c2, i) <=> Cut(cd, i)
  BY <1>n, CutAppend
<1>3. Cut(cd, n) \/ x.chain = end
  BY <1>n
<1>4. Cut(c2, n + 1) \/ end2 = After(x)
  BY <1>n
<1> HIDE DEF c2
<1>5. \A i \in 0..(n - 1) : Behind(c2, end2, i) = Behind(cd, end, i)
  BY <1>n, <1>1 DEF Behind
<1>6. Behind(c2, end2, n) = x.chain
  BY <1>1 DEF Behind
<1>7. Behind(cd, end, n) = end
  BY <1>n DEF Behind
<1>8. Behind(c2, end2, 0) = <<>>
  BY <1>3, <1>5, <1>6, <1>7, NeverCut DEF Connected
<1>9. ASSUME NEW i \in 1..(n + 1), ~Cut(c2, i)
      PROVE  Behind(c2, end2, i) = After(c2[i])
  <2>1. CASE i < n
    BY <1>n, <1>1, <1>2, <1>5, <1>9, <2>1 DEF Connected
  <2>2. CASE i = n
    BY <1>n, <1>1, <1>2, <1>3, <1>6, <1>7, <1>9, <2>2 DEF Connected
  <2>3. CASE i = n + 1
    BY <1>1, <1>4, <1>9, <2>3 DEF Behind
  <2>4. QED
    BY <2>1, <2>2, <2>3
<1>10. QED
  BY <1>1, <1>8, <1>9 DEF Connected, c2

LEMMA LabelsAppend ==
  ASSUME NEW S, NEW cd \in Seq(S), NEW x \in S, NEW l
  PROVE  LabelsAt(Append(cd, x), l)
           = LabelsAt(cd, l) \cup {i \in {Len(cd) + 1} : x.op = "label" /\ x.to = l}
<1> DEFINE c2 == Append(cd, x)
<1>n. PICK n \in Nat : n = Len(cd)
  BY LenProperties
<1>1. /\ Len(c2) = n + 1
      /\ (\A i \in 1..n : c2[i] = cd[i]) /\ c2[n + 1] = x
  BY <1>n, AppendProperties
<1> HIDE DEF c2
<1>2. 1..Len(c2) = 1..n \cup {n + 1}
  BY <1>1
<1>3. LabelsAt(c2, l) = LabelsAt(cd, l) \cup {i \in {n + 1} : x.op = "label" /\ x.to = l}
  BY <1>n, <1>1, <1>2 DEF LabelsAt
<1>4. QED
  BY <1>n, <1>3 DEF c2

(* An instruction is added: a label where the jumps to it and the statements *)
(* that have promised it expect it, a jump to a label that is there or       *)
(* promised.                                                                 *)
LEMMA KeptAppend ==
  ASSUME NEW S, NEW cd \in Seq(S), NEW x \in S, NEW op, Kept(cd, op),
         x.op = "label" => \A n \in 1..Len(cd) :
           /\ Jumping(cd[n]) /\ cd[n].to = x.to => x.chain = Goal(cd[n])
           /\ cd[n].op = "dispatch" /\ x.to = <<"case", cd[n].to[2]>> => x.chain = cd[n].chain,
         Jumping(x) => x.op # "label" /\ Meets(cd, op, x)
  PROVE  Kept(Append(cd, x), op)
<1> DEFINE c2 == Append(cd, x)
<1>n. PICK n \in Nat : n = Len(cd)
  BY LenProperties
<1>1. /\ Len(c2) = n + 1
      /\ (\A i \in 1..n : c2[i] = cd[i]) /\ c2[n + 1] = x
  BY <1>n, AppendProperties
<1>2. \A l : LabelsAt(c2, l) = LabelsAt(cd, l) \cup {i \in {n + 1} : x.op = "label" /\ x.to = l}
  BY <1>n, LabelsAppend
<1>3. \A l : LabelsAt(cd, l) \subseteq 1..n
  BY <1>n DEF LabelsAt
<1> HIDE DEF c2
<1>4. ASSUME NEW i \in 1..n, Jumping(cd[i]) PROVE Meets(c2, op, cd[i])
  <2>1. Meets(cd, op, cd[i])
    BY <1>n, <1>4 DEF Kept
  <2>2. \A p \in LabelsAt(c2, cd[i].to) : c2[p].chain = Goal(cd[i])
    BY <1>n, <1>1, <1>2, <1>3, <1>4, <2>1 DEF Meets
  <2>3. LabelsAt(cd, cd[i].to) # {} => LabelsAt(c2, cd[i].to) # {}
    BY <1>2
  <2>4. cd[i].op = "dispatch" => \A p \in LabelsAt(c2, <<"case", cd[i].to[2]>>) : c2[p].chain = cd[i].chain
    BY <1>n, <1>1, <1>2, <1>3, <2>1 DEF Meets
  <2>5. QED
    BY <2>1, <2>2, <2>3, <2>4 DEF Meets
<1>5. ASSUME Jumping(x) PROVE Meets(c2, op, x)
  <2>1. x.op # "label" /\ Meets(cd, op, x)
    BY <1>5
  <2>2. \A l : LabelsAt(c2, l) = LabelsAt(cd, l)
    BY <1>2, <2>1
  <2>3. QED
    BY <1>1, <1>3, <2>1, <2>2 DEF Meets
<1>6. \A i \in 1..(n + 1) : Jumping(c2[i]) => Meets(c2, op, c2[i])
  BY <1>1, <1>4, <1>5
<1>7. QED
  BY <1>1, <1>6 DEF Kept, c2

(* Statements open and close: what one had promised is there when it closes. *)
LEMMA KeptMove ==
  ASSUME NEW cd, NEW op, NEW op2, Kept(cd, op),
         \A k \in 1..Len(op) : op[k].kind \in Controls =>
           \/ \A l : Promises(op[k], l) => LabelsAt(cd, l) # {}
           \/ \E j \in 1..Len(op2) : op2[j].lvl = op[k].lvl /\ \A l : Promises(op[k], l) => Promises(op2[j], l)
  PROVE  Kept(cd, op2)
<1> SUFFICES ASSUME NEW n \in 1..Len(cd), Jumping(cd[n]) PROVE Meets(cd, op2, cd[n])
  BY DEF Kept
<1>1. Meets(cd, op, cd[n])
  BY DEF Kept
<1>2. ASSUME LabelsAt(cd, cd[n].to) = {}
      PROVE  \E j \in 1..Len(op2) : Promises(op2[j], cd[n].to) /\ op2[j].lvl = Goal(cd[n])
  <2>1. PICK k \in 1..Len(op) : Promises(op[k], cd[n].to) /\ op[k].lvl = Goal(cd[n])
    BY <1>1, <1>2 DEF Meets
  <2>2. op[k].kind \in Controls
    BY <2>1 DEF Promises
  <2>3. QED
    BY <1>2, <2>1, <2>2
<1>3. QED
  BY <1>1, <1>2 DEF Meets

----------------------------------------------------------------------------
(* Least and greatest numbers, from the well-foundedness of <.             *)
Less == {p \in Nat \X Nat : p[1] < p[2]}
LEMMA LessIsWellFounded == IsWellFoundedOn(Less, Nat)
<1>1. Less = OpToRel(<, Nat)
  BY DEF Less, OpToRel
<1>2. QED
  BY <1>1, NatLessThanWellFounded

LEMMA Least ==
  ASSUME NEW S \in SUBSET Nat, S # {}
  PROVE  \E x \in S : \A y \in S : x <= y
<1>1. PICK x \in S : \A y \in S : ~(<<y, x>> \in Less)
  BY LessIsWellFounded, WFMin
<1>2. \A y \in Nat, z \in Nat : y < z => <<y, z>> \in Less
  BY DEF Less
<1>3. ASSUME NEW y \in S PROVE x <= y
  <2>1. x \in Nat /\ y \in Nat /\ ~(y < x)
    BY <1>1, <1>2, <1>3
  <2>2. QED
    BY <2>1
<1>4. QED
  BY <1>3

LEMMA Greatest ==
  ASSUME NEW n \in Nat, NEW S, S \subseteq 1..n, S # {}
  PROVE  \E x \in S : \A y \in S : y <= x
<1> DEFINE B == {b \in Nat : \A y \in S : y <= b}
<1>1. n \in B
  OBVIOUS
<1>2. PICK b \in B : \A c \in B : b <= c
  <2>1. B \in SUBSET Nat /\ B # {}
    BY <1>1
  <2> HIDE DEF B
  <2>2. QED
    BY <2>1, Least
<1>3. b \in S
  <2>1. SUFFICES ASSUME b \notin S PROVE FALSE
    OBVIOUS
  <2>2. \A y \in S : y <= b - 1
    BY <2>1
  <2>3. b - 1 \in Nat
    <3>1. PICK y \in S : y <= b - 1
      BY <2>2
    <3>2. y \in Nat /\ b \in Nat
      OBVIOUS
    <3>3. QED
      BY <3>1, <3>2
  <2>4. b - 1 \in B
    BY <2>2, <2>3
  <2>5. QED
    BY <1>2, <2>4
<1>4. QED
  BY <1>2, <1>3

LEMMA FrontLast ==
  ASSUME NEW S, NEW q \in Seq(S), q # <<>>
  PROVE  /\ Len(q) \in Nat \ {0}
         /\ Last(q) \in S
         /\ Front(q) \in Seq(S)
         /\ Len(Front(q)) = Len(q) - 1
         /\ \A i \in 1..(Len(q) - 1) : Front(q)[i] = q[i]
<1>1. Len(q) \in Nat \ {0}
  BY EmptySeq
<1>2. PICK n \in Int : n = Len(q) - 1
  BY <1>1
<1>3. \A i \in 1..n : q[i] \in S
  BY <1>1, <1>2, ElementOfSeq
<1>4. /\ SubSeq(q, 1, n) \in Seq(S)
      /\ Len(SubSeq(q, 1, n)) = IF 1 <= n THEN n - 1 + 1 ELSE 0
      /\ \A i \in 1..n - 1 + 1 : SubSeq(q, 1, n)[i] = q[1 + i - 1]
  BY <1>3, SubSeqProperties
<1>5. Last(q) \in S
  BY <1>1, ElementOfSeq DEF Last
<1>6. QED
  BY <1>1, <1>2, <1>4, <1>5 DEF Front

(* Adding instructions one by one.                                         *)
LEMMA OneMore ==
  ASSUME NEW S, NEW s \in Seq(S), NEW x \in S
  PROVE  s \o <<x>> = Append(s, x)
BY AppendIsConcat

LEMMA LastAdded ==
  ASSUME NEW S, NEW u \in Seq(S), NEW w \in Seq(S), NEW y \in S, NEW n \in Nat,
         Len(u) = n, Len(w) = n + 1, \A i \in 1..n : w[i] = u[i], w[n + 1] = y
  PROVE  w = Append(u, y)
<1> DEFINE a == Append(u, y)
<1>1. /\ a \in Seq(S) /\ Len(a) = n + 1
      /\ (\A i \in 1..n : a[i] = u[i]) /\ a[n + 1] = y
  BY AppendProperties
<1> HIDE DEF a
<1>2. \A i \in 1..(n + 1) : w[i] = a[i]
  BY <1>1
<1>3. w = a
  BY <1>1, <1>2, SeqEqual
<1>4. QED
  BY <1>3 DEF a

LEMMA ConcatAppend ==
  ASSUME NEW S, NEW s \in Seq(S), NEW u \in Seq(S), NEW y \in S
  PROVE  s \o Append(u, y) = Append(s \o u, y)
<1>1. <<y>> \in Seq(S)
  OBVIOUS
<1>2. s \o (u \o <<y>>) = (s \o u) \o <<y>>
  BY <1>1, ConcatAssociative
<1>3. s \o u \in Seq(S)
  BY ConcatProperties
<1>4. QED
  BY <1>2, <1>3, AppendIsConcat

LEMMA TwoMore ==
  ASSUME NEW S, NEW s \in Seq(S), NEW x \in S, NEW y \in S
  PROVE  s \o <<x, y>> = Append(Append(s, x), y)
<1>1. /\ <<x>> \in Seq(S) /\ Len(<<x>>) = 1 /\ <<x>>[1] = x
      /\ <<x, y>> \in Seq(S) /\ Len(<<x, y>>) = 2 /\ <<x, y>>[1] = x /\ <<x, y>>[2] = y
  OBVIOUS
<1>2. <<x, y>> = Append(<<x>>, y)
  <2> DEFINE u == <<x>>
             w == <<x, y>>
  <2>n. PICK n \in Nat : n = 1
    OBVIOUS
  <2>1. /\ u \in Seq(S) /\ Len(u) = n /\ w \in Seq(S) /\ Len(w) = n + 1
        /\ (\A i \in 1..n : w[i] = u[i]) /\ w[n + 1] = y
    BY <1>1, <2>n
  <2> HIDE DEF u, w
  <2>2. w = Append(u, y)
    BY <2>1, LastAdded
  <2>3. QED
    BY <2>2 DEF u, w
<1>3. s \o Append(<<x>>, y) = Append(s \o <<x>>, y)
  BY <1>1, ConcatAppend
<1>4. QED
  BY <1>2, <1>3, OneMore

LEMMA ThreeMore ==
  ASSUME NEW S, NEW s \in Seq(S), NEW x \in S, NEW y \in S, NEW z \in S
  PROVE  s \o <<x, y, z>> = Append(Append(Append(s, x), y), z)
<1>1. /\ <<x, y>> \in Seq(S) /\ Len(<<x, y>>) = 2 /\ <<x, y>>[1] = x /\ <<x, y>>[2] = y
      /\ <<x, y, z>> \in Seq(S) /\ Len(<<x, y, z>>) = 3
      /\ <<x, y, z>>[1] = x /\ <<x, y, z>>[2] = y /\ <<x, y, z>>[3] = z
  OBVIOUS
<1>2. <<x, y, z>> = Append(<<x, y>>, z)
  <2> DEFINE u == <<x, y>>
             w == <<x, y, z>>
  <2>n. PICK n \in Nat : n = 2
    OBVIOUS
  <2>1. /\ u \in Seq(S) /\ Len(u) = n /\ w \in Seq(S) /\ Len(w) = n + 1
        /\ (\A i \in 1..n : w[i] = u[i]) /\ w[n + 1] = z
    BY <1>1, <2>n
  <2> HIDE DEF u, w
  <2>2. w = Append(u, z)
    BY <2>1, LastAdded
  <2>3. QED
    BY <2>2 DEF u, w
<1>3. s \o Append(<<x, y>>, z) = Append(s \o <<x, y>>, z)
  BY <1>1, ConcatAppend
<1>4. QED
  BY <1>2, <1>3, TwoMore

----------------------------------------------------------------------------
(* Instructions are added to the code.                                     *)
LEMMA UndoIs ==
  ASSUME NEW from \in Chains, NEW dest \in Chains
  PROVE  /\ Undo(from, dest) \in Instructions
         /\ Undo(from, dest).op = "undo" /\ Undo(from, dest).chain = from
         /\ Undo(from, dest).from = from /\ Undo(from, dest).dest = dest
BY DEF Undo, Instructions, Falling, Places

LEMMA LabelIs ==
  ASSUME NEW l \in Places, NEW chain \in Chains
  PROVE  /\ Label(l, chain) \in Instructions
         /\ Label(l, chain).op = "label" /\ Label(l, chain).chain = chain /\ Label(l, chain).to = l
BY DEF Label, Instructions, Falling

LEMMA InstructionIs ==
  ASSUME NEW o \in Falling \cup Leaving, NEW chain \in Chains, NEW from \in Chains, NEW dest \in Chains,
         NEW to \in Places
  PROVE  /\ [op |-> o, chain |-> chain, from |-> from, dest |-> dest, to |-> to] \in Instructions
         /\ [op |-> o, chain |-> chain, from |-> from, dest |-> dest, to |-> to].op = o
         /\ [op |-> o, chain |-> chain, from |-> from, dest |-> dest, to |-> to].chain = chain
         /\ [op |-> o, chain |-> chain, from |-> from, dest |-> dest, to |-> to].from = from
         /\ [op |-> o, chain |-> chain, from |-> from, dest |-> dest, to |-> to].dest = dest
         /\ [op |-> o, chain |-> chain, from |-> from, dest |-> dest, to |-> to].to = to
BY DEF Instructions

LEMMA PlacesAre ==
  /\ <<"L">> \in Places /\ <<"rtn">> \in Places /\ <<>> \in Places
  /\ \A n \in Nat : <<n>> \in Places
  /\ \A w \in {"bg", "cont", "brk", "case"}, n \in Nat :
       /\ <<w, n>> \in Places
       /\ <<w, n>> # <<"L">> /\ <<w, n>> # <<"rtn">> /\ <<w, n>>[1] = w /\ <<w, n>>[2] = n
  /\ <<"L">> # <<"rtn">>
<1>1. <<"L">> # <<"rtn">>
  <2>1. <<"L">>[1] # <<"rtn">>[1]
    OBVIOUS
  <2>2. QED
    BY <2>1
<1>2. ASSUME NEW w \in {"bg", "cont", "brk", "case"}, NEW n \in Nat
      PROVE  <<w, n>> # <<"L">> /\ <<w, n>> # <<"rtn">> /\ <<w, n>>[1] = w /\ <<w, n>>[2] = n
  <2>1. <<w, n>>[1] = w /\ <<w, n>>[2] = n /\ <<"L">>[1] = "L" /\ <<"rtn">>[1] = "rtn"
    OBVIOUS
  <2>2. w # "L" /\ w # "rtn"
    OBVIOUS
  <2>3. QED
    BY <2>1, <2>2
<1>3. QED
  BY <1>1, <1>2 DEF Places

LEMMA FlowAppend ==
  ASSUME NEW cd \in Seq(Instructions), NEW x \in Instructions, NEW op, NEW end, NEW end2, NEW n \in Nat,
         Flow(cd, op, end, n), Formed(x, n),
         Cut(cd, Len(cd)) \/ x.chain = end,
         x.op \notin Falling \/ (Cut(cd, Len(cd)) /\ x.op # "label") \/ end2 = After(x),
         x.op = "label" => \A k \in 1..Len(cd) :
           /\ Jumping(cd[k]) /\ cd[k].to = x.to => x.chain = Goal(cd[k])
           /\ cd[k].op = "dispatch" /\ x.to = <<"case", cd[k].to[2]>> => x.chain = cd[k].chain,
         Jumping(x) => Meets(cd, op, x)
  PROVE  Flow(Append(cd, x), op, end2, n)
<1> DEFINE c2 == Append(cd, x)
<1>n. PICK z \in Nat : z = Len(cd)
  BY LenProperties
<1>1. /\ Len(c2) = z + 1
      /\ (\A i \in 1..z : c2[i] = cd[i]) /\ c2[z + 1] = x
  BY <1>n, AppendProperties
<1>2. Cut(c2, z + 1) <=> x.op \notin Falling \/ (Cut(cd, Len(cd)) /\ x.op # "label")
  BY <1>n, CutAppend
<1>3. Connected(c2, end2)
  <2>1. Cut(c2, Len(cd) + 1) \/ end2 = After(x)
    BY <1>n, <1>2
  <2>2. Connected(cd, end)
    BY DEF Flow
  <2>3. QED
    BY <2>1, <2>2, ConnectedAppend
<1>4. Kept(c2, op)
  <2>1. Jumping(x) => x.op # "label"
    BY DEF Jumping
  <2>2. Kept(cd, op)
    BY DEF Flow
  <2>3. QED
    BY <2>1, <2>2, KeptAppend
<1> HIDE DEF c2
<1>5. \A i \in 1..(z + 1) : Formed(c2[i], n)
  BY <1>n, <1>1 DEF Flow
<1>6. Flow(c2, op, end2, n)
  BY <1>1, <1>3, <1>4, <1>5 DEF Flow
<1>7. QED
  BY <1>6 DEF c2

LEMMA LastCut ==
  ASSUME NEW cd \in Seq(Instructions), NEW x \in Instructions
  PROVE  /\ Append(cd, x) \in Seq(Instructions)
         /\ Cut(Append(cd, x), Len(Append(cd, x)))
              <=> x.op \notin Falling \/ (Cut(cd, Len(cd)) /\ x.op # "label")
<1>1. Len(Append(cd, x)) = Len(cd) + 1 /\ Append(cd, x) \in Seq(Instructions)
  BY AppendProperties
<1>2. QED
  BY <1>1, CutAppend

(* What has been undone is no longer pending.                              *)
LEMMA FlowUndo ==
  ASSUME NEW cd \in Seq(Instructions), NEW op, NEW end, NEW n \in Nat, Flow(cd, op, end, n),
         NEW from \in Chains, NEW dest \in Chains, IsPrefix(dest, from),
         Cut(cd, Len(cd)) \/ from = end
  PROVE  Flow(Append(cd, Undo(from, dest)), op, dest, n)
<1> DEFINE x == Undo(from, dest)
<1>1. x \in Instructions /\ x.op = "undo" /\ x.chain = from /\ x.from = from /\ x.dest = dest
  BY UndoIs
<1> HIDE DEF x
<1>2. Formed(x, n)
  BY <1>1 DEF Formed, Jumping
<1>3. dest = After(x)
  BY <1>1 DEF After
<1>4. ~Jumping(x)
  BY <1>1 DEF Jumping
<1>5. Flow(Append(cd, x), op, dest, n)
  BY <1>1, <1>2, <1>3, <1>4, FlowAppend
<1>6. QED
  BY <1>5 DEF x

(* A label comes where it was promised.                                    *)
LEMMA FlowLabel ==
  ASSUME NEW cd \in Seq(Instructions), NEW op, NEW end, NEW n \in Nat, Flow(cd, op, end, n),
         NEW w \in {"bg", "brk", "cont"}, NEW m \in 1..n, NEW chain \in Chains,
         Cut(cd, Len(cd)) \/ chain = end,
         LabelsAt(cd, <<w, m>>) = {},
         \A k \in 1..Len(op) : Promises(op[k], <<w, m>>) => op[k].lvl = chain
  PROVE  Flow(Append(cd, Label(<<w, m>>, chain)), op, chain, n)
<1> DEFINE x == Label(<<w, m>>, chain)
<1>1. x \in Instructions /\ x.op = "label" /\ x.chain = chain /\ x.to = <<w, m>>
  BY LabelIs, PlacesAre
<1> HIDE DEF x
<1>2. Formed(x, n)
  BY <1>1 DEF Formed, Jumping
<1>3. chain = After(x) /\ ~Jumping(x)
  BY <1>1 DEF After, Jumping
<1>4. ASSUME NEW k \in 1..Len(cd), Jumping(cd[k]), cd[k].to = x.to PROVE x.chain = Goal(cd[k])
  <2>1. Meets(cd, op, cd[k])
    BY <1>4 DEF Flow, Kept
  <2>2. PICK j \in 1..Len(op) : Promises(op[j], <<w, m>>) /\ op[j].lvl = Goal(cd[k])
    BY <1>1, <1>4, <2>1 DEF Meets
  <2>3. QED
    BY <1>1, <2>2
<1>5. ASSUME NEW v PROVE x.to # <<"case", v>>
  <2>1. <<w, m>>[1] = w /\ <<"case", v>>[1] = "case"
    OBVIOUS
  <2>2. QED
    BY <1>1, <2>1
<1>6. Flow(Append(cd, x), op, chain, n)
  BY <1>1, <1>2, <1>3, <1>4, <1>5, FlowAppend
<1>7. QED
  BY <1>6 DEF x

LEMMA FlowMore ==
  ASSUME NEW cd, NEW op, NEW end, NEW n \in Nat, NEW m \in Nat, n <= m, Flow(cd, op, end, n)
  PROVE  Flow(cd, op, end, m)
<1>1. 1..n \subseteq 1..m
  OBVIOUS
<1>2. \A i : Formed(i, n) => Formed(i, m)
  BY <1>1 DEF Formed
<1>3. QED
  BY <1>2 DEF Flow

(* Statements are numbered, and so are their labels.                       *)
LEMMA NumbersAreNew ==
  ASSUME NEW cd, NEW op, NEW end, NEW n \in Nat, Flow(cd, op, end, n),
         NEW w \in {"bg", "brk", "cont", "case"}, NEW m \in Nat, m > n
  PROVE  /\ LabelsAt(cd, <<w, m>>) = {}
         /\ \A k \in 1..Len(cd) : Jumping(cd[k]) => cd[k].to # <<w, m>>
<1>1. <<w, m>>[1] = w /\ <<w, m>>[2] = m /\ <<w, m>> # <<"L">>
  BY PlacesAre
<1>2. \A v, u : <<v, u>>[2] = u
  OBVIOUS
<1>3. ASSUME NEW p \in LabelsAt(cd, <<w, m>>) PROVE FALSE
  <2>1. p \in 1..Len(cd) /\ cd[p].op = "label" /\ cd[p].to = <<w, m>>
    BY <1>3 DEF LabelsAt
  <2>2. Formed(cd[p], n)
    BY <2>1 DEF Flow
  <2>3. PICK v \in {"bg", "brk", "cont", "case"}, u \in 1..n : cd[p].to = <<v, u>>
    BY <1>1, <2>1, <2>2 DEF Formed
  <2>4. QED
    BY <1>1, <1>2, <2>1, <2>3
<1>4. ASSUME NEW k \in 1..Len(cd), Jumping(cd[k]) PROVE cd[k].to # <<w, m>>
  BY <1>1, <1>4 DEF Flow, Formed
<1>5. QED
  BY <1>3, <1>4

LEMMA SettledAppend ==
  ASSUME NEW cd \in Seq(Instructions), NEW x \in Instructions, NEW op, Settled(cd, op),
         x.op = "label" => \A k \in 1..Len(op) :
           /\ ~Promises(op[k], x.to)
           /\ op[k].kind \in {"for", "do"} => x.to # <<"bg", op[k].id>>
  PROVE  Settled(Append(cd, x), op)
<1> DEFINE c2 == Append(cd, x)
<1>n. PICK z \in Nat : z = Len(cd)
  BY LenProperties
<1>1. /\ Len(c2) = z + 1
      /\ (\A i \in 1..z : c2[i] = cd[i]) /\ c2[z + 1] = x
  BY <1>n, AppendProperties
<1>2. \A l : LabelsAt(c2, l) = LabelsAt(cd, l) \cup {i \in {z + 1} : x.op = "label" /\ x.to = l}
  BY <1>n, LabelsAppend
<1> HIDE DEF c2
<1>3. ASSUME NEW k \in 1..Len(op) PROVE Unmade(c2, op[k])
  <2>1. Unmade(cd, op[k])
    BY DEF Settled
  <2>2. \A p \in 1..z : c2[p].op = "label" => ~Promises(op[k], c2[p].to)
    BY <1>n, <1>1, <2>1 DEF Unmade
  <2>3. QED
    BY <1>1, <2>2 DEF Unmade
<1>4. ASSUME NEW k \in 1..Len(op) PROVE Begun(c2, op[k])
  <2>1. Begun(cd, op[k])
    BY DEF Settled
  <2>2. op[k].kind \in {"for", "do"} => LabelsAt(c2, <<"bg", op[k].id>>) = LabelsAt(cd, <<"bg", op[k].id>>)
    BY <1>2
  <2>3. \A l, p : p \in LabelsAt(cd, l) => p \in 1..z
    BY <1>n DEF LabelsAt
  <2>4. QED
    BY <1>n, <1>1, <2>1, <2>2, <2>3 DEF Begun
<1>5. Settled(c2, op)
  BY <1>3, <1>4 DEF Settled
<1>6. QED
  BY <1>5 DEF c2

----------------------------------------------------------------------------
(* Statements and blocks that are open.                                    *)
Alike(op, op2) ==
  /\ Len(op2) = Len(op)
  /\ \A k \in 1..Len(op) : /\ op2[k].kind = op[k].kind /\ op2[k].id = op[k].id
                           /\ op2[k].outer = op[k].outer /\ op2[k].lvl = op[k].lvl

LEMMA ConstructsAre ==
  ASSUME NEW c \in Constructs
  PROVE  /\ c.kind \in Controls \cup Bodies /\ c.id \in Nat /\ c.outer \in Chains /\ c.lvl \in Chains
         /\ Base(c) \in Chains
BY DEF Constructs, Base

LEMMA AlikeSame ==
  ASSUME NEW op, NEW op2, Alike(op, op2)
  PROVE  /\ \A cd : Kept(cd, op) => Kept(cd, op2)
         /\ \A cd : Settled(cd, op) => Settled(cd, op2)
         /\ \A n : Numbered(op, n) => Numbered(op2, n)
         /\ \A k \in 1..Len(op) : Base(op2[k]) = Base(op[k])
<1>1. \A k \in 1..Len(op) : \A l : Promises(op2[k], l) <=> Promises(op[k], l)
  BY DEF Alike, Promises
<1>2. \A cd : Kept(cd, op) => Kept(cd, op2)
  BY <1>1 DEF Alike, Kept, Meets
<1>3. \A k \in 1..Len(op) : \A cd : Unmade(cd, op[k]) => Unmade(cd, op2[k])
  BY <1>1 DEF Unmade
<1>4. \A k \in 1..Len(op) : \A cd : Begun(cd, op[k]) => Begun(cd, op2[k])
  BY DEF Begun, Alike
<1>5. ASSUME NEW cd, Settled(cd, op) PROVE Settled(cd, op2)
  <2>1. \A k \in 1..Len(op) : Unmade(cd, op2[k]) /\ Begun(cd, op2[k])
    BY <1>3, <1>4, <1>5 DEF Settled
  <2>2. QED
    BY <2>1 DEF Settled, Alike
<1>6. \A n : Numbered(op, n) => Numbered(op2, n)
  <2> SUFFICES ASSUME NEW n, Numbered(op, n), NEW k \in 1..Len(op), op2[k].kind \in Controls
               PROVE  /\ op2[k].id \in 1..n
                      /\ \A j \in 1..(k - 1) : op2[j].kind \in Controls => op2[j].id # op2[k].id
    BY DEF Numbered, Alike
  <2>1. op2[k].kind = op[k].kind /\ op2[k].id = op[k].id
    BY DEF Alike
  <2>2. ASSUME NEW j \in 1..(k - 1), op2[j].kind \in Controls PROVE op2[j].id # op2[k].id
    <3>1. Len(op) \in Int \/ Len(op) \notin Int
      OBVIOUS
    <3>2. j \in 1..Len(op) => op2[j].kind = op[j].kind /\ op2[j].id = op[j].id
      BY DEF Alike
    <3>3. j \in 1..Len(op)
      OBVIOUS
    <3>4. QED
      BY <2>1, <2>2, <3>2, <3>3 DEF Numbered
  <2>3. QED
    BY <2>1, <2>2 DEF Numbered
<1>7. \A k \in 1..Len(op) : Base(op2[k]) = Base(op[k])
  BY DEF Alike, Base
<1>8. QED
  BY <1>2, <1>5, <1>6, <1>7

LEMMA AlikeScoped ==
  ASSUME NEW op \in Seq(Constructs), NEW op2 \in Seq(Constructs), Alike(op, op2),
         NEW d \in Chains, NEW d2 \in Chains, IsPrefix(d, d2), op # <<>>, Scoped(op, d)
  PROVE  Scoped(op2, d2)
<1>1. Len(op) \in Nat /\ Len(op2) = Len(op) /\ op2 # <<>>
  BY EmptySeq, LenProperties DEF Alike
<1> SUFFICES ASSUME NEW k \in 1..Len(op)
             PROVE  /\ IsPrefix(Base(op2[k]), d2) /\ IsPrefix(op2[k].outer, Base(op2[k]))
                    /\ k = 1 => op2[k].outer = <<>> /\ op2[k].kind = "block"
                    /\ op2[k].kind \in Controls =>
                         k < Len(op2) /\ op2[k + 1].kind \in Bodies /\ op2[k + 1].outer = op2[k].lvl
                    /\ op2[k].kind = "do" => op2[k].lvl = op2[k].outer
                    /\ \A j \in 1..(k - 1) : IsPrefix(Base(op2[j]), op2[k].outer)
  BY <1>1 DEF Scoped
<1>2. op[k] \in Constructs /\ Base(op[k]) \in Chains
  BY ElementOfSeq, ConstructsAre
<1>3. \A j \in 1..Len(op) : Base(op2[j]) = Base(op[j])
  BY AlikeSame
<1>4. IsPrefix(Base(op[k]), d)
  BY DEF Scoped
<1>5. IsPrefix(Base(op2[k]), d2)
  BY <1>2, <1>3, <1>4, PrefixTrans DEF Chains
<1>6. \A j \in 1..Len(op) : op2[j].kind = op[j].kind /\ op2[j].outer = op[j].outer /\ op2[j].lvl = op[j].lvl
  BY DEF Alike
<1>7. \A j \in 1..(k - 1) : IsPrefix(Base(op2[j]), op2[k].outer)
  BY <1>1, <1>3, <1>6 DEF Scoped
<1>8. op[k].kind \in Controls => k + 1 \in 1..Len(op)
  BY <1>1 DEF Scoped
<1>9. QED
  BY <1>1, <1>3, <1>5, <1>6, <1>7, <1>8 DEF Scoped

(* A statement was parsed in the innermost of the open blocks.             *)
LEMMA WithinIs ==
  ASSUME NEW op \in Seq(Constructs), op # <<>>, NEW node \in Nodes
  PROVE  /\ Within(op, node) \in Seq(Constructs) /\ Within(op, node) # <<>>
         /\ Alike(op, Within(op, node))
         /\ \A k \in 1..(Len(op) - 1) : Within(op, node)[k] = op[k]
         /\ Within(op, node)[Len(op)] = Seen(Last(op), node)
<1> DEFINE f == Front(op)
           e == Seen(Last(op), node)
           w == Append(f, e)
<1>1. PICK n \in Nat : n + 1 = Len(op)
  <2>1. Len(op) \in Nat \ {0}
    BY FrontLast
  <2>2. QED
    BY <2>1
<1>2. f \in Seq(Constructs) /\ Len(f) = n /\ (\A i \in 1..n : f[i] = op[i]) /\ Last(op) \in Constructs
  BY <1>1, FrontLast
<1>3. /\ e \in Constructs
      /\ e.kind = Last(op).kind /\ e.id = Last(op).id /\ e.outer = Last(op).outer /\ e.lvl = Last(op).lvl
  BY <1>2 DEF Seen, Constructs
<1> HIDE DEF f, e
<1>4. w \in Seq(Constructs) /\ Len(w) = n + 1 /\ w # <<>> /\ (\A i \in 1..n : w[i] = f[i]) /\ w[n + 1] = e
  BY <1>2, <1>3, AppendProperties
<1> HIDE DEF w
<1>5. Last(op) = op[n + 1]
  BY <1>1 DEF Last
<1>6. Alike(op, w)
  BY <1>1, <1>2, <1>3, <1>4, <1>5 DEF Alike
<1>7. w = Within(op, node)
  BY DEF w, f, e, Within
<1>8. Len(op) - 1 = n
  BY <1>1
<1>9. (\A k \in 1..(Len(op) - 1) : w[k] = op[k]) /\ w[Len(op)] = e
  BY <1>1, <1>2, <1>4, <1>8
<1>10. QED
  BY <1>4, <1>6, <1>7, <1>9 DEF e

LEMMA WithinEnds ==
  ASSUME NEW op \in Seq(Constructs), op # <<>>, Last(op).kind \in Bodies, NEW node \in Nodes,
         \A k \in 1..Len(op) : Quiet(op[k]) /\ (op[k].last = "none" <=> op[k].first = "none")
  PROVE  /\ Ends(Within(op, node))
         /\ LeavesEarly(Last(Within(op, node))) => node \in {"return", "goto"}
<1> DEFINE w == Within(op, node)
           e == Last(op)
<1>1. PICK n \in Nat : n + 1 = Len(op)
  <2>1. Len(op) \in Nat \ {0}
    BY FrontLast
  <2>2. QED
    BY <2>1
<1>2. /\ w \in Seq(Constructs) /\ Len(w) = n + 1 /\ (\A i \in 1..n : w[i] = op[i])
      /\ w[n + 1] = Seen(e, node)
  BY <1>1, WithinIs DEF Alike
<1>3. Last(w) = w[n + 1] /\ e = op[n + 1] /\ e \in Constructs
  BY <1>1, <1>2, FrontLast DEF Last
<1> HIDE DEF w, e
<1>n. node # "none"
  BY DEF Nodes, Controls
<1>4. /\ w[n + 1].kind = e.kind /\ w[n + 1].last = node
      /\ w[n + 1].first = IF e.first = "none" THEN node ELSE e.first
  BY <1>2, <1>3 DEF Seen, Constructs
<1>5. Quiet(e) /\ (e.last = "none" <=> e.first = "none") /\ e.kind \in Bodies
  BY <1>1, <1>3 DEF e
<1>6. LeavesEarly(w[n + 1]) => node \in {"return", "goto"}
  BY <1>n, <1>4, <1>5 DEF LeavesEarly, Quiet, Bodies
<1>7. Ends(w)
  <2>1. \A k \in 1..n : Quiet(w[k]) /\ (w[k].last = "none" <=> w[k].first = "none")
    BY <1>1, <1>2
  <2>2. /\ ~Quiet(w[n + 1]) => w[n + 1].last = w[n + 1].first
        /\ w[n + 1].last = "none" <=> w[n + 1].first = "none"
    BY <1>n, <1>4, <1>5 DEF Quiet
  <2>3. QED
    BY <1>2, <2>1, <2>2 DEF Ends
<1>8. QED
  BY <1>3, <1>6, <1>7 DEF w

----------------------------------------------------------------------------
(* Parsing: statements without a body.                                     *)
LEMMA Parsed ==
  ASSUME Inv, phase = "parse"
  PROVE  /\ Types /\ Flow(code, open, defr, count)
         /\ Scoped(open, defr) /\ Numbered(open, count) /\ Settled(code, open)
         /\ Ends(open) /\ Early(code, open) /\ UsedKinds(used, code, open, defr)
         /\ pc = 1 /\ pending = <<>> /\ rsp = 0 /\ ~fault
BY DEF Inv, Written, Parsing1, Stacked

LEMMA TopIs ==
  ASSUME Inv, phase = "parse", open # <<>>
  PROVE  /\ Len(open) \in Nat \ {0} /\ Top = open[Len(open)] /\ Last(open) = Top
         /\ Top \in Constructs /\ Top.kind \in Bodies
<1>1. open \in Seq(Constructs) /\ Scoped(open, defr)
  BY Parsed DEF Types
<1>2. Len(open) \in Nat \ {0} /\ Last(open) \in Constructs
  BY <1>1, FrontLast
<1>3. Top = open[Len(open)] /\ Last(open) = Top
  BY DEF Top, Last
<1>4. Top.kind \notin Controls
  BY <1>1, <1>2, <1>3 DEF Scoped
<1>5. Top.kind \in Controls \cup Bodies
  BY <1>2, <1>3, ConstructsAre
<1>6. QED
  BY <1>2, <1>3, <1>4, <1>5

LEMMA ParsingIs ==
  ASSUME Inv, NEW kinds, Parsing(kinds)
  PROVE  /\ phase = "parse" /\ open # <<>> /\ count \in Nat /\ count' = count + 1
         /\ used' = used \cup kinds /\ \E mix \in Mixes : used' \subseteq mix
         /\ \A k \in 1..Len(open) : Quiet(open[k]) /\ (open[k].last = "none" <=> open[k].first = "none")
<1>1. phase = "parse" /\ open # <<>> /\ ~Full
  BY DEF Parsing
<1>2. /\ Len(open) \in Nat \ {0} /\ Top = open[Len(open)]
  BY <1>1, TopIs
<1>3. Ends(open) /\ count \in Nat
  BY <1>1, Parsed DEF Types
<1>4. Quiet(Top)
  BY <1>1, <1>2, <1>3 DEF Ends, Full, Quiet
<1>5. \A k \in 1..Len(open) : Quiet(open[k]) /\ (open[k].last = "none" <=> open[k].first = "none")
  BY <1>2, <1>3, <1>4 DEF Ends
<1>6. count' = count + 1 /\ used' = used \cup kinds /\ \E mix \in Mixes : used' \subseteq mix
  BY DEF Parsing, Allowed
<1>7. QED
  BY <1>1, <1>3, <1>5, <1>6

LEMMA DefrIs ==
  ASSUME Types, NEW kind \in {"fn", "vla"}, count' \in Nat
  PROVE  /\ [id |-> count', kind |-> kind] \in TypeOfDefr
         /\ new_defr(kind) \in Chains /\ IsPrefix(defr, new_defr(kind))
<1>1. [id |-> count', kind |-> kind] \in TypeOfDefr /\ defr \in Seq(TypeOfDefr)
  BY DEF Types, TypeOfDefr, Chains
<1>2. QED
  BY <1>1, AppendProperties, PrefixAppend DEF new_defr, Chains

LEMMA StillParsing ==
  ASSUME Inv, phase = "parse", UNCHANGED <<phase, running>>,
         open' \in Seq(Constructs), code' \in Seq(Instructions), defr' \in Chains, count' \in Nat,
         Flow(code', open', defr', count'), Scoped(open', defr'), Numbered(open', count'),
         Settled(code', open'), Ends(open'), Early(code', open'),
         UsedKinds(used', code', open', defr')
  PROVE  Inv'
<1>1. Types /\ pc = 1 /\ pending = <<>> /\ rsp = 0 /\ ~fault
  BY Parsed
<1>2. phase' = "parse" /\ pc' = 1 /\ pending' = <<>> /\ rsp' = 0 /\ ~fault'
  BY <1>1 DEF running
<1>3. Types'
  BY <1>1, <1>2 DEF Types, running
<1>4. Written'
  BY DEF Written, Flow, Connected, Kept
<1>5. Parsing1'
  BY <1>2 DEF Parsing1, Stacked
<1>6. Running' /\ (phase' = "rejected" => ~fault')
  BY <1>2 DEF Running
<1>7. QED
  BY <1>3, <1>4, <1>5, <1>6 DEF Inv

LEMMA SimpleStep ==
  ASSUME Inv, phase = "parse", open # <<>>, UNCHANGED <<phase, running>>, count' = count + 1,
         used \subseteq used', \E mix \in Mixes : used' \subseteq mix,
         NEW x \in Instructions, code' = Append(code, x),
         open' \in Seq(Constructs), Alike(open, open'), Ends(open'), Early(code', open'),
         defr' \in Chains, IsPrefix(defr, defr'),
         Flow(Append(code, x), open, defr', count'),
         x.op = "label" => \A k \in 1..Len(open) :
           /\ ~Promises(open[k], x.to)
           /\ open[k].kind \in {"for", "do"} => x.to # <<"bg", open[k].id>>,
         used' \cap Undoable = {} /\ defr = <<>> => defr' = <<>> /\ x.chain = <<>>
  PROVE  Inv'
<1>1. /\ Types /\ Flow(code, open, defr, count)
      /\ Scoped(open, defr) /\ Numbered(open, count) /\ Settled(code, open)
      /\ UsedKinds(used, code, open, defr)
  BY Parsed
<1>2. open \in Seq(Constructs) /\ code \in Seq(Instructions) /\ count \in Nat /\ defr \in Chains
  BY <1>1 DEF Types
<1>3. code' \in Seq(Instructions)
  BY <1>2, AppendProperties
<1>4. Flow(code', open', defr', count')
  <2>1. Kept(code', open) => Kept(code', open')
    BY AlikeSame
  <2>2. QED
    BY <2>1 DEF Flow
<1>5. Scoped(open', defr')
  BY <1>1, <1>2, AlikeScoped
<1>6. Numbered(open', count')
  <2>1. Numbered(open, count')
    <3>1. 1..count \subseteq 1..count'
      BY <1>2
    <3>2. QED
      BY <1>1, <3>1 DEF Numbered
  <2>2. QED
    BY <2>1, AlikeSame
<1>7. Settled(code', open')
  <2>1. Settled(code', open)
    BY <1>1, <1>2, SettledAppend
  <2>2. QED
    BY <2>1, AlikeSame
<1>8. UsedKinds(used', code', open', defr')
  <2>1. \A k \in 1..Len(open') : open'[k].kind \in Controls \ {"else"} => open'[k].kind \in used'
    BY <1>1 DEF Alike, UsedKinds
  <2>2. ASSUME used' \cap Undoable = {} PROVE Bare(code', open', defr')
    <3>1. Bare(code, open, defr)
      BY <1>1, <2>2 DEF UsedKinds
    <3>2. defr' = <<>> /\ x.chain = <<>>
      BY <2>2, <3>1 DEF Bare
    <3>3. PICK n \in Nat : n = Len(code)
      BY <1>2, LenProperties
    <3>4. Len(code') = n + 1 /\ (\A i \in 1..n : code'[i] = code[i]) /\ code'[n + 1] = x
      BY <1>2, <3>3, AppendProperties
    <3>5. \A i \in 1..Len(code') : code'[i].chain = <<>>
      BY <3>1, <3>2, <3>3, <3>4 DEF Bare
    <3>6. \A k \in 1..Len(open') : open'[k].lvl = <<>>
      BY <3>1 DEF Bare, Alike
    <3>7. QED
      BY <3>2, <3>5, <3>6 DEF Bare
  <2>3. QED
    BY <2>1, <2>2 DEF UsedKinds
<1>9. QED
  BY <1>2, <1>3, <1>4, <1>5, <1>6, <1>7, <1>8, StillParsing

LEMMA SimpleWithin ==
  ASSUME Inv, NEW kinds, Parsing(kinds), UNCHANGED <<phase, running>>,
         NEW x \in Instructions, code' = code \o <<x>>,
         NEW node \in Nodes, open' = Within(open, node),
         node \in {"return", "goto"} => x.op \notin Falling,
         defr' \in Chains, IsPrefix(defr, defr'),
         Flow(Append(code, x), open, defr', count'),
         x.op = "label" => \A k \in 1..Len(open) :
           /\ ~Promises(open[k], x.to)
           /\ open[k].kind \in {"for", "do"} => x.to # <<"bg", open[k].id>>,
         used' \cap Undoable = {} /\ defr = <<>> => defr' = <<>> /\ x.chain = <<>>
  PROVE  Inv'
<1>1. /\ phase = "parse" /\ open # <<>> /\ count' = count + 1
      /\ used \subseteq used' /\ \E mix \in Mixes : used' \subseteq mix
      /\ \A k \in 1..Len(open) : Quiet(open[k]) /\ (open[k].last = "none" <=> open[k].first = "none")
  BY ParsingIs
<1>2. open \in Seq(Constructs) /\ code \in Seq(Instructions) /\ Last(open).kind \in Bodies
  BY <1>1, Parsed, TopIs DEF Types
<1>3. code' = Append(code, x)
  BY <1>2, OneMore
<1>4. /\ open' \in Seq(Constructs) /\ Alike(open, open') /\ Ends(open')
      /\ LeavesEarly(Last(open')) => node \in {"return", "goto"}
  BY <1>1, <1>2, WithinIs, WithinEnds
<1>5. x.op \notin Falling => Cut(code', Len(code'))
  BY <1>2, <1>3, LastCut
<1>6. Early(code', open')
  BY <1>4, <1>5 DEF Early
<1>7. QED
  BY <1>1, <1>3, <1>4, <1>6, SimpleStep

(* Of code that is still the same, with one more statement.                *)
LEMMA FlowNext ==
  ASSUME Inv, phase = "parse", count' = count + 1
  PROVE  Flow(code, open, defr, count') /\ count' \in Nat
<1>1. Flow(code, open, defr, count) /\ count \in Nat
  BY Parsed DEF Types
<1>2. QED
  BY <1>1, FlowMore

LEMMA Deferred ==
  ASSUME Inv, phase = "parse", count' = count + 1, NEW kind \in {"fn", "vla"},
         NEW op \in {"defer", "vla"}, kind = (IF op = "vla" THEN "vla" ELSE "fn"), defr' = new_defr(kind)
  PROVE  /\ Plain(op, <<count'>>) \in Instructions /\ Plain(op, <<count'>>).op = op
         /\ Flow(Append(code, Plain(op, <<count'>>)), open, defr', count')
<1> DEFINE x == Plain(op, <<count'>>)
<1>1. /\ Types /\ code \in Seq(Instructions) /\ defr \in Chains /\ count' \in Nat
      /\ Flow(code, open, defr, count')
  BY Parsed, FlowNext DEF Types
<1>2. <<count'>> \in Places /\ <<count'>>[1] = count'
  BY <1>1, PlacesAre
<1>3. /\ x \in Instructions /\ x.op = op /\ x.chain = defr /\ x.to = <<count'>>
  BY <1>1, <1>2, InstructionIs DEF Plain, Instr, Falling
<1> HIDE DEF x
<1>4. Formed(x, count') /\ ~Jumping(x)
  BY <1>1, <1>2, <1>3 DEF Formed, Jumping
<1>5. defr' = After(x)
  BY <1>2, <1>3 DEF After, new_defr
<1>6. Flow(Append(code, x), open, defr', count')
  BY <1>1, <1>3, <1>4, <1>5, FlowAppend
<1>7. QED
  BY <1>3, <1>6 DEF x

LEMMA DeferStep == ASSUME Inv, Defer PROVE Inv'
<1>1. Parsing({"defer"}) /\ defr' = new_defr("fn") /\ UNCHANGED <<phase, running>>
      /\ code' = code \o <<Plain("defer", <<count'>>)>> /\ open' = Within(open, "null")
  BY DEF Defer, Emit
<1>2. phase = "parse" /\ count' = count + 1 /\ used' = used \cup {"defer"} /\ count' \in Nat /\ Types
  BY <1>1, ParsingIs, Parsed
<1>3. PICK x \in Instructions : /\ x = Plain("defer", <<count'>>) /\ x.op = "defer"
                                /\ Flow(Append(code, x), open, defr', count')
  BY <1>1, <1>2, Deferred
<1>4. defr' \in Chains /\ IsPrefix(defr, defr')
  BY <1>1, <1>2, DefrIs
<1>5. used' \cap Undoable # {}
  BY <1>2 DEF Undoable
<1>6. "null" \in Nodes /\ "null" \notin {"return", "goto"}
  BY DEF Nodes
<1>7. QED
  BY <1>6, <1>1, <1>3, <1>4, <1>5, SimpleWithin

LEMMA VlaStep == ASSUME Inv, Vla PROVE Inv'
<1>1. Parsing({"vla"}) /\ defr' = new_defr("vla") /\ UNCHANGED <<phase, running>>
      /\ code' = code \o <<Plain("vla", <<count'>>)>> /\ open' = Within(open, "expr")
  BY DEF Vla, Emit
<1>2. phase = "parse" /\ count' = count + 1 /\ used' = used \cup {"vla"} /\ count' \in Nat /\ Types
  BY <1>1, ParsingIs, Parsed
<1>3. PICK x \in Instructions : /\ x = Plain("vla", <<count'>>) /\ x.op = "vla"
                                /\ Flow(Append(code, x), open, defr', count')
  BY <1>1, <1>2, Deferred
<1>4. defr' \in Chains /\ IsPrefix(defr, defr')
  BY <1>1, <1>2, DefrIs
<1>5. used' \cap Undoable # {}
  BY <1>2 DEF Undoable
<1>6. "expr" \in Nodes /\ "expr" \notin {"return", "goto"}
  BY DEF Nodes
<1>7. QED
  BY <1>6, <1>1, <1>3, <1>4, <1>5, SimpleWithin

LEMMA CleanupStep == ASSUME Inv, Cleanup PROVE Inv'
<1>1. Parsing({"cleanup"}) /\ defr' = new_defr("fn") /\ UNCHANGED <<phase, running>>
      /\ code' = code \o <<Plain("defer", <<count'>>)>> /\ open' = open /\ Top.kind = "block"
  BY DEF Cleanup, Emit
<1>2. /\ phase = "parse" /\ open # <<>> /\ count' = count + 1 /\ used' = used \cup {"cleanup"}
      /\ count' \in Nat /\ Types /\ \E mix \in Mixes : used' \subseteq mix
  BY <1>1, ParsingIs, Parsed
<1>3. PICK x \in Instructions : /\ x = Plain("defer", <<count'>>) /\ x.op = "defer"
                                /\ Flow(Append(code, x), open, defr', count')
  BY <1>1, <1>2, Deferred
<1>4. defr' \in Chains /\ IsPrefix(defr, defr')
  BY <1>1, <1>2, DefrIs
<1>5. used' \cap Undoable # {} /\ used \subseteq used'
  BY <1>2 DEF Undoable
<1>6. open \in Seq(Constructs) /\ code \in Seq(Instructions)
  BY <1>2 DEF Types
<1>7. code' = Append(code, x)
  BY <1>1, <1>3, <1>6, OneMore
<1>8. Ends(open) /\ Early(code, open)
  BY <1>2, Parsed
<1>9. Cut(code', Len(code')) <=> Cut(code, Len(code))
  BY <1>3, <1>6, <1>7, LastCut DEF Falling
<1>10. Ends(open') /\ Early(code', open') /\ Alike(open, open') /\ open' \in Seq(Constructs)
  BY <1>1, <1>6, <1>8, <1>9 DEF Early, Alike
<1>11. QED
  BY <1>1, <1>2, <1>3, <1>4, <1>5, <1>7, <1>10, SimpleStep

(* A label that no jump out of a statement goes to.                        *)
LEMMA PlainLabel ==
  ASSUME Inv, NEW kinds, Parsing(kinds), UNCHANGED <<defr, phase, running>>,
         NEW l \in Places, l = <<"L">> \/ \E m \in 1..count : l = <<"case", m>>,
         \A n \in 1..Len(code), m \in Nat :
           code[n].op = "dispatch" /\ l = <<"case", m>> /\ code[n].to[2] = m => code[n].chain = defr,
         code' = code \o <<Label(l, defr)>>, open' = Within(open, "label")
  PROVE  Inv'
<1>1. phase = "parse" /\ count' = count + 1 /\ count \in Nat
  BY ParsingIs
<1>2. /\ code \in Seq(Instructions) /\ open \in Seq(Constructs) /\ defr \in Chains
      /\ Flow(code, open, defr, count') /\ Flow(code, open, defr, count)
  BY <1>1, Parsed, FlowNext DEF Types
<1>3. PICK x \in Instructions : x = Label(l, defr) /\ x.op = "label" /\ x.chain = defr /\ x.to = l
  BY <1>2, LabelIs
<1>4. Formed(x, count') /\ ~Jumping(x) /\ defr = After(x)
  <2>1. 1..count \subseteq 1..count'
    BY <1>1
  <2>2. l = <<"L">> \/ \E w \in {"bg", "brk", "cont", "case"}, m \in 1..count' : l = <<w, m>>
    BY <2>1
  <2>3. QED
    BY <1>3, <2>2 DEF Formed, Jumping, After
<1>5. \A w \in {"bg", "brk", "cont"}, m \in Nat : l # <<w, m>>
  BY PlacesAre
<1>6. ASSUME NEW n \in 1..Len(code), Jumping(code[n]) PROVE code[n].to # l
  <2>1. code[n].to[2] \in Nat /\ \E w \in {"bg", "brk", "cont"} : code[n].to = <<w, code[n].to[2]>>
    BY <1>1, <1>2, <1>6 DEF Flow, Formed
  <2>2. QED
    BY <1>5, <2>1
<1>7. ASSUME NEW n \in 1..Len(code), code[n].op = "dispatch", x.to = <<"case", code[n].to[2]>>
      PROVE  x.chain = code[n].chain
  <2>1. code[n].to[2] \in Nat
    BY <1>1, <1>2, <1>7 DEF Flow, Formed, Jumping
  <2>2. QED
    BY <1>3, <1>7, <2>1
<1>8. Flow(Append(code, x), open, defr, count')
  <2>1. count' \in Nat
    BY <1>1
  <2>2. QED
    BY <1>2, <1>3, <1>4, <1>6, <1>7, <2>1, FlowAppend
<1>9. ASSUME NEW k \in 1..Len(open)
      PROVE  ~Promises(open[k], x.to) /\ x.to # <<"bg", open[k].id>>
  <2>1. open[k].id \in Nat
    BY <1>2, ElementOfSeq, ConstructsAre
  <2>2. QED
    BY <1>3, <1>5, <2>1 DEF Promises
<1>10. defr' = defr /\ IsPrefix(defr, defr')
  BY <1>2, PrefixRefl DEF Chains
<1>11. code' = code \o <<x>> /\ UNCHANGED <<phase, running>>
  BY <1>3
<1>12. QED
  BY <1>2, <1>3, <1>8, <1>9, <1>10, <1>11, SimpleWithin DEF Nodes

LEMMA LabelStmtStep == ASSUME Inv, LabelStmt PROVE Inv'
<1>1. /\ Parsing({"label"}) /\ UNCHANGED <<defr, phase, running>>
      /\ code' = code \o <<Label(<<"L">>, defr)>> /\ open' = Within(open, "label")
  BY DEF LabelStmt, Emit
<1>2. <<"L">> \in Places /\ \A m \in Nat : <<"L">> # <<"case", m>>
  BY PlacesAre
<1>3. QED
  BY <1>1, <1>2, PlainLabel

(* Instructions that do not go to the label of a statement.                *)
LEMMA PlainExit ==
  ASSUME Inv, NEW kinds, Parsing(kinds), UNCHANGED <<defr, phase, running>>,
         NEW o \in {"goto", "&&", "jump"}, NEW from \in Chains, from = defr \/ o = "&&",
         NEW to \in Places, to = (IF o = "jump" THEN <<"rtn">> ELSE <<"L">>),
         code' = code \o <<Instr(o, from, <<>>, to)>>,
         NEW node \in Nodes, open' = Within(open, node),
         node \in {"return", "goto"} => o \notin Falling
  PROVE  Inv'
<1>1. phase = "parse" /\ count' = count + 1 /\ count' \in Nat
  BY ParsingIs
<1>2. /\ code \in Seq(Instructions) /\ defr \in Chains /\ <<>> \in Chains
      /\ Flow(code, open, defr, count') /\ IsPrefix(<<>>, from)
  BY <1>1, Parsed, FlowNext, EmptySeq, PrefixRefl DEF Types, Chains
<1>3. PICK x \in Instructions :
        /\ x = Instr(o, from, <<>>, to)
        /\ x.op = o /\ x.chain = defr /\ x.from = from /\ x.dest = <<>> /\ x.to = to
  <2> DEFINE i == Instr(o, from, <<>>, to)
  <2>1. i \in Instructions /\ i.op = o /\ i.chain = defr /\ i.from = from /\ i.dest = <<>> /\ i.to = to
    BY <1>2, InstructionIs DEF Instr, Falling, Leaving
  <2> HIDE DEF i
  <2>2. i = Instr(o, from, <<>>, to)
    BY DEF i
  <2>3. QED
    BY <2>1, <2>2
<1>4. Formed(x, count') /\ ~Jumping(x)
  BY <1>2, <1>3 DEF Formed, Jumping
<1>5. x.op \notin Falling \/ defr = After(x)
  BY <1>3 DEF After, Falling
<1>6. Flow(Append(code, x), open, defr, count')
  BY <1>1, <1>2, <1>3, <1>4, <1>5, FlowAppend
<1>7. IsPrefix(defr, defr') /\ x.op # "label" /\ code' = code \o <<x>> /\ UNCHANGED <<phase, running>>
  BY <1>2, <1>3, PrefixRefl DEF Chains
<1>8. QED
  BY <1>2, <1>3, <1>6, <1>7, SimpleWithin

LEMMA GotoStep == ASSUME Inv, Goto PROVE Inv'
<1>1. Parsing({"goto"}) /\ UNCHANGED <<defr, phase, running>> /\ open' = Within(open, "goto")
      /\ code' = code \o <<Instr("goto", defr, <<>>, <<"L">>)>>
  BY DEF Goto, Emit
<1>2. PICK from \in Chains : from = defr
  BY <1>1, ParsingIs, Parsed DEF Types
<1>3. QED
  BY <1>1, <1>2, PlacesAre, PlainExit DEF Falling, Nodes

LEMMA LabelValueStep == ASSUME Inv, LabelValue PROVE Inv'
<1>1. Parsing({"&&"}) /\ UNCHANGED <<defr, phase, running>> /\ open' = Within(open, "expr")
      /\ code' = code \o <<Instr("&&", <<>>, <<>>, <<"L">>)>>
  BY DEF LabelValue, Emit
<1>2. <<>> \in Chains
  BY EmptySeq DEF Chains
<1>3. QED
  BY <1>1, <1>2, PlacesAre, PlainExit DEF Nodes

LEMMA ReturnStep == ASSUME Inv, Return PROVE Inv'
<1>1. Parsing({"return"}) /\ UNCHANGED <<defr, phase, running>> /\ open' = Within(open, "return")
      /\ code' = code \o <<Instr("jump", defr, <<>>, <<"rtn">>)>>
  BY DEF Return, Emit
<1>2. PICK from \in Chains : from = defr
  BY <1>1, ParsingIs, Parsed DEF Types
<1>3. QED
  BY <1>1, <1>2, PlacesAre, PlainExit DEF Falling, Nodes

(* The innermost loop, or loop or switch.                                  *)
LEMMA InnermostIs ==
  ASSUME open \in Seq(Constructs), NEW kinds, Contexts(kinds) # {}
  PROVE  \E i \in Contexts(kinds) :
           Innermost(kinds) = open[i] /\ \A j \in Contexts(kinds) : j <= i
<1>1. Len(open) \in Nat /\ Contexts(kinds) \subseteq 1..Len(open)
  BY LenProperties DEF Contexts
<1>2. \E i \in Contexts(kinds) : \A j \in Contexts(kinds) : j <= i
  BY <1>1, Greatest
<1>3. QED
  BY <1>2 DEF Innermost

LEMMA SamePromise ==
  ASSUME NEW op \in Seq(Constructs), NEW n, Numbered(op, n), NEW l,
         NEW k \in 1..Len(op), NEW j \in 1..Len(op), Promises(op[k], l), Promises(op[j], l)
  PROVE  k = j
<1>1. Len(op) \in Nat /\ op[k].id \in Nat /\ op[j].id \in Nat
  BY LenProperties, ElementOfSeq, ConstructsAre
<1>2. \A w, v, a, b : <<w, a>> = <<v, b>> => a = b
  OBVIOUS
<1>3. op[k].id = op[j].id /\ op[k].kind \in Controls /\ op[j].kind \in Controls
  BY <1>2 DEF Promises
<1>4. ~(k < j) /\ ~(j < k)
  BY <1>1, <1>3 DEF Numbered
<1>5. QED
  BY <1>1, <1>4

LEMMA ScopesAre ==
  ASSUME Inv, phase = "parse", NEW k \in 1..Len(open)
  PROVE  /\ open[k] \in Constructs /\ IsPrefix(Base(open[k]), defr) /\ IsPrefix(open[k].outer, Base(open[k]))
         /\ open[k].kind \in Controls => IsPrefix(open[k].lvl, defr) /\ open[k].id \in 1..count
<1>1. open \in Seq(Constructs) /\ Scoped(open, defr) /\ Numbered(open, count)
  BY Parsed DEF Types
<1>2. open[k] \in Constructs
  BY <1>1, ElementOfSeq
<1>3. IsPrefix(Base(open[k]), defr) /\ IsPrefix(open[k].outer, Base(open[k]))
  BY <1>1 DEF Scoped
<1>4. open[k].kind \in Controls => open[k].id \in 1..count
  BY <1>1 DEF Numbered
<1>5. QED
  BY <1>2, <1>3, <1>4 DEF Base

LEMMA JumpToStep ==
  ASSUME Inv, NEW kind \in {"break", "continue"}, NEW kinds, kinds \subseteq Controls, NEW label \in {"brk", "cont"},
         label = "cont" => kinds = {"for", "do"},
         JumpTo(kind, kinds, label)
  PROVE  Inv'
<1>1. /\ Parsing({kind}) /\ Contexts(kinds) # {} /\ UNCHANGED <<defr, phase, running>>
      /\ code' = code \o <<Instr("jump", defr, Innermost(kinds).lvl, <<label, Innermost(kinds).id>>)>>
      /\ open' = Within(open, kind)
  BY DEF JumpTo, Emit
<1>2. phase = "parse" /\ count' = count + 1 /\ count \in Nat
  BY <1>1, ParsingIs
<1>3. /\ code \in Seq(Instructions) /\ open \in Seq(Constructs) /\ defr \in Chains
      /\ Flow(code, open, defr, count') /\ Settled(code, open)
  BY <1>2, Parsed, FlowNext DEF Types
<1>4. PICK i \in Contexts(kinds) : Innermost(kinds) = open[i]
  BY <1>1, <1>3, InnermostIs
<1>5. i \in 1..Len(open) /\ open[i].kind \in kinds /\ kinds \subseteq Controls
  BY <1>4 DEF Contexts
<1>6. open[i].lvl \in Chains /\ open[i].id \in 1..count /\ IsPrefix(open[i].lvl, defr)
  BY <1>2, <1>5, ScopesAre, ConstructsAre
<1>7. PICK l : l = <<label, open[i].id>>
  OBVIOUS
<1>8. l \in Places /\ l[2] = open[i].id /\ l # <<"rtn">> /\ \E w \in {"bg", "brk", "cont"} : l = <<w, l[2]>>
  BY <1>6, <1>7, PlacesAre
<1>9. PICK x \in Instructions :
        /\ x = Instr("jump", defr, open[i].lvl, l)
        /\ x.op = "jump" /\ x.chain = defr /\ x.from = defr /\ x.dest = open[i].lvl /\ x.to = l
  <2> DEFINE j == Instr("jump", defr, open[i].lvl, l)
  <2>1. /\ j \in Instructions /\ j.op = "jump" /\ j.chain = defr /\ j.from = defr
        /\ j.dest = open[i].lvl /\ j.to = l
    BY <1>3, <1>6, <1>8, InstructionIs DEF Instr, Leaving
  <2> HIDE DEF j
  <2>2. j = Instr("jump", defr, open[i].lvl, l)
    BY DEF j
  <2>3. QED
    BY <2>1, <2>2
<1>10. Formed(x, count')
  <2>1. l[2] \in 1..count'
    BY <1>2, <1>6, <1>8
  <2>2. QED
    BY <1>6, <1>8, <1>9, <2>1 DEF Formed, Jumping
<1>11. Promises(open[i], l)
  BY <1>5, <1>7 DEF Promises
<1>12. Meets(code, open, x)
  <2>1. LabelsAt(code, l) = {}
    BY <1>3, <1>5, <1>11 DEF Settled, Unmade, LabelsAt
  <2>2. Goal(x) = open[i].lvl
    BY <1>9 DEF Goal
  <2>3. QED
    BY <1>5, <1>9, <1>11, <2>1, <2>2 DEF Meets
<1>13. Flow(Append(code, x), open, defr', count')
  <2>1. count' \in Nat /\ defr' = defr
    BY <1>1, <1>2
  <2>2. QED
    BY <1>3, <1>9, <1>10, <1>12, <2>1, FlowAppend DEF Falling
<1>14. /\ code' = code \o <<x>> /\ UNCHANGED <<phase, running>> /\ defr' = defr
       /\ IsPrefix(defr, defr') /\ x.op # "label"
  BY <1>1, <1>3, <1>4, <1>7, <1>9, PrefixRefl DEF Chains
<1>15. kind \in Nodes /\ kind \notin {"return", "goto"}
  BY DEF Nodes
<1>16. QED
  BY <1>1, <1>3, <1>9, <1>13, <1>14, <1>15, SimpleWithin

LEMMA BreakStep == ASSUME Inv, Break PROVE Inv'
<1>1. Jumps \subseteq Controls
  BY DEF Jumps, Controls
<1>2. QED
  BY <1>1, JumpToStep DEF Break

LEMMA ContinueStep == ASSUME Inv, Continue PROVE Inv'
<1>1. {"for", "do"} \subseteq Controls
  BY DEF Controls
<1>2. QED
  BY <1>1, JumpToStep DEF Continue

LEMMA RejectStep == ASSUME Inv, phase = "parse", Reject, count' \in Nat PROVE Inv'
<1>1. Types /\ ~fault
  BY Parsed
<1>2. phase' = "rejected" /\ UNCHANGED <<defr, open, code, pc, pending, rsp, fault>>
  BY DEF Reject, running
<1>3. Types'
  BY <1>1, <1>2 DEF Types
<1>4. QED
  BY <1>1, <1>2, <1>3 DEF Inv, Written, Parsing1, Running

LEMMA CaseStmtStep == ASSUME CasesOutsideLoops, Inv, CaseStmt PROVE Inv'
<1>1. /\ Parsing({"case"}) /\ Contexts({"switch"}) # {}
      /\ IF Innermost(Jumps).lvl # defr THEN Reject
         ELSE /\ code' = code \o <<Label(<<"case", Innermost({"switch"}).id>>, defr)>>
              /\ open' = Within(open, "label")
              /\ UNCHANGED <<defr, phase, running>>
  BY DEF CaseStmt, Emit
<1>2. /\ phase = "parse" /\ count' = count + 1 /\ count \in Nat
      /\ used' = used \cup {"case"} /\ \E mix \in Mixes : used' \subseteq mix
  BY <1>1, ParsingIs
<1>3. CASE Innermost(Jumps).lvl # defr
  <2>1. count' \in Nat
    BY <1>2
  <2>2. QED
    BY <1>1, <1>2, <1>3, <2>1, RejectStep
<1>4. CASE Innermost(Jumps).lvl = defr
  <2>1. /\ code \in Seq(Instructions) /\ open \in Seq(Constructs) /\ defr \in Chains
        /\ Flow(code, open, defr, count) /\ Settled(code, open) /\ Numbered(open, count)
        /\ UsedKinds(used, code, open, defr)
    BY <1>2, Parsed DEF Types
  <2>2. PICK s \in Contexts({"switch"}) :
          Innermost({"switch"}) = open[s] /\ \A j \in Contexts({"switch"}) : j <= s
    BY <1>1, <2>1, InnermostIs
  <2>3. s \in 1..Len(open) /\ open[s].kind = "switch" /\ s \in Contexts(Jumps)
    BY <2>2 DEF Contexts, Jumps
  <2>4. PICK i \in Contexts(Jumps) : Innermost(Jumps) = open[i] /\ \A j \in Contexts(Jumps) : j <= i
    BY <2>1, <2>3, InnermostIs
  <2>5. i \in 1..Len(open) /\ open[i].kind \in Jumps /\ s <= i /\ open[i].lvl = defr
    BY <1>4, <2>3, <2>4 DEF Contexts
  <2>6. open[s].lvl = defr
    <3>1. CASE open[i].kind = "switch"
      <4>1. i \in Contexts({"switch"})
        BY <2>5, <3>1 DEF Contexts
      <4>2. i = s
        BY <2>2, <2>3, <2>5, <4>1
      <4>3. QED
        BY <2>5, <4>2
    <3>2. CASE open[i].kind \in {"for", "do"}
      <4>1. open[i].kind \in used /\ "switch" \in used
        BY <2>1, <2>3, <2>5, <3>2 DEF UsedKinds, Controls
      <4>2. used \cap Undoable = {}
        BY <1>2, <3>2, <4>1 DEF CasesOutsideLoops, Undoable
      <4>3. QED
        BY <2>1, <2>3, <4>2 DEF UsedKinds, Bare
    <3>3. QED
      BY <2>5, <3>1, <3>2 DEF Jumps
  <2>7. open[s].id \in 1..count
    BY <1>2, <2>3, ScopesAre DEF Controls
  <2>8. PICK l \in Places : l = <<"case", open[s].id>>
    <3>1. open[s].id \in Nat
      BY <1>2, <2>7
    <3>2. <<"case", open[s].id>> \in Places
      BY <3>1, PlacesAre
    <3>3. QED
      BY <3>2
  <2>9. ASSUME NEW n \in 1..Len(code), NEW m \in Nat,
               code[n].op = "dispatch", l = <<"case", m>>, code[n].to[2] = m
        PROVE  code[n].chain = defr
    <3>1. Formed(code[n], count) /\ Jumping(code[n]) /\ code[n].to = <<"brk", m>>
      BY <2>1, <2>9 DEF Flow, Formed, Jumping
    <3>2. m = open[s].id
      BY <2>7, <2>8, <2>9, PlacesAre
    <3>3. Promises(open[s], <<"brk", m>>)
      BY <2>3, <3>2 DEF Promises, Controls
    <3>4. LabelsAt(code, <<"brk", m>>) = {}
      BY <2>1, <2>3, <3>3 DEF Settled, Unmade, LabelsAt
    <3>5. Meets(code, open, code[n])
      BY <2>1, <3>1 DEF Flow, Kept
    <3>6. PICK k \in 1..Len(open) : Promises(open[k], <<"brk", m>>) /\ open[k].lvl = Goal(code[n])
      BY <3>1, <3>4, <3>5 DEF Meets
    <3>7. k = s
      BY <2>1, <2>3, <3>3, <3>6, SamePromise
    <3>8. QED
      BY <2>6, <2>9, <3>6, <3>7 DEF Goal
  <2>10. /\ code' = code \o <<Label(l, defr)>> /\ open' = Within(open, "label")
         /\ UNCHANGED <<defr, phase, running>> /\ \E m \in 1..count : l = <<"case", m>>
    BY <1>1, <1>4, <2>2, <2>7, <2>8
  <2>11. QED
    BY <1>1, <2>9, <2>10, PlainLabel
<1>5. QED
  BY <1>3, <1>4

----------------------------------------------------------------------------
(* Parsing: statements with a body, and blocks.                            *)
LEMMA TwoOn ==
  ASSUME NEW S, NEW op \in Seq(S), NEW c \in S, NEW b \in S
  PROVE  /\ op \o <<c, b>> \in Seq(S) /\ Len(op \o <<c, b>>) = Len(op) + 2
         /\ \A k \in 1..Len(op) : (op \o <<c, b>>)[k] = op[k]
         /\ (op \o <<c, b>>)[Len(op) + 1] = c /\ (op \o <<c, b>>)[Len(op) + 2] = b
<1>1. PICK n \in Nat : n = Len(op)
  BY LenProperties
<1>2. PICK o \in Seq(S) : o = Append(op, c) /\ Len(o) = n + 1 /\ (\A i \in 1..n : o[i] = op[i]) /\ o[n + 1] = c
  BY <1>1, AppendProperties
<1>3. PICK p \in Seq(S) : p = Append(o, b) /\ Len(p) = n + 1 + 1
                          /\ (\A i \in 1..(n + 1) : p[i] = o[i]) /\ p[n + 1 + 1] = b
  <2> DEFINE a == Append(o, b)
  <2>1. a \in Seq(S) /\ Len(a) = Len(o) + 1 /\ (\A i \in 1..Len(o) : a[i] = o[i]) /\ a[Len(o) + 1] = b
    BY AppendProperties
  <2>2. a = Append(o, b)
    OBVIOUS
  <2> HIDE DEF a
  <2>3. QED
    BY <1>2, <2>1, <2>2
<1>4. p = op \o <<c, b>>
  BY <1>2, <1>3, TwoMore
<1>5. /\ Len(p) = n + 2 /\ (\A i \in 1..n : p[i] = op[i]) /\ p[n + 1] = c /\ p[n + 2] = b
  BY <1>2, <1>3
<1>6. QED
  BY <1>1, <1>4, <1>5

(* What is opened stands in front of the body that is parsed next.         *)
LEMMA PushScoped ==
  ASSUME NEW op \in Seq(Constructs), op # <<>>, NEW n, Numbered(op, n),
         NEW c \in Constructs, NEW b \in Constructs, Scoped(op, c.outer),
         c.kind \in Controls, c.id \in 1..n, IsPrefix(c.outer, c.lvl), c.kind = "do" => c.lvl = c.outer,
         \A k \in 1..Len(op) : op[k].kind \in Controls => op[k].id # c.id,
         b.kind \in Bodies, b.outer = c.lvl,
         NEW op2, op2 = op \o <<c, b>>
  PROVE  Scoped(op2, c.lvl) /\ Numbered(op2, n)
<1>1. PICK z \in Nat \ {0} : z = Len(op)
  BY EmptySeq
<1>2. /\ op2 \in Seq(Constructs) /\ Len(op2) = z + 2 /\ (\A k \in 1..z : op2[k] = op[k])
      /\ op2[z + 1] = c /\ op2[z + 2] = b
  BY <1>1, TwoOn
<1>3. /\ c.outer \in Chains /\ c.lvl \in Chains /\ Base(c) = c.lvl /\ Base(b) = c.lvl
  BY ConstructsAre DEF Base, Bodies, Controls
<1>4. IsPrefix(c.lvl, c.lvl)
  BY <1>3, PrefixRefl DEF Chains
<1>5. ASSUME NEW k \in 1..z PROVE Base(op[k]) \in Chains /\ IsPrefix(Base(op[k]), c.outer) /\ IsPrefix(Base(op[k]), c.lvl)
  <2>1. Base(op[k]) \in Chains
    BY <1>1, ElementOfSeq, ConstructsAre
  <2>2. IsPrefix(Base(op[k]), c.outer)
    BY <1>1 DEF Scoped
  <2>3. QED
    BY <1>3, <2>1, <2>2, PrefixTrans DEF Chains
<1>6. Scoped(op2, c.lvl)
  <2>1. ASSUME NEW k \in 1..z
        PROVE  /\ IsPrefix(Base(op2[k]), c.lvl) /\ IsPrefix(op2[k].outer, Base(op2[k]))
               /\ k = 1 => op2[k].outer = <<>> /\ op2[k].kind = "block"
               /\ op2[k].kind \in Controls =>
                    k < z + 2 /\ op2[k + 1].kind \in Bodies /\ op2[k + 1].outer = op2[k].lvl
               /\ op2[k].kind = "do" => op2[k].lvl = op2[k].outer
               /\ \A j \in 1..(k - 1) : IsPrefix(Base(op2[j]), op2[k].outer)
    <3>1. op[k].kind \in Controls => k + 1 \in 1..z
      BY <1>1 DEF Scoped
    <3>2. QED
      BY <1>1, <1>2, <1>5, <3>1 DEF Scoped
  <2>2. op2 # <<>>
    BY <1>1, <1>2, EmptySeq
  <2>3. ASSUME NEW k \in {z + 1, z + 2}
        PROVE  /\ IsPrefix(Base(op2[k]), c.lvl) /\ IsPrefix(op2[k].outer, Base(op2[k]))
               /\ k # 1
               /\ op2[k].kind \in Controls =>
                    k < z + 2 /\ op2[k + 1].kind \in Bodies /\ op2[k + 1].outer = op2[k].lvl
               /\ op2[k].kind = "do" => op2[k].lvl = op2[k].outer
               /\ \A j \in 1..(k - 1) : IsPrefix(Base(op2[j]), op2[k].outer)
    <3>1. CASE k = z + 1
      <4>1. z + 1 + 1 = z + 2 /\ z + 1 - 1 = z
        OBVIOUS
      <4>2. QED
        BY <1>1, <1>2, <1>3, <1>4, <1>5, <3>1, <4>1
    <3>2. CASE k = z + 2
      <4>1. b.kind \notin Controls /\ b.kind # "do"
        BY DEF Bodies, Controls
      <4>2. \A j \in 1..(z + 1) : IsPrefix(Base(op2[j]), c.lvl)
        BY <1>2, <1>3, <1>4, <1>5
      <4>3. k - 1 = z + 1 /\ k # 1
        BY <3>2
      <4>4. QED
        BY <1>2, <1>3, <1>4, <3>2, <4>1, <4>2, <4>3
    <3>3. QED
      BY <3>1, <3>2
  <2>4. 1..Len(op2) = 1..z \cup {z + 1, z + 2}
    BY <1>2
  <2>5. QED
    BY <1>2, <2>1, <2>2, <2>3, <2>4 DEF Scoped
<1>7. Numbered(op2, n)
  <2>1. ASSUME NEW k \in 1..z, op2[k].kind \in Controls
        PROVE  op2[k].id \in 1..n /\ \A j \in 1..(k - 1) : op2[j].kind \in Controls => op2[j].id # op2[k].id
    BY <1>1, <1>2, <2>1 DEF Numbered
  <2>2. op2[z + 1].id \in 1..n /\ \A j \in 1..(z + 1 - 1) : op2[j].kind \in Controls => op2[j].id # op2[z + 1].id
    BY <1>1, <1>2
  <2>3. op2[z + 2].kind \notin Controls
    BY <1>2 DEF Bodies, Controls
  <2>4. QED
    BY <1>2, <2>1, <2>2, <2>3 DEF Numbered
<1>8. QED
  BY <1>6, <1>7

LEMMA PushSettled ==
  ASSUME NEW op \in Seq(Constructs), NEW c \in Constructs, NEW b \in Constructs, b.kind \in Bodies,
         NEW cd, Settled(cd, op), Unmade(cd, c), Begun(cd, c),
         NEW op2, op2 = op \o <<c, b>>
  PROVE  Settled(cd, op2)
<1>1. PICK z \in Nat : z = Len(op)
  BY LenProperties
<1>2. /\ Len(op2) = z + 2 /\ (\A k \in 1..z : op2[k] = op[k])
      /\ op2[z + 1] = c /\ op2[z + 2] = b
  BY <1>1, TwoOn
<1>3. Unmade(cd, b) /\ Begun(cd, b)
  BY DEF Unmade, Promises, Begun, Bodies, Controls
<1>4. \A k \in 1..(z + 2) : Unmade(cd, op2[k]) /\ Begun(cd, op2[k])
  BY <1>1, <1>2, <1>3 DEF Settled
<1>5. QED
  BY <1>2, <1>4 DEF Settled

LEMMA PushEnds ==
  ASSUME NEW op \in Seq(Constructs), NEW c \in Constructs, NEW b \in Constructs,
         \A k \in 1..Len(op) : Quiet(op[k]) /\ (op[k].last = "none" <=> op[k].first = "none"),
         Quiet(c), c.last = "none" <=> c.first = "none", b.first = "none", b.last = "none",
         NEW op2, op2 = op \o <<c, b>>
  PROVE  Ends(op2) /\ \A cd : Early(cd, op2)
<1>1. PICK z \in Nat : z = Len(op)
  BY LenProperties
<1>2. /\ Len(op2) = z + 2 /\ (\A k \in 1..z : op2[k] = op[k])
      /\ op2[z + 1] = c /\ op2[z + 2] = b
  BY <1>1, TwoOn
<1>3. Quiet(b) /\ ~LeavesEarly(b)
  BY DEF Quiet, LeavesEarly
<1>4. \A k \in 1..(z + 2) : Quiet(op2[k]) /\ (op2[k].last = "none" <=> op2[k].first = "none")
  BY <1>1, <1>2, <1>3
<1>5. Last(op2) = b
  BY <1>2 DEF Last
<1>6. QED
  BY <1>2, <1>3, <1>4, <1>5 DEF Ends, Early

LEMMA BareAppend ==
  ASSUME NEW cd \in Seq(Instructions), NEW x \in Instructions, x.chain = <<>>, NEW op, NEW d, Bare(cd, op, d)
  PROVE  Bare(Append(cd, x), op, d)
<1>1. PICK n \in Nat : n = Len(cd)
  BY LenProperties
<1>2. PICK c2 : c2 = Append(cd, x) /\ Len(c2) = n + 1 /\ (\A i \in 1..n : c2[i] = cd[i]) /\ c2[n + 1] = x
  BY <1>1, AppendProperties
<1>3. \A i \in 1..(n + 1) : c2[i].chain = <<>>
  BY <1>1, <1>2 DEF Bare
<1>4. QED
  BY <1>2, <1>3 DEF Bare

LEMMA BlockStep == ASSUME Inv, Block PROVE Inv'
<1>1. Parsing({"block"}) /\ open' = Append(open, Construct("block", count')) /\ UNCHANGED <<defr, code, phase, running>>
  BY DEF Block
<1>2. /\ phase = "parse" /\ open # <<>> /\ count' = count + 1 /\ count \in Nat
      /\ used' = used \cup {"block"} /\ (\E mix \in Mixes : used' \subseteq mix)
      /\ \A k \in 1..Len(open) : Quiet(open[k]) /\ (open[k].last = "none" <=> open[k].first = "none")
  BY <1>1, ParsingIs
<1>3. /\ Flow(code, open, defr, count') /\ Scoped(open, defr) /\ Numbered(open, count) /\ Settled(code, open)
      /\ UsedKinds(used, code, open, defr) /\ open \in Seq(Constructs) /\ code \in Seq(Instructions) /\ defr \in Chains
      /\ count' \in Nat
  BY <1>2, Parsed, FlowNext DEF Types
<1>4. PICK c \in Constructs : /\ c = Construct("block", count')
                              /\ c.kind = "block" /\ c.outer = defr /\ c.lvl = defr
                              /\ c.first = "none" /\ c.last = "none"
  <2> DEFINE e == Construct("block", count')
  <2>1. /\ e \in Constructs /\ e.kind = "block" /\ e.outer = defr /\ e.lvl = defr
        /\ e.first = "none" /\ e.last = "none"
    BY <1>3 DEF Construct, Constructs, Bodies
  <2> HIDE DEF e
  <2>2. e = Construct("block", count')
    BY DEF e
  <2>3. QED
    BY <2>1, <2>2
<1>5. PICK z \in Nat \ {0} : z = Len(open)
  BY <1>2, <1>3, EmptySeq
<1>6. PICK o \in Seq(Constructs) : o = open' /\ Len(o) = z + 1 /\ o # <<>>
                                   /\ (\A k \in 1..z : o[k] = open[k]) /\ o[z + 1] = c
  <2> DEFINE a == Append(open, c)
  <2>1. /\ a \in Seq(Constructs) /\ Len(a) = Len(open) + 1 /\ a # <<>>
        /\ (\A k \in 1..Len(open) : a[k] = open[k]) /\ a[Len(open) + 1] = c
    BY <1>3, AppendProperties
  <2>2. a = open'
    BY <1>1, <1>4
  <2> HIDE DEF a
  <2>3. QED
    BY <1>5, <2>1, <2>2
<1>7. Base(c) = defr /\ IsPrefix(defr, defr) /\ c.kind \notin Controls /\ c.kind # "do"
  BY <1>3, <1>4, PrefixRefl DEF Base, Controls, Chains
<1>8. Scoped(o, defr)
  <2>1. ASSUME NEW k \in 1..z
        PROVE  /\ IsPrefix(Base(o[k]), defr) /\ IsPrefix(o[k].outer, Base(o[k]))
               /\ k = 1 => o[k].outer = <<>> /\ o[k].kind = "block"
               /\ o[k].kind \in Controls =>
                    k < z + 1 /\ o[k + 1].kind \in Bodies /\ o[k + 1].outer = o[k].lvl
               /\ o[k].kind = "do" => o[k].lvl = o[k].outer
               /\ \A j \in 1..(k - 1) : IsPrefix(Base(o[j]), o[k].outer)
    <3>1. open[k].kind \in Controls =>
            k + 1 \in 1..z /\ open[k + 1].kind \in Bodies /\ open[k + 1].outer = open[k].lvl
      BY <1>3, <1>5 DEF Scoped
    <3>2. /\ IsPrefix(Base(open[k]), defr) /\ IsPrefix(open[k].outer, Base(open[k]))
          /\ k = 1 => open[k].outer = <<>> /\ open[k].kind = "block"
          /\ open[k].kind = "do" => open[k].lvl = open[k].outer
          /\ \A j \in 1..(k - 1) : IsPrefix(Base(open[j]), open[k].outer)
      BY <1>3, <1>5 DEF Scoped
    <3>3. \A j \in 1..(k - 1) : o[j] = open[j]
      BY <1>6
    <3>4. o[k] = open[k] /\ k < z + 1 /\ (k + 1 \in 1..z => o[k + 1] = open[k + 1])
      BY <1>6
    <3>5. QED
      BY <3>1, <3>2, <3>3, <3>4
  <2>2. ASSUME NEW k \in {z + 1}
        PROVE  /\ IsPrefix(Base(o[k]), defr) /\ IsPrefix(o[k].outer, Base(o[k]))
               /\ k # 1 /\ o[k].kind \notin Controls /\ o[k].kind # "do"
               /\ \A j \in 1..(k - 1) : IsPrefix(Base(o[j]), o[k].outer)
    <3>1. \A j \in 1..z : IsPrefix(Base(o[j]), defr)
      BY <1>3, <1>5, <1>6 DEF Scoped
    <3>2. k - 1 = z
      OBVIOUS
    <3>3. QED
      BY <1>4, <1>6, <1>7, <3>1, <3>2
  <2>3. 1..Len(o) = 1..z \cup {z + 1}
    BY <1>6
  <2>4. QED
    BY <1>6, <2>1, <2>2, <2>3 DEF Scoped
<1>9. Numbered(o, count')
  <2>1. 1..count \subseteq 1..count'
    BY <1>2
  <2>2. ASSUME NEW k \in 1..z, o[k].kind \in Controls
        PROVE  o[k].id \in 1..count' /\ \A j \in 1..(k - 1) : o[j].kind \in Controls => o[j].id # o[k].id
    <3>1. o[k] = open[k] /\ \A j \in 1..(k - 1) : o[j] = open[j]
      BY <1>6
    <3>2. open[k].id \in 1..count /\ \A j \in 1..(k - 1) : open[j].kind \in Controls => open[j].id # open[k].id
      BY <1>3, <1>5, <2>2, <3>1 DEF Numbered
    <3>3. QED
      BY <2>1, <3>1, <3>2
  <2>3. QED
    BY <1>6, <1>7, <2>2 DEF Numbered
<1>10. Settled(code, o)
  <2>1. Unmade(code, c) /\ Begun(code, c)
    BY <1>4, <1>7 DEF Unmade, Promises, Begun
  <2>2. \A k \in 1..(z + 1) : Unmade(code, o[k]) /\ Begun(code, o[k])
    BY <1>3, <1>5, <1>6, <2>1 DEF Settled
  <2>3. QED
    BY <1>6, <2>2 DEF Settled
<1>11. Ends(o) /\ Early(code, o)
  <2>1. Quiet(c) /\ ~LeavesEarly(c)
    BY <1>4 DEF Quiet, LeavesEarly
  <2>2. \A k \in 1..(z + 1) : Quiet(o[k]) /\ (o[k].last = "none" <=> o[k].first = "none")
    BY <1>2, <1>4, <1>5, <1>6, <2>1
  <2>3. Last(o) = c
    BY <1>6 DEF Last
  <2>4. QED
    BY <1>6, <2>1, <2>2, <2>3 DEF Ends, Early
<1>12. UsedKinds(used', code, o, defr)
  <2>1. \A k \in 1..(z + 1) : o[k].kind \in Controls \ {"else"} => o[k].kind \in used'
    BY <1>2, <1>3, <1>5, <1>6, <1>7 DEF UsedKinds
  <2>2. ASSUME used' \cap Undoable = {} PROVE Bare(code, o, defr)
    <3>1. Bare(code, open, defr)
      BY <1>2, <1>3, <2>2 DEF UsedKinds
    <3>2. \A k \in 1..(z + 1) : o[k].lvl = <<>>
      BY <1>4, <1>5, <1>6, <3>1 DEF Bare
    <3>3. QED
      BY <1>6, <3>1, <3>2 DEF Bare
  <2>3. QED
    BY <1>2, <1>6, <2>1, <2>2 DEF UsedKinds
<1>13. Flow(code, o, defr, count')
  <2>1. Kept(code, o)
    <3>1. Kept(code, open)
      BY <1>3 DEF Flow
    <3>2. \A k \in 1..Len(open) : k \in 1..Len(o) /\ o[k] = open[k]
      BY <1>5, <1>6
    <3>3. QED
      BY <3>1, <3>2, KeptMove
  <2>2. QED
    BY <1>3, <2>1 DEF Flow
<1>14. /\ code' = code /\ defr' = defr /\ UNCHANGED <<phase, running>>
  BY <1>1
<1>15. QED
  BY <1>2, <1>3, <1>6, <1>8, <1>9, <1>10, <1>11, <1>12, <1>13, <1>14, StillParsing

(* A statement c with the body b is opened; a loop begins with a label.    *)
Starts(c) == IF c.kind \in {"for", "do"} THEN <<Label(<<"bg", c.id>>, c.outer)>> ELSE <<>>

LEMMA LoopStarts ==
  ASSUME NEW cd \in Seq(Instructions), NEW op, NEW op2, NEW m \in Nat, m > 0, NEW d \in Chains,
         Flow(cd, op2, d, m), Settled(cd, op),
         \A k \in 1..Len(op) : op[k].kind \in Controls => op[k].id # m,
         NEW c, c.id = m, c.outer = d, Unmade(cd, c),
         LabelsAt(cd, <<"bg", m>>) = {}, LabelsAt(cd, <<"case", m>>) = {}
  PROVE  /\ cd \o <<Label(<<"bg", m>>, d)>> \in Seq(Instructions)
         /\ Flow(cd \o <<Label(<<"bg", m>>, d)>>, op2, d, m) /\ Settled(cd \o <<Label(<<"bg", m>>, d)>>, op)
         /\ Unmade(cd \o <<Label(<<"bg", m>>, d)>>, c) /\ Begun(cd \o <<Label(<<"bg", m>>, d)>>, c)
         /\ LabelsAt(cd \o <<Label(<<"bg", m>>, d)>>, <<"case", m>>) = {}
         /\ Bare(cd, op, d) => Bare(cd \o <<Label(<<"bg", m>>, d)>>, op, d)
<1> DEFINE x == Label(<<"bg", m>>, d)
           c2 == Append(cd, x)
<1>1. x \in Instructions /\ x.op = "label" /\ x.chain = d /\ x.to = <<"bg", m>>
  BY PlacesAre, LabelIs
<1>2. cd \o <<x>> = c2
  BY <1>1, OneMore
<1>3. \A u, v : <<"bg", u>> # <<"brk", v>> /\ <<"bg", u>> # <<"cont", v>> /\ <<"bg", u>> # <<"case", v>>
                /\ (<<"bg", u>> = <<"bg", v>> => u = v)
  OBVIOUS
<1>4. \A k : ~Promises(k, <<"bg", m>>)
  BY <1>3 DEF Promises
<1>5. Flow(c2, op2, d, m)
  <2>1. m \in 1..m
    OBVIOUS
  <2>2. QED
    BY <1>4, <2>1, FlowLabel
<1> HIDE DEF x
<1>6. Settled(c2, op)
  <2>1. \A k \in 1..Len(op) : op[k].kind \in {"for", "do"} => x.to # <<"bg", op[k].id>>
    BY <1>1, <1>3 DEF Controls
  <2>2. QED
    BY <1>1, <1>4, <2>1, SettledAppend
<1>7. PICK y \in Nat : y = Len(cd)
  BY LenProperties
<1>8. c2 \in Seq(Instructions) /\ Len(c2) = y + 1 /\ (\A k \in 1..y : c2[k] = cd[k]) /\ c2[y + 1] = x
  BY <1>1, <1>7, AppendProperties
<1>9. \A l : LabelsAt(c2, l) = LabelsAt(cd, l) \cup {i \in {y + 1} : x.op = "label" /\ x.to = l}
  BY <1>1, <1>7, LabelsAppend
<1>10. Bare(cd, op, d) => Bare(c2, op, d)
  BY <1>1, BareAppend DEF Bare
<1> HIDE DEF c2
<1>11. Unmade(c2, c)
  <2>1. \A p \in 1..y : c2[p].op = "label" => ~Promises(c, c2[p].to)
    BY <1>7, <1>8 DEF Unmade
  <2>2. ~Promises(c, c2[y + 1].to)
    BY <1>1, <1>4, <1>8
  <2>3. QED
    BY <1>8, <2>1, <2>2 DEF Unmade
<1>12. LabelsAt(c2, <<"bg", m>>) = {y + 1}
  BY <1>1, <1>9
<1>13. Begun(c2, c)
  BY <1>1, <1>8, <1>12 DEF Begun
<1>14. LabelsAt(c2, <<"case", m>>) = {}
  BY <1>1, <1>3, <1>9
<1>15. QED
  BY <1>2, <1>5, <1>6, <1>8, <1>10, <1>11, <1>13, <1>14 DEF x

Opening(c, b, m) ==
  /\ c \in Constructs /\ c.kind \in Controls \ {"else"} /\ c.id = m
  /\ c.outer = defr /\ IsPrefix(defr, c.lvl) /\ (c.kind = "do" => c.lvl = defr)
  /\ b \in Constructs /\ b.kind \in Bodies /\ b.outer = c.lvl /\ b.lvl = defr
  /\ c.first = "none" /\ c.last = "none" /\ b.first = "none" /\ b.last = "none"
OpenedTo(cd, op2, c, m) ==
  /\ op2 \in Seq(Constructs) /\ cd \in Seq(Instructions)
  /\ Flow(cd, op2, defr, m) /\ Settled(cd, op2)
  /\ Scoped(op2, c.lvl) /\ Numbered(op2, m) /\ Ends(op2) /\ (\A d : Early(d, op2))
  /\ LabelsAt(cd, <<"case", m>>) = {}
  /\ \A k \in 1..Len(op2) : op2[k].kind \in Controls \ {"else"} => op2[k].kind \in used \cup {c.kind}
  /\ used \cap Undoable = {} /\ c.lvl = <<>> => Bare(cd, op2, <<>>)
  /\ \E k \in 1..Len(op2) : op2[k] = c

LEMMA Opened ==
  ASSUME Inv, NEW kinds, Parsing(kinds), NEW c, NEW b, Opening(c, b, count')
  PROVE  OpenedTo(code \o Starts(c), open \o <<c, b>>, c, count')
<1> USE DEF Opening
<1>o. PICK op2 : op2 = open \o <<c, b>>
  OBVIOUS
<1>1. /\ phase = "parse" /\ open # <<>> /\ count' = count + 1 /\ count \in Nat /\ count' \in 1..count'
      /\ \A k \in 1..Len(open) : Quiet(open[k]) /\ (open[k].last = "none" <=> open[k].first = "none")
  <2>1. /\ phase = "parse" /\ open # <<>> /\ count' = count + 1 /\ count \in Nat
        /\ \A k \in 1..Len(open) : Quiet(open[k]) /\ (open[k].last = "none" <=> open[k].first = "none")
    BY ParsingIs
  <2>2. QED
    BY <2>1
<1>2. /\ Flow(code, open, defr, count') /\ Flow(code, open, defr, count)
      /\ Scoped(open, defr) /\ Numbered(open, count) /\ Settled(code, open)
      /\ UsedKinds(used, code, open, defr) /\ open \in Seq(Constructs) /\ code \in Seq(Instructions) /\ defr \in Chains
      /\ count' \in Nat
  BY <1>1, Parsed, FlowNext DEF Types
<1>3. PICK z \in Nat : z = Len(open)
  BY <1>2, LenProperties
<1>4. /\ op2 \in Seq(Constructs) /\ Len(op2) = z + 2 /\ (\A k \in 1..z : op2[k] = open[k])
      /\ op2[z + 1] = c /\ op2[z + 2] = b
  BY <1>o, <1>2, <1>3, TwoOn
<1>5. PICK m \in Nat : m = count' /\ m > count /\ m \in 1..m
  BY <1>1, <1>2
<1>6. \A w \in {"bg", "brk", "cont", "case"} : LabelsAt(code, <<w, m>>) = {}
  BY <1>1, <1>2, <1>5, NumbersAreNew
<1>7. Unmade(code, c)
  BY <1>5, <1>6 DEF Unmade, Promises, LabelsAt
<1>8. ASSUME NEW k \in 1..z, open[k].kind \in Controls PROVE open[k].id # m
  <2>1. open[k].id \in 1..count
    BY <1>2, <1>3, <1>8 DEF Numbered
  <2>2. QED
    BY <1>1, <1>5, <2>1
<1>9. Kept(code, op2)
  <2>1. Kept(code, open)
    BY <1>2 DEF Flow
  <2>2. \A k \in 1..Len(open) : k \in 1..Len(op2) /\ op2[k] = open[k]
    BY <1>3, <1>4
  <2>3. QED
    BY <2>1, <2>2, KeptMove
<1>10. Flow(code, op2, defr, m)
  BY <1>2, <1>5, <1>9 DEF Flow
<1>11. /\ code \o Starts(c) \in Seq(Instructions)
       /\ Flow(code \o Starts(c), op2, defr, m) /\ Settled(code \o Starts(c), open)
       /\ Unmade(code \o Starts(c), c) /\ Begun(code \o Starts(c), c)
       /\ LabelsAt(code \o Starts(c), <<"case", m>>) = {}
       /\ Bare(code, open, defr) => Bare(code \o Starts(c), open, defr)
  <2>1. CASE c.kind \notin {"for", "do"}
    <3>1. code \o Starts(c) = code
      BY <1>2, <2>1, ConcatEmptySeq DEF Starts
    <3>2. Begun(code, c)
      BY <2>1 DEF Begun
    <3>3. QED
      BY <1>2, <1>6, <1>7, <1>10, <3>1, <3>2
  <2>2. CASE c.kind \in {"for", "do"}
    <3>1. Starts(c) = <<Label(<<"bg", m>>, defr)>>
      BY <1>5, <2>2 DEF Starts
    <3>2. \A k \in 1..Len(open) : open[k].kind \in Controls => open[k].id # m
      BY <1>3, <1>8
    <3>3. m > 0 /\ c.id = m
      BY <1>1, <1>5
    <3>4. LabelsAt(code, <<"bg", m>>) = {} /\ LabelsAt(code, <<"case", m>>) = {}
      BY <1>6
    <3>5. PICK d \in Chains : d = defr
      BY <1>2
    <3>6. /\ code \o <<Label(<<"bg", m>>, d)>> \in Seq(Instructions)
          /\ Flow(code \o <<Label(<<"bg", m>>, d)>>, op2, d, m) /\ Settled(code \o <<Label(<<"bg", m>>, d)>>, open)
          /\ Unmade(code \o <<Label(<<"bg", m>>, d)>>, c) /\ Begun(code \o <<Label(<<"bg", m>>, d)>>, c)
          /\ LabelsAt(code \o <<Label(<<"bg", m>>, d)>>, <<"case", m>>) = {}
          /\ Bare(code, open, d) => Bare(code \o <<Label(<<"bg", m>>, d)>>, open, d)
      <4>1. c.outer = d /\ Flow(code, op2, d, m)
        BY <1>10, <3>5
      <4>2. QED
        BY <1>2, <1>7, <3>2, <3>3, <3>4, <4>1, LoopStarts
    <3>7. QED
      BY <3>1, <3>5, <3>6
  <2>3. QED
    BY <2>1, <2>2
<1>12. Settled(code \o Starts(c), op2)
  BY <1>o, <1>2, <1>11, PushSettled
<1>13. Numbered(open, m)
  <2>1. 1..count \subseteq 1..m
    BY <1>1, <1>5
  <2>2. QED
    BY <1>2, <2>1 DEF Numbered
<1>14. Scoped(op2, c.lvl) /\ Numbered(op2, m)
  BY <1>1, <1>2, <1>3, <1>5, <1>8, <1>13, <1>o, PushScoped
<1>15. Ends(op2) /\ \A cd : Early(cd, op2)
  <2>1. Quiet(c)
    BY DEF Quiet
  <2>2. QED
    BY <1>o, <1>1, <1>2, <2>1, PushEnds
<1>16. \A k \in 1..Len(op2) : op2[k].kind \in Controls \ {"else"} => op2[k].kind \in used \cup {c.kind}
  <2>1. b.kind \notin Controls
    BY DEF Bodies, Controls
  <2>2. 1..Len(op2) = 1..z \cup {z + 1, z + 2}
    BY <1>4
  <2>3. QED
    BY <1>2, <1>3, <1>4, <2>1, <2>2 DEF UsedKinds
<1>17. ASSUME used \cap Undoable = {}, c.lvl = <<>> PROVE Bare(code \o Starts(c), op2, <<>>)
  <2>1. Bare(code, open, defr)
    BY <1>2, <1>17 DEF UsedKinds
  <2>2. Bare(code \o Starts(c), open, defr) /\ b.lvl = <<>>
    BY <1>11, <2>1 DEF Bare
  <2>3. 1..Len(op2) = 1..z \cup {z + 1, z + 2}
    BY <1>4
  <2>4. \A k \in 1..Len(op2) : op2[k].lvl = <<>>
    BY <1>3, <1>4, <1>17, <2>2, <2>3 DEF Bare
  <2>5. QED
    BY <2>2, <2>4 DEF Bare
<1>18. \E k \in 1..Len(op2) : op2[k] = c
  <2>1. z + 1 \in 1..Len(op2)
    BY <1>3, <1>4
  <2>2. QED
    BY <1>4, <2>1
<1>19. OpenedTo(code \o Starts(c), op2, c, m)
  BY <1>4, <1>5, <1>11, <1>12, <1>14, <1>15, <1>16, <1>17, <1>18 DEF OpenedTo
<1>20. QED
  BY <1>o, <1>5, <1>19

(* The condition of a statement declares a variable that is cleaned up.    *)
LEMMA DeclaredAt ==
  ASSUME NEW cd \in Seq(Instructions), NEW op, NEW m \in Nat, NEW d \in Chains,
         Flow(cd, op, d, m), Settled(cd, op), NEW l, LabelsAt(cd, l) = {},
         NEW x, x = [op |-> "defer", chain |-> d, from |-> d, dest |-> d, to |-> <<m>>]
  PROVE  /\ cd \o <<x>> \in Seq(Instructions) /\ Settled(cd \o <<x>>, op) /\ LabelsAt(cd \o <<x>>, l) = {}
         /\ Flow(cd \o <<x>>, op, Append(d, [id |-> m, kind |-> "fn"]), m)
<1>1. <<m>> \in Places /\ <<m>>[1] = m
  BY PlacesAre
<1>2. /\ x \in Instructions /\ x.op = "defer" /\ x.chain = d /\ x.to = <<m>>
  BY <1>1, InstructionIs DEF Falling
<1>3. Formed(x, m) /\ ~Jumping(x)
  BY <1>1, <1>2 DEF Formed, Jumping
<1>4. PICK e : e = Append(d, [id |-> m, kind |-> "fn"]) /\ e = After(x)
  BY <1>1, <1>2 DEF After
<1>5. Flow(Append(cd, x), op, e, m)
  BY <1>2, <1>3, <1>4, FlowAppend
<1>6. Settled(Append(cd, x), op) /\ Append(cd, x) \in Seq(Instructions) /\ LabelsAt(Append(cd, x), l) = {}
  BY <1>2, SettledAppend, AppendProperties, LabelsAppend
<1>7. cd \o <<x>> = Append(cd, x)
  BY <1>2, OneMore
<1>8. QED
  BY <1>4, <1>5, <1>6, <1>7

(* The condition jumps past the statement, or to a case of it.             *)
LEMMA TestedAt ==
  ASSUME NEW cd \in Seq(Instructions), NEW op, NEW m \in Nat, m > 0, NEW d \in Chains,
         Flow(cd, op, d, m), Settled(cd, op), LabelsAt(cd, <<"case", m>>) = {},
         NEW k \in 1..Len(op), op[k].kind \in Controls, op[k].id = m, op[k].lvl = d,
         NEW o \in {"branch", "dispatch"},
         NEW x, x = [op |-> o, chain |-> d, from |-> d, dest |-> d, to |-> <<"brk", m>>]
  PROVE  /\ cd \o <<x>> \in Seq(Instructions) /\ Settled(cd \o <<x>>, op)
         /\ Flow(cd \o <<x>>, op, d, m)
         /\ d = <<>> /\ Bare(cd, op, d) => Bare(cd \o <<x>>, op, d)
<1>1. <<"brk", m>> \in Places /\ <<"brk", m>>[2] = m /\ <<"brk", m>> # <<"rtn">>
  BY PlacesAre
<1>2. /\ x \in Instructions /\ x.op = o /\ x.chain = d /\ x.to = <<"brk", m>>
  BY <1>1, InstructionIs DEF Falling, Leaving
<1>3. m \in 1..m
  OBVIOUS
<1>4. Formed(x, m)
  BY <1>1, <1>2, <1>3 DEF Formed, Jumping
<1>5. Promises(op[k], x.to)
  BY <1>2 DEF Promises
<1>6. LabelsAt(cd, x.to) = {}
  BY <1>5 DEF Settled, Unmade, LabelsAt
<1>7. Meets(cd, op, x)
  BY <1>1, <1>2, <1>5, <1>6 DEF Meets, Goal
<1>8. x.op \notin Falling \/ d = After(x)
  BY <1>2 DEF After, Falling
<1>9. Flow(Append(cd, x), op, d, m)
  BY <1>2, <1>4, <1>7, <1>8, FlowAppend
<1>10. Settled(Append(cd, x), op) /\ Append(cd, x) \in Seq(Instructions)
  BY <1>2, SettledAppend, AppendProperties
<1>11. d = <<>> /\ Bare(cd, op, d) => Bare(Append(cd, x), op, d)
  BY <1>2, BareAppend
<1>12. cd \o <<x>> = Append(cd, x)
  BY <1>2, OneMore
<1>13. QED
  BY <1>9, <1>10, <1>11, <1>12

(* Membership is kept under a name here: each sequence that is known to be   *)
(* one makes the provers build the concatenations with all the others.     *)
IsSeq(s, S) == s \in Seq(S)

LEMMA Associative ==
  ASSUME NEW S, NEW s, NEW t, NEW u, IsSeq(s, S), IsSeq(t, S), IsSeq(u, S)
  PROVE  IsSeq(s \o t, S) /\ (s \o t) \o u = s \o (t \o u)
BY ConcatAssociative, ConcatProperties DEF IsSeq

InParts(S, a, b, c, d, ab, abc, r) ==
  /\ ab = a \o b /\ abc = ab \o c /\ r = a \o ((b \o c) \o d)
  /\ IsSeq(a, S) /\ IsSeq(b, S) /\ IsSeq(c, S) /\ IsSeq(d, S)

LEMMA Parts ==
  ASSUME NEW S, NEW a, NEW b, NEW c, NEW d, NEW ab, NEW abc, NEW r, InParts(S, a, b, c, d, ab, abc, r)
  PROVE  r = abc \o d
<1> USE DEF InParts
<1>1. PICK e : e = b \o c /\ IsSeq(e, S)
  BY Associative
<1>2. a \o (e \o d) = (a \o e) \o d
  BY <1>1, Associative
<1>3. a \o e = ab \o c
  BY <1>1, Associative
<1>4. QED
  BY <1>1, <1>2, <1>3

LEMMA StatementStep ==
  ASSUME Inv, NEW kind \in {"if", "for", "switch"}, NEW o \in {"branch", "dispatch"}, NEW before,
         before = (IF kind = "for" THEN <<Label(<<"bg", count'>>, defr)>> ELSE <<>>),
         NEW bodies, bodies \subseteq Bodies, Statement(kind, before, o, bodies)
  PROVE  Inv'
<1>1. PICK declares \in BOOLEAN, body \in bodies :
        /\ Parsing(IF declares THEN {kind, "cleanup"} ELSE {kind})
        /\ defr' = IF declares THEN new_defr("fn") ELSE defr
        /\ Emit(before \o (IF declares THEN <<Plain("defer", <<count'>>)>> ELSE <<>>)
               \o << [op |-> o, chain |-> defr', from |-> defr', dest |-> defr', to |-> <<"brk", count'>>] >>)
        /\ open' = open \o << [Construct(kind, count') EXCEPT !.lvl = defr'],
                             [Construct(body, 0) EXCEPT !.outer = defr'] >>
  BY DEF Statement
<1>2. PICK kinds : kinds = (IF declares THEN {kind, "cleanup"} ELSE {kind}) /\ Parsing(kinds)
  BY <1>1
<1>3. /\ phase = "parse" /\ count \in Nat /\ count' = count + 1
      /\ used' = used \cup kinds /\ \E mix \in Mixes : used' \subseteq mix
  BY <1>2, ParsingIs
<1>4. Types /\ UNCHANGED <<phase, running>>
  BY <1>3, Parsed DEF Statement
<1>5. PICK m \in Nat : m = count' /\ m > 0
  BY <1>3
<1>6. PICK d \in Chains : d = defr' /\ IsPrefix(defr, d) /\ (declares => d = Append(defr, [id |-> m, kind |-> "fn"]))
                          /\ (~declares => d = defr)
  <2>1. CASE declares
    BY <1>1, <1>4, <1>5, <2>1, DefrIs DEF new_defr
  <2>2. CASE ~declares
    BY <1>1, <1>4, <2>2, PrefixRefl DEF Types, Chains
  <2>3. QED
    BY <2>1, <2>2
<1>p. PICK c, b : c = [Construct(kind, m) EXCEPT !.lvl = d] /\ b = [Construct(body, 0) EXCEPT !.outer = d]
  OBVIOUS
<1>7. /\ c \in Constructs /\ b \in Constructs
      /\ c.kind = kind /\ c.id = m /\ c.outer = defr /\ c.lvl = d /\ c.first = "none" /\ c.last = "none"
      /\ b.kind = body /\ b.outer = d /\ b.lvl = defr /\ b.first = "none" /\ b.last = "none"
  <2>1. kind \in Controls /\ body \in Bodies /\ defr \in Chains
    BY <1>1, <1>4 DEF Controls, Types
  <2>2. QED
    BY <1>p, <2>1 DEF Construct, Constructs
<1>8. Opening(c, b, m)
  BY <1>1, <1>6, <1>7 DEF Opening, Controls
<1>9. PICK c1, op2 : c1 = code \o Starts(c) /\ op2 = open \o <<c, b>>
  OBVIOUS
<1>10. OpenedTo(c1, op2, c, m)
  BY <1>2, <1>5, <1>8, <1>9, Opened
<1>o. op2 = open' /\ before = Starts(c)
  <2>1. op2 = open'
    BY <1>1, <1>5, <1>6, <1>p, <1>9
  <2>2. before = Starts(c)
    BY <1>5, <1>7 DEF Starts
  <2>3. QED
    BY <2>1, <2>2
<1>11. PICK declared : declared = IF declares THEN <<Plain("defer", <<count'>>)>> ELSE <<>>
  OBVIOUS
<1>12. PICK c2 :
         /\ c2 = c1 \o declared /\ c2 \in Seq(Instructions) /\ declared \in Seq(Instructions)
         /\ Flow(c2, op2, d, m) /\ Settled(c2, op2) /\ LabelsAt(c2, <<"case", m>>) = {}
         /\ ~declares => c2 = c1
  <2>1. CASE declares
    <3>1. PICK x : x = Plain("defer", <<m>>)
                   /\ x = [op |-> "defer", chain |-> defr, from |-> defr, dest |-> defr, to |-> <<m>>]
      BY DEF Plain, Instr
    <3>2. defr \in Chains /\ <<m>> \in Places
      BY <1>4, PlacesAre DEF Types
    <3>3. declared = <<x>> /\ x \in Instructions
      BY <1>5, <1>11, <2>1, <3>1, <3>2, InstructionIs DEF Falling
    <3>4. /\ c1 \o <<x>> \in Seq(Instructions) /\ Settled(c1 \o <<x>>, op2)
          /\ LabelsAt(c1 \o <<x>>, <<"case", m>>) = {}
          /\ Flow(c1 \o <<x>>, op2, Append(defr, [id |-> m, kind |-> "fn"]), m)
      BY <1>10, <3>1, <3>2, DeclaredAt DEF OpenedTo
    <3>5. d = Append(defr, [id |-> m, kind |-> "fn"])
      BY <1>6, <2>1
    <3>6. PICK e : e = c1 \o <<x>> /\ e = c1 \o declared
      BY <3>3
    <3>7. /\ e \in Seq(Instructions) /\ Settled(e, op2) /\ LabelsAt(e, <<"case", m>>) = {}
          /\ Flow(e, op2, d, m)
      BY <3>4, <3>5, <3>6
    <3>8. declared \in Seq(Instructions)
      BY <3>3
    <3>9. QED
      BY <2>1, <3>6, <3>7, <3>8
  <2>2. CASE ~declares
    <3>1. declared = <<>> /\ c1 \o declared = c1 /\ declared \in Seq(Instructions)
      BY <1>10, <1>11, <2>2, ConcatEmptySeq, EmptySeq DEF OpenedTo
    <3>2. QED
      BY <1>6, <1>10, <2>2, <3>1 DEF OpenedTo
  <2>3. QED
    BY <2>1, <2>2
<1>13. PICK x : x = [op |-> o, chain |-> d, from |-> d, dest |-> d, to |-> <<"brk", m>>]
  OBVIOUS
<1>14. /\ c2 \o <<x>> \in Seq(Instructions) /\ Settled(c2 \o <<x>>, op2) /\ Flow(c2 \o <<x>>, op2, d, m)
       /\ d = <<>> /\ Bare(c2, op2, d) => Bare(c2 \o <<x>>, op2, d)
  <2>1. PICK k \in 1..Len(op2) : op2[k].kind \in Controls /\ op2[k].id = m /\ op2[k].lvl = d
    BY <1>7, <1>10 DEF Controls, OpenedTo
  <2>2. c2 \in Seq(Instructions) /\ m > 0 /\ Flow(c2, op2, d, m) /\ Settled(c2, op2) /\ LabelsAt(c2, <<"case", m>>) = {}
    BY <1>5, <1>12
  <2>3. QED
    BY <1>13, <2>1, <2>2, TestedAt
<1>15. code' = c2 \o <<x>>
  <2>1. before \in Seq(Instructions)
    <3>1. <<"bg", m>> \in Places /\ defr \in Chains
      BY <1>4, PlacesAre DEF Types
    <3>2. Label(<<"bg", m>>, defr) \in Instructions
      BY <3>1, LabelIs
    <3>3. QED
      BY <1>5, <3>2
  <2>2. x \in Instructions
    <3>1. <<"brk", m>> \in Places
      BY PlacesAre
    <3>2. QED
      BY <1>13, <3>1, InstructionIs DEF Falling, Leaving
  <2>3. <<x>> \in Seq(Instructions) /\ code \in Seq(Instructions)
    BY <1>4, <2>2 DEF Types
  <2>4. code' = code \o ((before \o declared) \o <<x>>)
    BY <1>1, <1>5, <1>6, <1>11, <1>13 DEF Emit
  <2>5. IsSeq(code, Instructions) /\ IsSeq(before, Instructions) /\ IsSeq(declared, Instructions)
        /\ IsSeq(<<x>>, Instructions)
    BY <1>12, <2>1, <2>3 DEF IsSeq
  <2>6. PICK t, r : t = <<x>> /\ r = code'
    OBVIOUS
  <2>7. c1 = code \o before /\ c2 = c1 \o declared /\ r = code \o ((before \o declared) \o t)
        /\ IsSeq(code, Instructions) /\ IsSeq(before, Instructions) /\ IsSeq(declared, Instructions)
        /\ IsSeq(t, Instructions)
    BY <1>o, <1>9, <1>12, <2>4, <2>5, <2>6
  <2>8. InParts(Instructions, code, before, declared, t, c1, c2, r)
    BY <2>7 DEF InParts
  <2>9. r = c2 \o t
    BY <2>8, Parts
  <2>10. QED
    BY <2>6, <2>9
<1>16. UsedKinds(used', code', open', defr')
  <2>1. used \cup {kind} \subseteq used'
    BY <1>2, <1>3
  <2>2. ASSUME used' \cap Undoable = {} PROVE Bare(code', open', defr')
    <3>1. ~declares /\ used \cap Undoable = {}
      BY <1>2, <1>3, <2>2 DEF Undoable
    <3>2. defr = <<>> /\ d = <<>> /\ c2 = c1
      BY <1>3, <1>6, <1>12, <3>1, Parsed DEF UsedKinds, Bare
    <3>3. QED
      BY <1>6, <1>7, <1>o, <1>10, <1>14, <1>15, <3>1, <3>2 DEF OpenedTo
  <2>3. QED
    BY <1>3, <1>7, <1>o, <1>10, <2>1, <2>2 DEF UsedKinds, OpenedTo
<1>17. QED
  BY <1>3, <1>4, <1>5, <1>6, <1>7, <1>o, <1>10, <1>14, <1>15, <1>16, StillParsing DEF OpenedTo

LEMMA IfStep == ASSUME Inv, If PROVE Inv'
BY StatementStep DEF If

LEMMA ForStep == ASSUME Inv, For PROVE Inv'
BY StatementStep DEF For

LEMMA SwitchStep == ASSUME Inv, Switch PROVE Inv'
<1>1. {"block"} \subseteq Bodies
  BY DEF Bodies
<1>2. QED
  BY <1>1, StatementStep DEF Switch

LEMMA DoStep == ASSUME Inv, Do PROVE Inv'
<1>1. PICK body \in Bodies :
        /\ Parsing({"do"}) /\ UNCHANGED <<defr, phase, running>>
        /\ code' = code \o <<Label(<<"bg", count'>>, defr)>>
        /\ open' = open \o <<Construct("do", count'), Construct(body, 0)>>
  BY DEF Do, Emit
<1>2. /\ phase = "parse" /\ count \in Nat /\ count' = count + 1
      /\ used' = used \cup {"do"} /\ \E mix \in Mixes : used' \subseteq mix
  BY <1>1, ParsingIs
<1>3. PICK m \in Nat : m = count'
  BY <1>2
<1>4. PICK d \in Chains : d = defr /\ IsPrefix(d, d)
  BY <1>2, Parsed, PrefixRefl DEF Types, Chains
<1>p. PICK c, b : c = Construct("do", m) /\ b = Construct(body, 0)
  OBVIOUS
<1>5. /\ c \in Constructs /\ b \in Constructs
      /\ c.kind = "do" /\ c.id = m /\ c.outer = d /\ c.lvl = d /\ c.first = "none" /\ c.last = "none"
      /\ b.kind = body /\ b.outer = d /\ b.lvl = d /\ b.first = "none" /\ b.last = "none"
  BY <1>4, <1>p DEF Construct, Constructs, Controls
<1>6. Opening(c, b, m)
  BY <1>4, <1>5 DEF Opening, Controls
<1>7. PICK c1, op2 : c1 = code \o Starts(c) /\ op2 = open \o <<c, b>>
  OBVIOUS
<1>8. OpenedTo(c1, op2, c, m)
  BY <1>1, <1>3, <1>6, <1>7, Opened
<1>o. op2 = open' /\ c1 = code'
  <2>1. op2 = open'
    BY <1>1, <1>3, <1>p, <1>7
  <2>2. c1 = code'
    BY <1>1, <1>3, <1>4, <1>5, <1>7 DEF Starts
  <2>3. QED
    BY <2>1, <2>2
<1>9. UsedKinds(used', code', open', defr')
  <2>1. ASSUME used' \cap Undoable = {} PROVE Bare(code', open', defr')
    <3>1. used \cap Undoable = {}
      BY <1>2, <2>1
    <3>2. d = <<>> /\ defr' = <<>>
      BY <1>1, <1>2, <1>4, <3>1, Parsed DEF UsedKinds, Bare
    <3>3. QED
      BY <1>5, <1>o, <1>8, <3>1, <3>2 DEF OpenedTo
  <2>2. QED
    BY <1>2, <1>5, <1>o, <1>8, <2>1 DEF UsedKinds, OpenedTo
<1>10. QED
  BY <1>1, <1>2, <1>3, <1>4, <1>5, <1>o, <1>8, <1>9, StillParsing DEF OpenedTo

----------------------------------------------------------------------------
(* Parsing: the end of a body, and of the statement around it.             *)
LEMMA PopScoped ==
  ASSUME NEW op \in Seq(Constructs), NEW d, NEW n, Scoped(op, d), Numbered(op, n), NEW cd, Settled(cd, op),
         NEW m \in Nat, m < Len(op), m = 0 \/ op[m].kind \notin Controls,
         NEW op2 \in Seq(Constructs), Len(op2) = m, \A k \in 1..m : op2[k] = op[k]
  PROVE  Scoped(op2, op[m + 1].outer) /\ Numbered(op2, n) /\ Settled(cd, op2)
<1>1. PICK z \in Nat : z = Len(op) /\ m < z
  BY LenProperties
<1>2. op2 = <<>> => op[m + 1].outer = <<>>
  <2>1. op2 = <<>> => m = 0
    BY EmptySeq
  <2>2. 1 \in 1..z
    BY <1>1
  <2>3. op[1].outer = <<>>
    BY <1>1, <2>2 DEF Scoped
  <2>4. QED
    BY <2>1, <2>3
<1>3. ASSUME NEW k \in 1..m
      PROVE  /\ IsPrefix(Base(op2[k]), op[m + 1].outer) /\ IsPrefix(op2[k].outer, Base(op2[k]))
             /\ k = 1 => op2[k].outer = <<>> /\ op2[k].kind = "block"
             /\ op2[k].kind \in Controls =>
                  k < m /\ op2[k + 1].kind \in Bodies /\ op2[k + 1].outer = op2[k].lvl
             /\ op2[k].kind = "do" => op2[k].lvl = op2[k].outer
             /\ \A j \in 1..(k - 1) : IsPrefix(Base(op2[j]), op2[k].outer)
  <2>1. k \in 1..z /\ m + 1 \in 1..z /\ k \in 1..(m + 1 - 1)
    BY <1>1
  <2>2. IsPrefix(Base(op[k]), op[m + 1].outer)
    BY <1>1, <2>1 DEF Scoped
  <2>3. /\ IsPrefix(op[k].outer, Base(op[k]))
        /\ k = 1 => op[k].outer = <<>> /\ op[k].kind = "block"
        /\ op[k].kind \in Controls => op[k + 1].kind \in Bodies /\ op[k + 1].outer = op[k].lvl
        /\ op[k].kind = "do" => op[k].lvl = op[k].outer
        /\ \A j \in 1..(k - 1) : IsPrefix(Base(op[j]), op[k].outer)
    BY <1>1, <2>1 DEF Scoped
  <2>4. op[k].kind \in Controls => k < m /\ op2[k + 1] = op[k + 1]
    BY <1>3
  <2>5. op2[k] = op[k] /\ \A j \in 1..(k - 1) : op2[j] = op[j]
    OBVIOUS
  <2>6. QED
    BY <2>2, <2>3, <2>4, <2>5
<1>4. Scoped(op2, op[m + 1].outer)
  BY <1>2, <1>3 DEF Scoped
<1>5. Numbered(op2, n)
  <2>1. ASSUME NEW k \in 1..m, op2[k].kind \in Controls
        PROVE  op2[k].id \in 1..n /\ \A j \in 1..(k - 1) : op2[j].kind \in Controls => op2[j].id # op2[k].id
    <3>1. k \in 1..z /\ op2[k] = op[k] /\ \A j \in 1..(k - 1) : op2[j] = op[j]
      BY <1>1
    <3>2. QED
      BY <1>1, <2>1, <3>1 DEF Numbered
  <2>2. QED
    BY <2>1 DEF Numbered
<1>6. Settled(cd, op2)
  BY <1>1 DEF Settled
<1>7. QED
  BY <1>4, <1>5, <1>6

(* What goes on while a statement c closes, inside of the statements o2.   *)
Mid(cd, o2, c, bare) ==
  /\ cd \in Seq(Instructions) /\ Settled(cd, o2) /\ Begun(cd, c)
  /\ LabelsAt(cd, <<"brk", c.id>>) = {}
  /\ bare => Bare(cd, o2, <<>>)
Distinct(o2, c) == \A k \in 1..Len(o2) : o2[k].kind \in Controls => o2[k].id # c.id

LEMMA MidAppend ==
  ASSUME NEW cd, NEW o2, NEW c, NEW bare, Mid(cd, o2, c, bare), Distinct(o2, c), NEW x \in Instructions,
         x.op = "label" => x.to = <<"cont", c.id>>, bare => x.chain = <<>>
  PROVE  Mid(Append(cd, x), o2, c, bare)
<1>1. PICK z \in Nat : z = Len(cd) /\ cd \in Seq(Instructions)
  BY LenProperties DEF Mid
<1>2. PICK c2 \in Seq(Instructions) : c2 = Append(cd, x) /\ Len(c2) = z + 1
                                      /\ (\A i \in 1..z : c2[i] = cd[i]) /\ c2[z + 1] = x
  <2> DEFINE a == Append(cd, x)
  <2>1. a \in Seq(Instructions) /\ Len(a) = Len(cd) + 1 /\ (\A i \in 1..Len(cd) : a[i] = cd[i]) /\ a[Len(cd) + 1] = x
    BY <1>1, AppendProperties
  <2>2. a = Append(cd, x)
    OBVIOUS
  <2> HIDE DEF a
  <2>3. QED
    BY <1>1, <2>1, <2>2
<1>3. \A l : LabelsAt(c2, l) = LabelsAt(cd, l) \cup {i \in {z + 1} : x.op = "label" /\ x.to = l}
  BY <1>1, <1>2, LabelsAppend
<1>4. \A u, v : <<"cont", u>> # <<"bg", v>> /\ <<"cont", u>> # <<"brk", v>>
                /\ (<<"cont", u>> = <<"cont", v>> => u = v)
  OBVIOUS
<1>5. Settled(c2, o2)
  <2>1. x.op = "label" => \A k \in 1..Len(o2) :
          ~Promises(o2[k], x.to) /\ (o2[k].kind \in {"for", "do"} => x.to # <<"bg", o2[k].id>>)
    BY <1>4 DEF Promises, Distinct
  <2>2. QED
    BY <1>1, <1>2, <2>1, SettledAppend DEF Mid
<1>6. Begun(c2, c)
  <2>1. LabelsAt(c2, <<"bg", c.id>>) = LabelsAt(cd, <<"bg", c.id>>)
    BY <1>3, <1>4
  <2>2. \A p \in LabelsAt(cd, <<"bg", c.id>>) : c2[p] = cd[p]
    BY <1>1, <1>2 DEF LabelsAt
  <2>3. Begun(cd, c)
    BY DEF Mid
  <2>4. QED
    BY <2>1, <2>2, <2>3 DEF Begun
<1>7. LabelsAt(c2, <<"brk", c.id>>) = {}
  BY <1>3, <1>4 DEF Mid
<1>8. bare => Bare(c2, o2, <<>>)
  BY <1>1, <1>2, BareAppend DEF Mid
<1>9. QED
  BY <1>2, <1>5, <1>6, <1>7, <1>8 DEF Mid

(* The statement c is the one around the innermost body.                   *)
Closes(op, o2, j, c, n) ==
  /\ op \in Seq(Constructs) /\ n \in Nat /\ Numbered(op, n)
  /\ j \in 1..Len(op) /\ c = op[j] /\ c \in Constructs /\ c.kind \in Controls /\ c.id \in 1..n
  /\ IsPrefix(c.outer, c.lvl) /\ (c.kind = "do" => c.lvl = c.outer)
  /\ Distinct(o2, c)

LEMMA OnlyPromise ==
  ASSUME NEW op, NEW o2, NEW j, NEW c, NEW n, Closes(op, o2, j, c, n), NEW l, Promises(c, l),
         NEW k \in 1..Len(op), Promises(op[k], l)
  PROVE  op[k].lvl = c.lvl
<1>1. k = j
  BY SamePromise DEF Closes
<1>2. QED
  BY <1>1 DEF Closes

(* The end of a round of a loop.                                           *)
LEMMA RoundCloses ==
  ASSUME NEW op, NEW o2, NEW j, NEW c, NEW n, Closes(op, o2, j, c, n), NEW cd, NEW bare,
         Mid(cd, o2, c, bare), Unmade(cd, c), Flow(cd, op, c.lvl, n), bare => c.lvl = <<>>,
         c.kind \in {"for", "do"}, NEW x, x = Label(<<"cont", c.id>>, c.lvl)
  PROVE  /\ Mid(Append(cd, x), o2, c, bare) /\ Flow(Append(cd, x), op, c.lvl, n)
         /\ LabelsAt(Append(cd, x), <<"cont", c.id>>) # {}
         /\ x \in Instructions
<1>1. /\ cd \in Seq(Instructions) /\ c.lvl \in Chains /\ n \in Nat /\ c.id \in Nat /\ c.id \in 1..n
      /\ c.kind \in Controls
  BY ConstructsAre DEF Mid, Closes
<1>2. <<"cont", c.id>> \in Places
  BY <1>1, PlacesAre
<1>3. x \in Instructions /\ x.op = "label" /\ x.chain = c.lvl /\ x.to = <<"cont", c.id>>
  BY <1>1, <1>2, LabelIs
<1>4. Mid(Append(cd, x), o2, c, bare)
  BY <1>3, MidAppend DEF Closes
<1>5. Promises(c, <<"cont", c.id>>)
  BY <1>1 DEF Promises
<1>6. LabelsAt(cd, <<"cont", c.id>>) = {}
  BY <1>5 DEF Unmade, LabelsAt
<1>7. \A k \in 1..Len(op) : Promises(op[k], <<"cont", c.id>>) => op[k].lvl = c.lvl
  BY <1>5, OnlyPromise
<1>8. Flow(Append(cd, x), op, c.lvl, n)
  BY <1>1, <1>6, <1>7, FlowLabel
<1>9. LabelsAt(Append(cd, x), <<"cont", c.id>>) # {}
  <2>1. PICK l : l = <<"cont", c.id>>
    OBVIOUS
  <2>2. LabelsAt(Append(cd, x), l) = LabelsAt(cd, l) \cup {i \in {Len(cd) + 1} : x.op = "label" /\ x.to = l}
    BY <1>1, <1>3, LabelsAppend
  <2>3. Len(cd) + 1 \in LabelsAt(Append(cd, x), l)
    BY <1>3, <2>1, <2>2
  <2>4. QED
    BY <2>1, <2>3
<1>10. QED
  BY <1>3, <1>4, <1>8, <1>9

(* The jump back to where the next round begins, from the chain there.     *)
LEMMA JumpsBack ==
  ASSUME NEW op, NEW o2, NEW j, NEW c, NEW n, Closes(op, o2, j, c, n), NEW cd, NEW bare,
         Mid(cd, o2, c, bare), Flow(cd, op, c.outer, n), bare => c.outer = <<>>,
         c.kind \in {"for", "do"}, NEW d \in Chains, NEW o \in {"go", "branch"}, NEW end, o = "go" \/ end = c.outer,
         NEW x, x = [op |-> o, chain |-> c.outer, from |-> d, dest |-> d, to |-> <<"bg", c.id>>]
  PROVE  /\ Mid(Append(cd, x), o2, c, bare) /\ Flow(Append(cd, x), op, end, n) /\ x \in Instructions
<1>1. /\ cd \in Seq(Instructions) /\ c.outer \in Chains /\ n \in Nat /\ c.id \in Nat /\ c.id \in 1..n
  BY ConstructsAre DEF Mid, Closes
<1>2. <<"bg", c.id>> \in Places /\ <<"bg", c.id>>[2] = c.id /\ <<"bg", c.id>> # <<"rtn">>
  BY <1>1, PlacesAre
<1>3. x \in Instructions /\ x.op = o /\ x.chain = c.outer /\ x.from = d /\ x.dest = d /\ x.to = <<"bg", c.id>>
  BY <1>1, <1>2, InstructionIs DEF Falling, Leaving
<1>4. Mid(Append(cd, x), o2, c, bare)
  BY <1>3, MidAppend DEF Closes
<1>5. Formed(x, n)
  BY <1>1, <1>2, <1>3 DEF Formed, Jumping
<1>6. Meets(cd, op, x)
  BY <1>3 DEF Meets, Goal, Mid, Begun
<1>7. x.op \notin Falling \/ end = After(x)
  BY <1>3 DEF Falling, After
<1>8. Flow(Append(cd, x), op, end, n)
  BY <1>1, <1>3, <1>5, <1>6, <1>7, FlowAppend
<1>9. QED
  BY <1>3, <1>4, <1>8

(* A label stays when instructions are added.                              *)
LEMMA LabelsStay ==
  ASSUME NEW cd \in Seq(Instructions), NEW x \in Instructions, NEW l, LabelsAt(cd, l) # {}
  PROVE  LabelsAt(Append(cd, x), l) # {}
BY LabelsAppend

(* leave_stmt_scope: behind the label of the break.                        *)
Ending(cd, c, x, y, c2) ==
  x = Label(<<"brk", c.id>>, c.lvl) /\ y = Undo(c.lvl, c.outer) /\ c2 = Append(Append(cd, x), y)

LEMMA TailCloses ==
  ASSUME NEW op, NEW o2, NEW j, NEW c, NEW n, Closes(op, o2, j, c, n), NEW cd, NEW bare,
         Mid(cd, o2, c, bare), Flow(cd, op, c.lvl, n), bare => c.lvl = <<>>,
         c.kind \in {"for", "do"} => LabelsAt(cd, <<"cont", c.id>>) # {},
         NEW x, NEW y, NEW c2, Ending(cd, c, x, y, c2)
  PROVE  /\ x \in Instructions /\ y \in Instructions /\ c2 \in Seq(Instructions)
         /\ Flow(c2, op, c.outer, n) /\ Settled(c2, o2) /\ (bare => Bare(c2, o2, <<>>))
         /\ \A l : Promises(c, l) => LabelsAt(c2, l) # {}
<1>1. /\ cd \in Seq(Instructions) /\ c.lvl \in Chains /\ c.outer \in Chains /\ n \in Nat /\ c.id \in Nat
      /\ c.id \in 1..n /\ c.kind \in Controls /\ IsPrefix(c.outer, c.lvl)
  BY ConstructsAre DEF Mid, Closes
<1>2. <<"brk", c.id>> \in Places
  BY <1>1, PlacesAre
<1>3. /\ x \in Instructions /\ x.op = "label" /\ x.chain = c.lvl /\ x.to = <<"brk", c.id>>
      /\ y \in Instructions /\ y.op = "undo" /\ y.chain = c.lvl
  <2>1. PICK l \in Places : l = <<"brk", c.id>>
    BY <1>2
  <2>2. x = Label(l, c.lvl)
    BY <2>1 DEF Ending
  <2>3. x \in Instructions /\ x.op = "label" /\ x.chain = c.lvl /\ x.to = l
    BY <1>1, <2>2, LabelIs
  <2>4. y \in Instructions /\ y.op = "undo" /\ y.chain = c.lvl
    BY <1>1, UndoIs DEF Ending
  <2>5. QED
    BY <2>1, <2>3, <2>4
<1>4. Promises(c, <<"brk", c.id>>) /\ LabelsAt(cd, <<"brk", c.id>>) = {}
  BY <1>1 DEF Promises, Mid
<1>5. \A k \in 1..Len(op) : Promises(op[k], <<"brk", c.id>>) => op[k].lvl = c.lvl
  BY <1>4, OnlyPromise
<1>6. PICK c1 : c1 = Append(cd, x)
  OBVIOUS
<1>7. c1 \in Seq(Instructions) /\ Flow(c1, op, c.lvl, n)
  <2>1. Flow(Append(cd, x), op, c.lvl, n)
    BY <1>1, <1>4, <1>5, FlowLabel DEF Ending
  <2>2. QED
    BY <1>1, <1>3, <1>6, <2>1, LastCut
<1>8. \A u, v : <<"brk", u>> # <<"bg", v>> /\ <<"brk", u>> # <<"cont", v>>
                /\ (<<"brk", u>> = <<"brk", v>> => u = v)
  OBVIOUS
<1>9. Settled(c1, o2) /\ (bare => Bare(c1, o2, <<>>))
  <2>1. \A k \in 1..Len(o2) :
          ~Promises(o2[k], x.to) /\ (o2[k].kind \in {"for", "do"} => x.to # <<"bg", o2[k].id>>)
    <3> SUFFICES ASSUME NEW k \in 1..Len(o2)
                 PROVE  ~Promises(o2[k], x.to) /\ x.to # <<"bg", o2[k].id>>
      OBVIOUS
    <3>1. o2[k].kind \in Controls => o2[k].id # c.id
      BY DEF Distinct, Closes
    <3>2. PICK v : v = o2[k].id
      OBVIOUS
    <3>3. <<"brk", c.id>> # <<"bg", v>> /\ <<"brk", c.id>> # <<"cont", v>>
          /\ (<<"brk", c.id>> = <<"brk", v>> => c.id = v)
      BY <1>8
    <3>4. QED
      BY <1>3, <3>1, <3>2, <3>3 DEF Promises
  <2>2. Settled(cd, o2) /\ (bare => Bare(cd, o2, <<>>))
    BY DEF Mid
  <2>3. Settled(Append(cd, x), o2)
    BY <1>1, <1>3, <2>1, <2>2, SettledAppend
  <2>4. bare => Bare(Append(cd, x), o2, <<>>)
    BY <1>1, <1>3, <2>2, BareAppend
  <2>5. QED
    BY <1>6, <2>3, <2>4
<1>10. /\ c2 \in Seq(Instructions) /\ Settled(c2, o2) /\ (bare => Bare(c2, o2, <<>>))
  <2>1. c2 = Append(c1, y)
    BY <1>6 DEF Ending
  <2>2. Settled(Append(c1, y), o2)
    BY <1>3, <1>7, <1>9, SettledAppend
  <2>3. bare => Bare(Append(c1, y), o2, <<>>)
    BY <1>3, <1>7, <1>9, BareAppend
  <2>4. QED
    BY <1>3, <1>7, <2>1, <2>2, <2>3, LastCut
<1>11. Flow(c2, op, c.outer, n)
  BY <1>1, <1>6, <1>7, FlowUndo DEF Ending
<1>12. ASSUME NEW l, Promises(c, l) PROVE LabelsAt(c2, l) # {}
  <2>1. LabelsAt(c1, l) # {}
    <3>1. CASE l = <<"brk", c.id>>
      <4>1. LabelsAt(Append(cd, x), l) = LabelsAt(cd, l) \cup {i \in {Len(cd) + 1} : x.op = "label" /\ x.to = l}
        BY <1>1, <1>3, LabelsAppend
      <4>2. QED
        BY <1>3, <1>6, <3>1, <4>1
    <3>2. CASE l = <<"cont", c.id>> /\ c.kind \in {"for", "do"}
      BY <1>1, <1>3, <1>6, <3>2, LabelsStay
    <3>3. QED
      BY <1>12, <3>1, <3>2 DEF Promises
  <2>2. QED
    BY <1>3, <1>6, <1>7, <2>1, LabelsStay DEF Ending
<1>13. QED
  BY <1>3, <1>10, <1>11, <1>12

(* Everything between the body of c and the label of the break.            *)
LEMMA RoundIs ==
  ASSUME NEW op, NEW o2, NEW j, NEW c, NEW n, Closes(op, o2, j, c, n), NEW cd, NEW bare,
         Mid(cd, o2, c, bare), Unmade(cd, c), Flow(cd, op, c.lvl, n), bare => c.lvl = <<>>,
         defr \in Chains, NEW e, e = cd \o Round(c)
  PROVE  /\ IsSeq(Round(c), Instructions) /\ Mid(e, o2, c, bare) /\ Flow(e, op, c.lvl, n)
         /\ c.kind \in {"for", "do"} => LabelsAt(e, <<"cont", c.id>>) # {}
<1>1. /\ cd \in Seq(Instructions) /\ c.lvl \in Chains /\ c.outer \in Chains /\ n \in Nat
      /\ IsPrefix(c.outer, c.lvl)
  BY ConstructsAre DEF Mid, Closes
<1>2. bare => c.outer = <<>>
  BY <1>1, PrefixRefl DEF Chains
<1>3. CASE c.kind \notin {"for", "do"}
  <2>1. Round(c) = <<>>
    BY <1>3 DEF Round
  <2>2. e = cd
    BY <1>1, <2>1, ConcatEmptySeq
  <2>3. QED
    BY <1>3, <2>1, <2>2, EmptySeq DEF IsSeq
<1>4. ASSUME c.kind \in {"for", "do"}
      PROVE  \E x : /\ x = Label(<<"cont", c.id>>, c.lvl) /\ x \in Instructions
                    /\ Mid(Append(cd, x), o2, c, bare) /\ Flow(Append(cd, x), op, c.lvl, n)
                    /\ LabelsAt(Append(cd, x), <<"cont", c.id>>) # {}
  <2>1. PICK x : x = Label(<<"cont", c.id>>, c.lvl)
    OBVIOUS
  <2>2. QED
    BY <1>4, <2>1, RoundCloses
<1>5. CASE c.kind = "for"
  <2>1. PICK x \in Instructions :
              /\ x = Label(<<"cont", c.id>>, c.lvl)
              /\ Mid(Append(cd, x), o2, c, bare) /\ Flow(Append(cd, x), op, c.lvl, n)
              /\ LabelsAt(Append(cd, x), <<"cont", c.id>>) # {}
    BY <1>4, <1>5
  <2>2. PICK c1 : c1 = Append(cd, x) /\ c1 \in Seq(Instructions)
    BY <2>1 DEF Mid
  <2>3. PICK y \in Instructions : y = Undo(c.lvl, c.outer) /\ y.op = "undo" /\ y.chain = c.lvl
    BY <1>1, UndoIs
  <2>4. PICK c2 : c2 = Append(c1, y)
    OBVIOUS
  <2>5. Mid(c2, o2, c, bare)
    BY <2>1, <2>2, <2>3, <2>4, MidAppend DEF Closes
  <2>6. Flow(c2, op, c.outer, n)
    BY <1>1, <2>1, <2>2, <2>3, <2>4, FlowUndo
  <2>7. LabelsAt(c2, <<"cont", c.id>>) # {}
    BY <2>1, <2>2, <2>3, <2>4, LabelsStay
  <2>8. PICK z : z = [op |-> "go", chain |-> c.outer, from |-> defr, dest |-> defr, to |-> <<"bg", c.id>>]
    OBVIOUS
  <2>9. Mid(Append(c2, z), o2, c, bare) /\ Flow(Append(c2, z), op, c.lvl, n) /\ z \in Instructions
    <3>1. PICK o \in {"go", "branch"} : o = "go"
      OBVIOUS
    <3>2. z = [op |-> o, chain |-> c.outer, from |-> defr, dest |-> defr, to |-> <<"bg", c.id>>]
      BY <2>8, <3>1
    <3>3. c.kind \in {"for", "do"}
      BY <1>5
    <3>4. QED
      <4>0. PICK end : end = c.lvl
        OBVIOUS
      <4>1. PICK d \in Chains : d = defr
        OBVIOUS
      <4>2. z = [op |-> o, chain |-> c.outer, from |-> d, dest |-> d, to |-> <<"bg", c.id>>]
        BY <3>2, <4>1
      <4>3. o = "go" \/ end = c.outer
        BY <3>1
      <4>4. /\ Mid(Append(c2, z), o2, c, bare) /\ Flow(Append(c2, z), op, end, n) /\ z \in Instructions
        BY Closes(op, o2, j, c, n), <1>2, <2>5, <2>6, <3>3, <4>0, <4>2, <4>3, JumpsBack
      <4>5. QED
        BY <4>0, <4>1, <4>4
  <2>10. LabelsAt(Append(c2, z), <<"cont", c.id>>) # {}
    BY <2>5, <2>7, <2>9, LabelsStay DEF Mid
  <2>11. Round(c) = <<x, y, z>>
    <3>1. PICK l, i : l = <<"bg", c.id>> /\ i = Plain("go", l)
                      /\ i = [op |-> "go", chain |-> defr, from |-> defr, dest |-> defr, to |-> l]
      BY DEF Plain, Instr
    <3>2. [Plain("go", <<"bg", c.id>>) EXCEPT !.chain = c.outer] = z
      <4>1. z = [op |-> "go", chain |-> c.outer, from |-> defr, dest |-> defr, to |-> l]
        BY <2>8, <3>1
      <4>2. \A u, v, w, t : [[op |-> t, chain |-> u, from |-> u, dest |-> u, to |-> w] EXCEPT !.chain = v]
                             = [op |-> t, chain |-> v, from |-> u, dest |-> u, to |-> w]
        OBVIOUS
      <4>3. [i EXCEPT !.chain = c.outer] = z
        BY <3>1, <4>1, <4>2
      <4>4. QED
        BY <3>1, <4>3
    <3>3. QED
      BY <1>5, <2>1, <2>3, <3>2 DEF Round
  <2>12. e = Append(c2, z)
    <3>1. cd \o <<x, y, z>> = Append(Append(Append(cd, x), y), z)
      BY <1>1, <2>9, ThreeMore
    <3>2. QED
      BY <2>2, <2>4, <2>11, <3>1
  <2>13. IsSeq(Round(c), Instructions)
    BY <2>1, <2>3, <2>9, <2>11 DEF IsSeq
  <2>14. QED
    BY <2>9, <2>10, <2>12, <2>13
<1>6. CASE c.kind = "do"
  <2>1. PICK x \in Instructions :
              /\ x = Label(<<"cont", c.id>>, c.lvl)
              /\ Mid(Append(cd, x), o2, c, bare) /\ Flow(Append(cd, x), op, c.lvl, n)
              /\ LabelsAt(Append(cd, x), <<"cont", c.id>>) # {}
    BY <1>4, <1>6
  <2>2. PICK c1 : c1 = Append(cd, x) /\ c1 \in Seq(Instructions)
    BY <2>1 DEF Mid
  <2>3. c.lvl = c.outer
    BY <1>6 DEF Closes
  <2>4. PICK z : z = [op |-> "branch", chain |-> c.outer, from |-> defr, dest |-> defr, to |-> <<"bg", c.id>>]
    OBVIOUS
  <2>5. Mid(Append(c1, z), o2, c, bare) /\ Flow(Append(c1, z), op, c.lvl, n) /\ z \in Instructions
    <3>1. Mid(c1, o2, c, bare) /\ Flow(c1, op, c.outer, n)
      BY <2>1, <2>2, <2>3
    <3>2. QED
      BY <1>2, <1>6, <2>3, <2>4, <3>1, JumpsBack
  <2>6. LabelsAt(Append(c1, z), <<"cont", c.id>>) # {}
    BY <2>1, <2>2, <2>5, LabelsStay
  <2>7. Round(c) = <<x, z>>
    <3>1. PICK l, i : l = <<"bg", c.id>> /\ i = Plain("branch", l)
                      /\ i = [op |-> "branch", chain |-> defr, from |-> defr, dest |-> defr, to |-> l]
      BY DEF Plain, Instr
    <3>2. [Plain("branch", <<"bg", c.id>>) EXCEPT !.chain = c.lvl] = z
      BY <2>3, <2>4, <3>1
    <3>3. QED
      BY <1>6, <2>1, <3>2 DEF Round
  <2>8. e = Append(c1, z)
    <3>1. cd \o <<x, z>> = Append(Append(cd, x), z)
      BY <1>1, <2>5, TwoMore
    <3>2. QED
      BY <2>2, <2>7, <3>1
  <2>9. IsSeq(Round(c), Instructions)
    BY <2>1, <2>5, <2>7 DEF IsSeq
  <2>10. QED
    BY <2>5, <2>6, <2>8, <2>9
<1>7. QED
  BY <1>3, <1>5, <1>6

----------------------------------------------------------------------------
(* The end of a body, and what is left open by it.                         *)
LEMMA BodyEnds ==
  ASSUME Inv, phase = "parse", open # <<>>, NEW u, u = Undo(EndChain(Top), Top.outer),
         NEW c1, c1 = Append(code, u)
  PROVE  /\ u \in Instructions /\ c1 \in Seq(Instructions) /\ c1 = code \o <<u>>
         /\ Flow(c1, open, Top.outer, count) /\ Settled(c1, open)
         /\ used \cap Undoable = {} => Bare(c1, open, <<>>) /\ Top.outer = <<>>
<1>1. /\ Types /\ Flow(code, open, defr, count) /\ Scoped(open, defr) /\ Settled(code, open)
      /\ Early(code, open) /\ UsedKinds(used, code, open, defr)
      /\ code \in Seq(Instructions) /\ defr \in Chains /\ count \in Nat
  BY Parsed DEF Types
<1>2. /\ Len(open) \in Nat \ {0} /\ Top = open[Len(open)] /\ Last(open) = Top
      /\ Top \in Constructs /\ Top.kind \in Bodies
  BY TopIs
<1>3. Top.outer \in Chains /\ Base(Top) = Top.outer
  BY <1>2, ConstructsAre DEF Base, Bodies, Controls
<1>4. IsPrefix(Top.outer, defr)
  BY <1>1, <1>2, <1>3 DEF Scoped
<1>5. PICK e \in Chains : e = EndChain(Top) /\ IsPrefix(Top.outer, e) /\ (Cut(code, Len(code)) \/ e = defr)
  <2>1. CASE LeavesEarly(Top)
    BY <1>1, <1>2, <1>3, <2>1, PrefixRefl DEF EndChain, Early, Chains
  <2>2. CASE ~LeavesEarly(Top)
    BY <1>1, <1>4, <2>2 DEF EndChain
  <2>3. QED
    BY <2>1, <2>2
<1>6. u \in Instructions /\ u.op = "undo" /\ u.chain = e
  BY <1>3, <1>5, UndoIs
<1>7. c1 \in Seq(Instructions) /\ c1 = code \o <<u>>
  BY <1>1, <1>6, OneMore, LastCut
<1>8. Flow(c1, open, Top.outer, count)
  BY <1>1, <1>3, <1>5, FlowUndo
<1>9. Settled(c1, open)
  BY <1>1, <1>6, SettledAppend
<1>10. ASSUME used \cap Undoable = {} PROVE Bare(c1, open, <<>>) /\ Top.outer = <<>>
  <2>1. Bare(code, open, defr) /\ defr = <<>>
    BY <1>1, <1>10 DEF UsedKinds, Bare
  <2>2. Top.outer = <<>>
    BY <1>3, <1>4, <2>1, PrefixRefl DEF Chains
  <2>3. e = <<>>
    BY <1>5, <2>1, <2>2 DEF EndChain
  <2>4. QED
    BY <1>1, <1>6, <2>1, <2>2, <2>3, BareAppend
<1>11. QED
  BY <1>6, <1>7, <1>8, <1>9, <1>10

(* The z statements that are open are those of o2, c, and the body of c.   *)
Surrounds(c, o2, z) ==
  /\ z \in Nat /\ z > 2 /\ c = open[z - 1] /\ c.lvl = Top.outer
  /\ o2 \in Seq(Constructs) /\ Len(o2) = z - 2 /\ \A k \in 1..(z - 2) : o2[k] = open[k]
  /\ open[z - 2].kind \notin Controls
  /\ Closes(open, o2, z - 1, c, count)

LEMMA AroundIs ==
  ASSUME Inv, phase = "parse", open # <<>>, NEW c, c = Around, c.kind \in Controls,
         NEW o2, o2 = Front(Front(open)), NEW z, z = Len(open)
  PROVE  Surrounds(c, o2, z)
<1>1. /\ open \in Seq(Constructs) /\ Scoped(open, defr) /\ Numbered(open, count) /\ count \in Nat
      /\ z \in Nat \ {0} /\ Top = open[z]
  BY Parsed, TopIs DEF Types
<1>2. z > 1 /\ c = open[z - 1]
  BY <1>1 DEF Around, Controls
<1>3. z - 1 # 1
  <2>1. open[1].kind = "block"
    BY <1>1 DEF Scoped
  <2>2. QED
    BY <1>2, <2>1 DEF Controls
<1>4. z > 2 /\ z - 1 \in 1..z /\ z - 2 \in 1..z
  BY <1>1, <1>2, <1>3
<1>5. PICK o1 \in Seq(Constructs) : o1 = Front(open) /\ Len(o1) = z - 1 /\ \A k \in 1..(z - 1) : o1[k] = open[k]
  BY <1>1, FrontLast
<1>6. o2 \in Seq(Constructs) /\ Len(o2) = z - 1 - 1 /\ \A k \in 1..(z - 1 - 1) : o2[k] = o1[k]
  <2>1. o1 # <<>>
    BY <1>4, <1>5, EmptySeq
  <2>2. QED
    BY <1>5, <2>1, FrontLast
<1>7. Len(o2) = z - 2 /\ \A k \in 1..(z - 2) : o2[k] = open[k]
  BY <1>1, <1>5, <1>6
<1>8. c \in Constructs /\ c.lvl = Top.outer /\ c.id \in 1..count /\ IsPrefix(c.outer, c.lvl)
      /\ (c.kind = "do" => c.lvl = c.outer)
  <2>1. c \in Constructs /\ z - 1 + 1 = z
    BY <1>1, <1>2, <1>4, ElementOfSeq
  <2>2. c.lvl = Top.outer /\ (c.kind = "do" => c.lvl = c.outer) /\ IsPrefix(c.outer, Base(c))
    BY <1>1, <1>2, <1>4, <2>1 DEF Scoped
  <2>3. c.id \in 1..count
    BY <1>1, <1>2, <1>4 DEF Numbered
  <2>4. QED
    BY <2>1, <2>2, <2>3 DEF Base
<1>9. open[z - 2].kind \notin Controls
  <2>1. z - 2 + 1 = z - 1
    BY <1>1
  <2>2. open[z - 2].kind \in Controls => open[z - 1].kind \in Bodies
    BY <1>1, <1>4, <2>1 DEF Scoped
  <2>3. QED
    BY <1>2, <2>2 DEF Bodies, Controls
<1>10. Distinct(o2, c)
  <2>1. ASSUME NEW k \in 1..(z - 2), open[k].kind \in Controls PROVE open[k].id # c.id
    <3>1. k \in 1..(z - 1 - 1)
      BY <1>1
    <3>2. QED
      BY <1>1, <1>2, <1>4, <2>1, <3>1 DEF Numbered
  <2>2. QED
    BY <1>7, <2>1 DEF Distinct
<1>11. Closes(open, o2, z - 1, c, count)
  BY <1>1, <1>2, <1>4, <1>8, <1>10 DEF Closes
<1>12. QED
  BY <1>1, <1>2, <1>4, <1>6, <1>7, <1>8, <1>9, <1>11 DEF Surrounds

(* The m statements around stay open, with the finished one as a node.     *)
Left(m, o2, c2, d) ==
  /\ m \in Nat /\ m < Len(open) /\ (m = 0 \/ open[m].kind \notin Controls)
  /\ o2 \in Seq(Constructs) /\ Len(o2) = m /\ \A k \in 1..m : o2[k] = open[k]
  /\ c2 \in Seq(Instructions) /\ Flow(c2, open, d, count) /\ Settled(c2, o2)
  /\ d = open[m + 1].outer
  /\ used \cap Undoable = {} => Bare(c2, o2, <<>>) /\ d = <<>>
  /\ \A k \in (m + 1)..Len(open) : open[k].kind \in Controls =>
       \A l : Promises(open[k], l) => LabelsAt(c2, l) # {}

LEMMA LeftIs ==
  ASSUME Inv, phase = "parse", NEW m, NEW o2, NEW c2, NEW d, Left(m, o2, c2, d)
  PROVE  /\ d \in Chains /\ Scoped(o2, d) /\ Numbered(o2, count) /\ Kept(c2, o2) /\ Flow(c2, o2, d, count)
         /\ UsedKinds(used, c2, o2, d)
         /\ \A k \in 1..Len(o2) : Quiet(o2[k]) /\ (o2[k].last = "none" <=> o2[k].first = "none")
         /\ o2 # <<>> => Last(o2).kind \in Bodies
<1>1. /\ open \in Seq(Constructs) /\ Scoped(open, defr) /\ Numbered(open, count) /\ Settled(code, open)
      /\ Ends(open) /\ UsedKinds(used, code, open, defr)
  BY Parsed DEF Types
<1>2. PICK z \in Nat : z = Len(open) /\ m \in Nat /\ m < z
  BY <1>1, LenProperties DEF Left
<1>3. o2 \in Seq(Constructs) /\ Len(o2) = m /\ \A k \in 1..m : o2[k] = open[k]
  BY DEF Left
<1>4. Scoped(o2, d) /\ Numbered(o2, count)
  BY <1>1, PopScoped DEF Left
<1>5. d \in Chains
  <2>1. open[m + 1] \in Constructs
    BY <1>1, <1>2, ElementOfSeq
  <2>2. QED
    BY <2>1, ConstructsAre DEF Left
<1>6. Kept(c2, o2)
  <2>1. ASSUME NEW k \in 1..z, open[k].kind \in Controls
        PROVE  \/ \A l : Promises(open[k], l) => LabelsAt(c2, l) # {}
               \/ \E j \in 1..m : o2[j].lvl = open[k].lvl /\ \A l : Promises(open[k], l) => Promises(o2[j], l)
    <3>1. CASE k <= m
      <4>1. k \in 1..m /\ o2[k] = open[k]
        BY <1>2, <1>3, <3>1
      <4>2. QED
        BY <4>1
    <3>2. CASE ~(k <= m)
      <4>1. k \in (m + 1)..z
        BY <1>2, <3>2
      <4>2. QED
        BY <1>2, <2>1, <4>1 DEF Left
    <3>3. QED
      BY <3>1, <3>2
  <2>2. Kept(c2, open)
    BY DEF Left, Flow
  <2>3. QED
    BY <1>2, <1>3, <2>1, <2>2, KeptMove
<1>7. Flow(c2, o2, d, count)
  BY <1>6 DEF Left, Flow
<1>8. UsedKinds(used, c2, o2, d)
  <2>1. \A k \in 1..m : o2[k].kind \in Controls \ {"else"} => o2[k].kind \in used
    BY <1>1, <1>2, <1>3 DEF UsedKinds
  <2>2. used # {} => \E mix \in Mixes : used \subseteq mix
    BY <1>1 DEF UsedKinds
  <2>3. used \cap Undoable = {} => Bare(c2, o2, d)
    BY DEF Left, Bare
  <2>4. QED
    BY <1>3, <2>1, <2>2, <2>3 DEF UsedKinds
<1>9. \A k \in 1..m : Quiet(o2[k]) /\ (o2[k].last = "none" <=> o2[k].first = "none")
  <2>1. \A k \in 1..m : k \in 1..z /\ k # z
    BY <1>2
  <2>2. QED
    BY <1>1, <1>2, <1>3, <2>1 DEF Ends
<1>10. ASSUME o2 # <<>> PROVE Last(o2).kind \in Bodies
  <2>1. m # 0
    BY <1>3, <1>10, EmptySeq
  <2>2. Last(o2) = open[m] /\ open[m] \in Constructs /\ open[m].kind \notin Controls
    BY <1>1, <1>2, <1>3, <2>1, ElementOfSeq DEF Last, Left
  <2>3. QED
    BY <2>2, ConstructsAre
<1>11. QED
  BY <1>3, <1>4, <1>5, <1>6, <1>7, <1>8, <1>9, <1>10

LEMMA ClosedStep ==
  ASSUME Inv, phase = "parse", UNCHANGED <<used, count, phase, running>>, NEW m, NEW o2, Left(m, o2, code', defr'),
         NEW node \in Nodes \ {"return", "goto"},
         open' = IF o2 = <<>> THEN <<>> ELSE Within(o2, node)
  PROVE  Inv'
<1>1. /\ defr' \in Chains /\ Scoped(o2, defr') /\ Numbered(o2, count) /\ Kept(code', o2)
      /\ Flow(code', o2, defr', count) /\ UsedKinds(used, code', o2, defr')
      /\ \A k \in 1..Len(o2) : Quiet(o2[k]) /\ (o2[k].last = "none" <=> o2[k].first = "none")
      /\ o2 # <<>> => Last(o2).kind \in Bodies
  BY LeftIs
<1>2. o2 \in Seq(Constructs) /\ code' \in Seq(Instructions) /\ Settled(code', o2)
      /\ count \in Nat /\ count' = count /\ used' = used
  BY Parsed DEF Left, Types
<1>3. CASE o2 = <<>>
  <2>1. open' = o2 /\ Ends(o2) /\ Early(code', o2)
    BY <1>3, EmptySeq DEF Ends, Early
  <2>2. QED
    BY <1>1, <1>2, <2>1, StillParsing
<1>4. CASE o2 # <<>>
  <2>1. open' = Within(o2, node) /\ node \in Nodes
    BY <1>4
  <2>2. open' \in Seq(Constructs) /\ Alike(o2, open') /\ Ends(open') /\ ~LeavesEarly(Last(open'))
    BY <1>1, <1>2, <1>4, <2>1, WithinIs, WithinEnds
  <2>3. Early(code', open')
    BY <2>2 DEF Early
  <2>4. Kept(code', open') /\ Settled(code', open') /\ Numbered(open', count')
    BY <1>1, <1>2, <2>2, AlikeSame
  <2>5. Flow(code', open', defr', count')
    BY <1>1, <1>2, <2>4 DEF Flow
  <2>6. Scoped(open', defr')
    <3>1. IsPrefix(defr', defr')
      BY <1>1, PrefixRefl DEF Chains
    <3>2. QED
      BY <1>1, <1>2, <1>4, <2>2, <3>1, AlikeScoped
  <2>7. UsedKinds(used', code', open', defr')
    BY <1>1, <1>2, <2>2 DEF UsedKinds, Alike, Bare
  <2>8. QED
    BY <1>1, <1>2, <2>2, <2>3, <2>4, <2>5, <2>6, <2>7, StillParsing
<1>5. QED
  BY <1>3, <1>4

LEMMA BodyIsLeft ==
  ASSUME Inv, Bodied, Around.kind \notin Controls, UNCHANGED <<used, count, phase, running>>,
         code' = code \o <<Undo(EndChain(Top), Top.outer)>>, defr' = Top.outer,
         open' = IF Front(open) = <<>> THEN <<>> ELSE Within(Front(open), "block")
  PROVE  Inv'
<1>1. phase = "parse" /\ open # <<>>
  BY DEF Bodied
<1>2. open \in Seq(Constructs) /\ Top = open[Len(open)]
  BY <1>1, Parsed, TopIs DEF Types
<1>3. PICK z \in Nat \ {0} : z = Len(open)
  BY <1>1, <1>2, FrontLast
<1>4. PICK o2 \in Seq(Constructs) : o2 = Front(open) /\ Len(o2) = z - 1 /\ \A k \in 1..(z - 1) : o2[k] = open[k]
  BY <1>1, <1>2, <1>3, FrontLast
<1>5. PICK c1 \in Seq(Instructions) :
        /\ c1 = code' /\ Flow(c1, open, Top.outer, count) /\ Settled(c1, open)
        /\ used \cap Undoable = {} => Bare(c1, open, <<>>) /\ Top.outer = <<>>
  <2>1. PICK u, c1 : u = Undo(EndChain(Top), Top.outer) /\ c1 = Append(code, u)
    OBVIOUS
  <2>2. /\ c1 \in Seq(Instructions) /\ c1 = code \o <<u>>
        /\ Flow(c1, open, Top.outer, count) /\ Settled(c1, open)
        /\ used \cap Undoable = {} => Bare(c1, open, <<>>) /\ Top.outer = <<>>
    BY <1>1, <2>1, BodyEnds
  <2>3. c1 = code'
    BY <2>1, <2>2
  <2>4. QED
    BY <2>2, <2>3
<1>6. z - 1 = 0 \/ open[z - 1].kind \notin Controls
  BY <1>3 DEF Around
<1>7. Settled(c1, o2) /\ (used \cap Undoable = {} => Bare(c1, o2, <<>>))
  <2>1. \A k \in 1..Len(o2) : k \in 1..Len(open) /\ o2[k] = open[k]
    BY <1>3, <1>4
  <2>2. QED
    BY <1>5, <2>1 DEF Settled, Bare
<1>8. \A k \in (z - 1 + 1)..z : open[k].kind \notin Controls
  <2>1. Top.kind \notin Controls
    BY <1>1, TopIs DEF Bodies, Controls
  <2>2. QED
    BY <1>2, <1>3, <2>1
<1>9. z - 1 \in Nat /\ z - 1 < z /\ z - 1 + 1 = z
  BY <1>3
<1>10. Left(z - 1, o2, c1, Top.outer)
  BY <1>2, <1>3, <1>4, <1>5, <1>6, <1>7, <1>8, <1>9 DEF Left
<1>11. "block" \in Nodes \ {"return", "goto"}
  BY DEF Nodes
<1>12. QED
  BY <1>1, <1>4, <1>5, <1>10, <1>11, ClosedStep

Leaves(c) ==
  /\ code' = code \o (<<Undo(EndChain(Top), Top.outer)>> \o Round(c)
                       \o <<Label(<<"brk", c.id>>, c.lvl), Undo(c.lvl, c.outer)>>)
  /\ defr' = c.outer
  /\ open' = Within(Front(Front(open)), IF c.lvl = c.outer THEN c.kind ELSE "block")

LEMMA StatementIsLeft ==
  ASSUME Inv, Bodied, NEW c, c = Around, c.kind \in Controls, UNCHANGED <<used, count, phase, running>>,
         Leaves(c)
  PROVE  Inv'
<1>1. phase = "parse" /\ open # <<>>
  BY DEF Bodied
<1>2. /\ code \in Seq(Instructions) /\ defr \in Chains /\ count \in Nat
      /\ Top = open[Len(open)] /\ Top.kind \notin Controls
  BY <1>1, Parsed, TopIs DEF Types, Bodies, Controls
<1>3. PICK o2, z : o2 = Front(Front(open)) /\ z = Len(open)
  OBVIOUS
<1>a. Surrounds(c, o2, z)
  BY <1>1, <1>3, AroundIs
<1>4. /\ z \in Nat /\ z > 2 /\ c = open[z - 1] /\ c.lvl = Top.outer
      /\ o2 \in Seq(Constructs) /\ Len(o2) = z - 2 /\ (\A k \in 1..(z - 2) : o2[k] = open[k])
      /\ open[z - 2].kind \notin Controls
      /\ Closes(open, o2, z - 1, c, count)
  BY <1>a DEF Surrounds
<1>b. PICK j : Closes(open, o2, j, c, count)
  BY <1>4
<1>5. PICK u, c1 : u = Undo(EndChain(Top), Top.outer) /\ c1 = Append(code, u)
  OBVIOUS
<1>6. /\ u \in Instructions /\ c1 \in Seq(Instructions) /\ c1 = code \o <<u>>
      /\ Flow(c1, open, c.lvl, count) /\ Settled(c1, open)
      /\ used \cap Undoable = {} => Bare(c1, open, <<>>) /\ c.lvl = <<>>
  <2>1. /\ u \in Instructions /\ c1 \in Seq(Instructions) /\ c1 = code \o <<u>>
        /\ Flow(c1, open, Top.outer, count) /\ Settled(c1, open)
        /\ used \cap Undoable = {} => Bare(c1, open, <<>>) /\ Top.outer = <<>>
    BY <1>1, <1>5, BodyEnds
  <2>2. QED
    BY <1>4, <2>1
<1>7. PICK bare \in BOOLEAN : bare <=> used \cap Undoable = {}
  OBVIOUS
<1>8. Mid(c1, o2, c, bare) /\ Unmade(c1, c)
  <2>1. z - 1 \in 1..Len(open)
    BY <1>3, <1>4
  <2>2. Unmade(c1, c) /\ Begun(c1, c)
    BY <1>4, <1>6, <2>1 DEF Settled
  <2>3. LabelsAt(c1, <<"brk", c.id>>) = {}
    BY <2>2 DEF Unmade, LabelsAt, Promises
  <2>4. \A k \in 1..Len(o2) : k \in 1..Len(open) /\ o2[k] = open[k]
    BY <1>3, <1>4
  <2>5. Settled(c1, o2) /\ (bare => Bare(c1, o2, <<>>))
    BY <1>6, <1>7, <2>4 DEF Settled, Bare
  <2>6. QED
    BY <1>6, <2>2, <2>3, <2>5 DEF Mid
<1>c. Flow(c1, open, c.lvl, count) /\ (bare => c.lvl = <<>>) /\ defr \in Chains
  BY <1>2, <1>6, <1>7
<1>9. PICK e, r : e = c1 \o r /\ r = Round(c)
  OBVIOUS
<1>10. /\ IsSeq(r, Instructions) /\ Mid(e, o2, c, bare) /\ Flow(e, open, c.lvl, count)
       /\ c.kind \in {"for", "do"} => LabelsAt(e, <<"cont", c.id>>) # {}
  <2>1. PICK e2 : e2 = c1 \o Round(c)
    OBVIOUS
  <2>2. /\ IsSeq(Round(c), Instructions) /\ Mid(e2, o2, c, bare) /\ Flow(e2, open, c.lvl, count)
        /\ c.kind \in {"for", "do"} => LabelsAt(e2, <<"cont", c.id>>) # {}
    BY <1>b, <1>c, <1>8, <2>1, RoundIs
  <2>3. e = e2 /\ r = Round(c)
    BY <1>9, <2>1
  <2>4. QED
    BY <2>2, <2>3
<1>11. PICK x, y : x = Label(<<"brk", c.id>>, c.lvl) /\ y = Undo(c.lvl, c.outer)
  OBVIOUS
<1>12. PICK c2 : c2 = Append(Append(e, x), y)
  OBVIOUS
<1>13. /\ x \in Instructions /\ y \in Instructions /\ c2 \in Seq(Instructions)
       /\ Flow(c2, open, c.outer, count) /\ Settled(c2, o2) /\ (bare => Bare(c2, o2, <<>>))
       /\ \A l : Promises(c, l) => LabelsAt(c2, l) # {}
  <2>1. /\ Mid(e, o2, c, bare) /\ Flow(e, open, c.lvl, count) /\ (bare => c.lvl = <<>>)
        /\ c.kind \in {"for", "do"} => LabelsAt(e, <<"cont", c.id>>) # {}
    BY <1>c, <1>10
  <2>2. PICK op, n : op = open /\ n = count
    OBVIOUS
  <2>3. /\ Closes(op, o2, j, c, n) /\ Flow(e, op, c.lvl, n)
    BY <1>b, <2>1, <2>2
  <2>4. /\ x \in Instructions /\ y \in Instructions /\ c2 \in Seq(Instructions)
        /\ Flow(c2, op, c.outer, n) /\ Settled(c2, o2) /\ (bare => Bare(c2, o2, <<>>))
        /\ \A l : Promises(c, l) => LabelsAt(c2, l) # {}
    <3>1. Ending(e, c, x, y, c2)
      BY <1>11, <1>12 DEF Ending
    <3>2. QED
      BY <2>1, <2>3, <3>1, TailCloses
  <2>5. QED
    BY <2>2, <2>4
<1>14. code' = c2
  <2>1. PICK b, t : b = <<u>> /\ t = <<x, y>>
    OBVIOUS
  <2>2. IsSeq(code, Instructions) /\ IsSeq(b, Instructions) /\ IsSeq(t, Instructions)
    BY <1>2, <1>6, <1>13, <2>1 DEF IsSeq
  <2>3. code' = code \o ((b \o r) \o t)
    BY <1>5, <1>9, <1>11, <2>1 DEF Leaves
  <2>4. c1 = code \o b
    BY <1>6, <2>1
  <2>5. InParts(Instructions, code, b, r, t, c1, e, code')
    BY <1>9, <1>10, <2>2, <2>3, <2>4 DEF InParts
  <2>6. code' = e \o t
    BY <2>5, Parts
  <2>7. e \o <<x, y>> = Append(Append(e, x), y)
    BY <1>10, <1>13, TwoMore DEF Mid
  <2>8. QED
    BY <1>12, <2>1, <2>6, <2>7
<1>15. Left(z - 2, o2, c2, c.outer)
  <2>1. z - 2 \in Nat /\ z - 2 < z /\ z - 2 + 1 = z - 1
    BY <1>4
  <2>2. ASSUME NEW k \in (z - 1)..z, open[k].kind \in Controls
        PROVE  \A l : Promises(open[k], l) => LabelsAt(c2, l) # {}
    <3>1. k = z - 1
      BY <1>2, <1>3, <1>4, <2>2
    <3>2. QED
      BY <1>4, <1>13, <3>1
  <2>3. used \cap Undoable = {} => c.outer = <<>>
    <3>1. IsPrefix(c.outer, c.lvl) /\ c.outer \in Chains
      BY <1>4, ConstructsAre DEF Closes
    <3>2. QED
      BY <1>6, <3>1, PrefixRefl DEF Chains
  <2>4. QED
    BY <1>3, <1>4, <1>7, <1>13, <2>1, <2>2, <2>3 DEF Left
<1>16. PICK node \in Nodes \ {"return", "goto"} : node = IF c.lvl = c.outer THEN c.kind ELSE "block"
  BY DEF Nodes, Controls
<1>17. open' = IF o2 = <<>> THEN <<>> ELSE Within(o2, node)
  <2>1. o2 # <<>>
    BY <1>4, EmptySeq
  <2>2. QED
    BY <1>3, <1>16, <2>1 DEF Leaves
<1>18. defr' = c.outer
  BY DEF Leaves
<1>19. QED
  BY <1>1, <1>14, <1>15, <1>16, <1>17, <1>18, ClosedStep

LEMMA CloseBodyStep == ASSUME Inv, CloseBody PROVE Inv'
<1>1. PICK c : c = Around
  OBVIOUS
<1>2. CASE c.kind \in Controls
  <2>1. Bodied /\ UNCHANGED <<used, count, phase, running>> /\ Leaves(c)
    BY <1>1, <1>2 DEF CloseBody, Emit, Leaves
  <2>2. QED
    BY <1>1, <1>2, <2>1, StatementIsLeft
<1>3. CASE c.kind \notin Controls
  <2>1. /\ Bodied /\ UNCHANGED <<used, count, phase, running>>
        /\ code' = code \o <<Undo(EndChain(Top), Top.outer)>> /\ defr' = Top.outer
        /\ open' = IF Front(open) = <<>> THEN <<>> ELSE Within(Front(open), "block")
    BY <1>1, <1>3 DEF CloseBody, Emit
  <2>2. QED
    BY <1>1, <1>3, <2>1, BodyIsLeft
<1>4. QED
  BY <1>2, <1>3

----------------------------------------------------------------------------
(* The other branch of an if takes the place of the first one.             *)
Elses(c, m, c2, b2) ==
  /\ c2 = [c EXCEPT !.kind = "else", !.id = m]
  /\ b2 \in Constructs /\ b2.kind \in Bodies /\ b2.outer = c.lvl /\ b2.lvl = defr
  /\ b2.first = "none" /\ b2.last = "none"

LEMMA ElsesAre ==
  ASSUME NEW c \in Constructs, NEW m \in Nat, NEW c2, NEW b2, Elses(c, m, c2, b2)
  PROVE  /\ c2 \in Constructs /\ c2.kind = "else" /\ c2.id = m /\ c2.outer = c.outer /\ c2.lvl = c.lvl
         /\ c2.first = c.first /\ c2.last = c.last /\ Quiet(c2)
         /\ b2.kind \notin Controls
         /\ \A l : Promises(c2, l) <=> l = <<"brk", m>>
         /\ \A cd : Begun(cd, c2)
<1>1. /\ c2 \in Constructs /\ c2.kind = "else" /\ c2.id = m /\ c2.outer = c.outer /\ c2.lvl = c.lvl
      /\ c2.first = c.first /\ c2.last = c.last
  BY DEF Elses, Constructs, Controls
<1>2. Quiet(c2) /\ b2.kind \notin Controls /\ \A cd : Begun(cd, c2)
  BY <1>1 DEF Elses, Quiet, Bodies, Controls, Begun
<1>3. \A l : Promises(c2, l) <=> l = <<"brk", m>>
  BY <1>1 DEF Promises, Controls
<1>4. QED
  BY <1>1, <1>2, <1>3

(* The instructions between the two branches.                              *)
Between(c, m, e, b, x, y, op, op2, cd, c3) ==
  /\ x = [op |-> "go", chain |-> c.lvl, from |-> defr, dest |-> defr, to |-> <<"brk", m>>]
  /\ y = Label(<<"brk", c.id>>, c.lvl) /\ op2 = op \o <<e, b>> /\ c3 = Append(Append(cd, x), y)

LEMMA BranchEnds ==
  ASSUME NEW op \in Seq(Constructs), NEW o2, NEW j, NEW c, NEW n, Closes(op, o2, j, c, n), c.kind = "if",
         NEW cd, NEW bare, Mid(cd, o2, c, bare), Unmade(cd, c), Flow(cd, op, c.lvl, n), bare => c.lvl = <<>>,
         defr \in Chains, NEW m, m = n + 1, NEW e, NEW b, Elses(c, m, e, b),
         NEW x, NEW y, NEW op2, NEW c3, Between(c, m, e, b, x, y, op, op2, cd, c3)
  PROVE  /\ x \in Instructions /\ y \in Instructions /\ c3 \in Seq(Instructions)
         /\ Flow(c3, op2, c.lvl, m) /\ Settled(c3, o2) /\ Unmade(c3, e)
         /\ bare => Bare(c3, o2, <<>>)
         /\ LabelsAt(c3, <<"brk", c.id>>) # {}
<1>1. /\ cd \in Seq(Instructions) /\ c \in Constructs /\ c.lvl \in Chains /\ n \in Nat /\ m \in Nat
      /\ c.id \in Nat /\ c.id \in 1..n /\ c.id \in 1..m /\ c.id # m /\ m \in 1..m /\ m > n
  BY ConstructsAre DEF Mid, Closes
<1>2. /\ e \in Constructs /\ e.kind = "else" /\ e.lvl = c.lvl /\ b \in Constructs /\ b.kind \notin Controls
      /\ \A l : Promises(e, l) <=> l = <<"brk", m>>
  <2>1. b \in Constructs
    BY DEF Elses
  <2>2. /\ e \in Constructs /\ e.kind = "else" /\ e.lvl = c.lvl /\ b.kind \notin Controls
        /\ \A l : Promises(e, l) <=> l = <<"brk", m>>
    BY <1>1, ElsesAre
  <2>3. QED
    BY <2>1, <2>2
<1>3. PICK z \in Nat : z = Len(op)
  BY LenProperties
<1>4. /\ op2 \in Seq(Constructs) /\ Len(op2) = z + 2 /\ (\A k \in 1..z : op2[k] = op[k])
      /\ op2[z + 1] = e /\ op2[z + 2] = b
  BY <1>2, <1>3, TwoOn DEF Between
<1>5. PICK g \in Places, f \in Places : /\ g = <<"brk", m>> /\ g # <<"rtn">> /\ g[2] = m
                                        /\ f = <<"brk", c.id>> /\ f # g
  <2>1. <<"brk", m>> \in Places /\ <<"brk", m>>[2] = m /\ <<"brk", m>> # <<"rtn">>
        /\ <<"brk", c.id>> \in Places /\ <<"brk", c.id>>[2] = c.id
    BY <1>1, PlacesAre
  <2>2. QED
    BY <1>1, <2>1
<1>6. x \in Instructions /\ x.op = "go" /\ x.chain = c.lvl /\ x.from = defr /\ x.dest = defr /\ x.to = g
  BY <1>1, <1>5, InstructionIs DEF Falling, Leaving, Between
<1>7. y \in Instructions /\ y.op = "label" /\ y.chain = c.lvl /\ y.to = f
  BY <1>1, <1>5, LabelIs DEF Between
<1>8. Flow(cd, op2, c.lvl, m)
  <2>1. Flow(cd, op, c.lvl, m)
    BY <1>1, FlowMore
  <2>2. \A k \in 1..z : k \in 1..Len(op2) /\ op2[k] = op[k]
    BY <1>4
  <2>3. Kept(cd, op2)
    BY <1>3, <2>1, <2>2, KeptMove DEF Flow
  <2>4. QED
    BY <2>1, <2>3 DEF Flow
<1>9. Formed(x, m)
  BY <1>1, <1>5, <1>6 DEF Formed, Jumping
<1>10. Meets(cd, op2, x)
  <2>1. LabelsAt(cd, g) = {}
    <3>1. LabelsAt(cd, <<"brk", m>>) = {}
      BY <1>1, NumbersAreNew
    <3>2. QED
      BY <1>5, <3>1
  <2>2. z + 1 \in 1..Len(op2) /\ Promises(op2[z + 1], g) /\ op2[z + 1].lvl = c.lvl
    BY <1>2, <1>4, <1>5
  <2>3. QED
    BY <1>6, <2>1, <2>2 DEF Meets, Goal
<1>11. PICK c2 : c2 = Append(cd, x)
  OBVIOUS
<1>12. c2 \in Seq(Instructions) /\ Flow(c2, op2, c.lvl, m)
  <2>1. Flow(Append(cd, x), op2, c.lvl, m)
    BY <1>1, <1>6, <1>8, <1>9, <1>10, FlowAppend DEF Falling
  <2>2. QED
    BY <1>1, <1>6, <1>11, <2>1, LastCut
<1>13. \A l : LabelsAt(c2, l) = LabelsAt(cd, l)
  <2>1. ASSUME NEW l PROVE LabelsAt(Append(cd, x), l) = LabelsAt(cd, l)
    <3>1. LabelsAt(Append(cd, x), l) = LabelsAt(cd, l) \cup {i \in {Len(cd) + 1} : x.op = "label" /\ x.to = l}
      BY <1>1, <1>6, LabelsAppend
    <3>2. QED
      BY <1>6, <3>1
  <2>2. QED
    BY <1>11, <2>1
<1>14. c3 = Append(c2, y)
  BY <1>11 DEF Between
<1>15. \A l : LabelsAt(c3, l) = LabelsAt(c2, l) \cup {i \in {Len(c2) + 1} : l = f}
  BY <1>7, <1>12, <1>14, LabelsAppend
<1>16. c3 \in Seq(Instructions) /\ Flow(c3, op2, c.lvl, m)
  <2>1. LabelsAt(c2, <<"brk", c.id>>) = {}
    BY <1>13 DEF Mid
  <2>2. ASSUME NEW k \in 1..Len(op2), Promises(op2[k], <<"brk", c.id>>) PROVE op2[k].lvl = c.lvl
    <3>1. CASE k \in 1..z
      <4>1. Promises(c, <<"brk", c.id>>)
        BY DEF Promises, Closes
      <4>2. k \in 1..Len(op) /\ op2[k] = op[k]
        BY <1>3, <1>4, <3>1
      <4>3. QED
        BY <2>2, <4>1, <4>2, OnlyPromise
    <3>2. CASE k = z + 1
      BY <1>2, <1>4, <3>2
    <3>3. CASE k = z + 2
      BY <1>2, <1>4, <2>2, <3>3 DEF Promises
    <3>4. QED
      BY <1>3, <1>4, <3>1, <3>2, <3>3
  <2>3. Flow(Append(c2, Label(<<"brk", c.id>>, c.lvl)), op2, c.lvl, m)
    BY <1>1, <1>12, <2>1, <2>2, FlowLabel
  <2>4. Append(c2, y) \in Seq(Instructions)
    BY <1>7, <1>12, LastCut
  <2>5. QED
    BY <1>14, <2>3, <2>4 DEF Between
<1>17. Settled(c3, o2) /\ (bare => Bare(c3, o2, <<>>))
  <2>1. Settled(cd, o2) /\ (bare => Bare(cd, o2, <<>>))
    BY DEF Mid
  <2>2. Settled(Append(cd, x), o2) /\ (bare => Bare(Append(cd, x), o2, <<>>))
    BY <1>1, <1>6, <2>1, SettledAppend, BareAppend
  <2>3. \A k \in 1..Len(o2) :
          ~Promises(o2[k], y.to) /\ (o2[k].kind \in {"for", "do"} => y.to # <<"bg", o2[k].id>>)
    <3> SUFFICES ASSUME NEW k \in 1..Len(o2)
                 PROVE  ~Promises(o2[k], f) /\ f # <<"bg", o2[k].id>>
      BY <1>7
    <3>1. o2[k].kind \in Controls => o2[k].id # c.id
      BY DEF Distinct, Closes
    <3>2. PICK v : v = o2[k].id
      OBVIOUS
    <3>3. <<"brk", c.id>> # <<"bg", v>> /\ <<"brk", c.id>> # <<"cont", v>>
          /\ (<<"brk", c.id>> = <<"brk", v>> => c.id = v)
      OBVIOUS
    <3>4. QED
      BY <1>5, <3>1, <3>2, <3>3 DEF Promises
  <2>4. Settled(Append(c2, y), o2)
    BY <1>7, <1>11, <1>12, <2>2, <2>3, SettledAppend
  <2>5. bare => Bare(Append(c2, y), o2, <<>>)
    BY <1>7, <1>11, <1>12, <2>2, BareAppend
  <2>6. QED
    BY <1>14, <2>4, <2>5
<1>18. Unmade(c3, e)
  <2>1. LabelsAt(cd, <<"brk", m>>) = {}
    BY <1>1, NumbersAreNew
  <2>2. LabelsAt(c3, g) = {}
    BY <1>5, <1>13, <1>15, <2>1
  <2>3. QED
    BY <1>2, <1>5, <2>2 DEF Unmade, LabelsAt
<1>19. LabelsAt(c3, f) # {}
  BY <1>15
<1>20. QED
  BY <1>5, <1>6, <1>7, <1>11, <1>14, <1>16, <1>17, <1>18, <1>19

ElsePart(c, e, b, u, x, y, o2) ==
  /\ code' = code \o <<u, x, y>> /\ defr' = c.lvl /\ open' = o2 \o <<e, b>>
  /\ u = Undo(EndChain(Top), Top.outer)
  /\ x = [op |-> "go", chain |-> c.lvl, from |-> defr, dest |-> defr, to |-> <<"brk", count'>>]
  /\ y = Label(<<"brk", c.id>>, c.lvl)

LEMMA ElseIs ==
  ASSUME Inv, Else
  PROVE  \E c, e, b, u, x, y, o2 :
           /\ phase = "parse" /\ open # <<>> /\ c = Around /\ c.kind = "if" /\ UNCHANGED <<phase, running>>
           /\ count' = count + 1 /\ used' = used \cup {"else"} /\ (\E mix \in Mixes : used' \subseteq mix)
           /\ o2 = Front(Front(open)) /\ Surrounds(c, o2, Len(open))
           /\ Elses(c, count', e, b) /\ ElsePart(c, e, b, u, x, y, o2)
<1>1. /\ phase = "parse" /\ open # <<>> /\ Around.kind = "if" /\ UNCHANGED <<phase, running>>
      /\ count' = count + 1 /\ used' = used \cup {"else"} /\ (\E mix \in Mixes : used' \subseteq mix)
  BY DEF Else, Bodied, Allowed
<1>2. PICK c, u, p, y :
        /\ c = Around /\ u = Undo(EndChain(Top), Top.outer)
        /\ p = Plain("go", <<"brk", count'>>) /\ y = Label(<<"brk", c.id>>, c.lvl)
  OBVIOUS
<1>3. PICK x : x = [p EXCEPT !.chain = c.lvl]
  OBVIOUS
<1>4. PICK body \in Bodies :
        /\ code' = code \o <<u, x, y>> /\ defr' = c.lvl
        /\ open' = SubSeq(open, 1, Len(open) - 2)
                   \o << [c EXCEPT !.kind = "else", !.id = count'],
                         [Construct(body, 0) EXCEPT !.outer = c.lvl] >>
  BY <1>2, <1>3 DEF Else, Emit
<1>5. x = [op |-> "go", chain |-> c.lvl, from |-> defr, dest |-> defr, to |-> <<"brk", count'>>]
  <2>1. PICK g : g = <<"brk", count'>> /\ p = [op |-> "go", chain |-> defr, from |-> defr, dest |-> defr, to |-> g]
    BY <1>2 DEF Plain, Instr
  <2>2. x = [op |-> "go", chain |-> c.lvl, from |-> defr, dest |-> defr, to |-> g]
    BY <1>3, <2>1
  <2>3. QED
    BY <2>1, <2>2
<1>6. PICK o2, z : o2 = Front(Front(open)) /\ z = Len(open)
  OBVIOUS
<1>7. Surrounds(c, o2, z)
  <2>1. c.kind \in Controls
    BY <1>1, <1>2 DEF Controls
  <2>2. QED
    BY <1>1, <1>2, <1>6, <2>1, AroundIs
<1>8. PICK e, b : e = [c EXCEPT !.kind = "else", !.id = count'] /\ b = [Construct(body, 0) EXCEPT !.outer = c.lvl]
  OBVIOUS
<1>9. Elses(c, count', e, b)
  <2>1. defr \in Chains /\ c.lvl \in Chains
    BY <1>1, <1>7, Parsed, ConstructsAre DEF Surrounds, Closes, Types
  <2>2. /\ b \in Constructs /\ b.kind = body /\ b.outer = c.lvl /\ b.lvl = defr
        /\ b.first = "none" /\ b.last = "none"
    BY <1>8, <2>1 DEF Construct, Constructs
  <2>3. QED
    BY <1>8, <2>2 DEF Elses
<1>10. SubSeq(open, 1, z - 2) = o2
  <2>1. /\ open \in Seq(Constructs) /\ z \in Nat /\ z > 2 /\ o2 \in Seq(Constructs) /\ Len(o2) = z - 2
        /\ \A k \in 1..(z - 2) : o2[k] = open[k]
    BY <1>1, <1>7, Parsed DEF Surrounds, Types
  <2>2. PICK t : t = SubSeq(open, 1, z - 2) /\ t \in Seq(Constructs) /\ Len(t) = z - 2
                 /\ \A k \in 1..(z - 2) : t[k] = open[k]
    <3>1. \A k \in 1..(z - 2) : open[k] \in Constructs
      BY <1>6, <2>1, ElementOfSeq
    <3>2. PICK n \in Nat : n = z - 2 /\ n > 0
      BY <2>1
    <3>3. /\ SubSeq(open, 1, n) \in Seq(Constructs) /\ Len(SubSeq(open, 1, n)) = n
          /\ \A k \in 1..n : SubSeq(open, 1, n)[k] = open[k]
      BY <3>1, <3>2, SubSeqProperties
    <3>4. QED
      BY <3>2, <3>3
  <2>3. t = o2
    BY <2>1, <2>2, SeqEqual
  <2>4. QED
    BY <2>2, <2>3
<1>11. ElsePart(c, e, b, u, x, y, o2)
  <2>1. open' = o2 \o <<e, b>>
    BY <1>4, <1>6, <1>8, <1>10
  <2>2. QED
    BY <1>2, <1>4, <1>5, <2>1 DEF ElsePart
<1>12. QED
  BY <1>1, <1>2, <1>6, <1>7, <1>9, <1>11

LEMMA ElseStep == ASSUME Inv, Else PROVE Inv'
<1>1. PICK c, e, b, u, x, y, o2 :
           /\ phase = "parse" /\ open # <<>> /\ c = Around /\ c.kind = "if" /\ UNCHANGED <<phase, running>>
           /\ count' = count + 1 /\ used' = used \cup {"else"} /\ (\E mix \in Mixes : used' \subseteq mix)
           /\ o2 = Front(Front(open)) /\ Surrounds(c, o2, Len(open))
           /\ Elses(c, count', e, b) /\ ElsePart(c, e, b, u, x, y, o2)
  BY ElseIs
<1>2. PICK z \in Nat, m \in Nat : z = Len(open) /\ z > 2 /\ m = count' /\ m = count + 1
  BY <1>1, Parsed DEF Surrounds, Types
<1>3. /\ code \in Seq(Instructions) /\ defr \in Chains /\ count \in Nat /\ open \in Seq(Constructs)
      /\ Top = open[z] /\ Top.kind \notin Controls
      /\ Scoped(open, defr) /\ Numbered(open, count) /\ Settled(code, open) /\ Ends(open)
      /\ UsedKinds(used, code, open, defr)
  BY <1>1, <1>2, Parsed, TopIs DEF Types, Bodies, Controls
<1>4. /\ c = open[z - 1] /\ c.lvl = Top.outer
      /\ o2 \in Seq(Constructs) /\ Len(o2) = z - 2 /\ (\A k \in 1..(z - 2) : o2[k] = open[k])
      /\ open[z - 2].kind \notin Controls
      /\ Closes(open, o2, z - 1, c, count)
  BY <1>1, <1>2 DEF Surrounds
<1>5. PICK j : Closes(open, o2, j, c, count)
  BY <1>4
<1>6. c \in Constructs /\ c.id \in 1..count /\ c.lvl \in Chains /\ c.outer \in Chains /\ IsPrefix(c.outer, c.lvl)
  BY <1>5, ConstructsAre DEF Closes
<1>7. /\ e \in Constructs /\ e.kind = "else" /\ e.id = m /\ e.outer = c.outer /\ e.lvl = c.lvl
      /\ e.first = c.first /\ e.last = c.last /\ Quiet(e) /\ b.kind \notin Controls
      /\ (\A l : Promises(e, l) <=> l = <<"brk", m>>) /\ (\A cd : Begun(cd, e))
  <2>1. Elses(c, m, e, b)
    BY <1>1, <1>2
  <2>2. QED
    BY <1>6, <2>1, ElsesAre
<1>8. /\ b \in Constructs /\ b.kind \in Bodies /\ b.outer = c.lvl /\ b.lvl = defr
      /\ b.first = "none" /\ b.last = "none"
  BY <1>1 DEF Elses
<1>9. PICK c1 : c1 = Append(code, u)
  OBVIOUS
<1>10. /\ u \in Instructions /\ c1 \in Seq(Instructions)
       /\ Flow(c1, open, c.lvl, count) /\ Settled(c1, open)
       /\ used \cap Undoable = {} => Bare(c1, open, <<>>) /\ c.lvl = <<>>
  <2>1. u = Undo(EndChain(Top), Top.outer)
    BY <1>1 DEF ElsePart
  <2>2. /\ u \in Instructions /\ c1 \in Seq(Instructions)
        /\ Flow(c1, open, Top.outer, count) /\ Settled(c1, open)
        /\ used \cap Undoable = {} => Bare(c1, open, <<>>) /\ Top.outer = <<>>
    BY <1>1, <1>9, <2>1, BodyEnds
  <2>3. QED
    BY <1>4, <2>2
<1>11. PICK bare \in BOOLEAN : bare <=> used \cap Undoable = {}
  OBVIOUS
<1>12. Mid(c1, o2, c, bare) /\ Unmade(c1, c)
  <2>1. z - 1 \in 1..Len(open)
    BY <1>2
  <2>2. Unmade(c1, c) /\ Begun(c1, c)
    BY <1>4, <1>10, <2>1 DEF Settled
  <2>3. LabelsAt(c1, <<"brk", c.id>>) = {}
    <3>1. c.kind \in Controls
      BY <1>5 DEF Closes
    <3>2. QED
      BY <2>2, <3>1 DEF Unmade, LabelsAt, Promises
  <2>4. \A k \in 1..Len(o2) : k \in 1..Len(open) /\ o2[k] = open[k]
    BY <1>2, <1>4
  <2>5. Settled(c1, o2) /\ (bare => Bare(c1, o2, <<>>))
    BY <1>10, <1>11, <2>4 DEF Settled, Bare
  <2>6. QED
    BY <1>10, <2>2, <2>3, <2>5 DEF Mid
<1>13. PICK p, q, n : p = open \o <<e, b>> /\ q = open /\ n = count
  OBVIOUS
<1>z. PICK c3 : c3 = Append(Append(c1, x), y)
  OBVIOUS
<1>14. /\ x \in Instructions /\ y \in Instructions /\ c3 \in Seq(Instructions)
       /\ Flow(c3, p, c.lvl, m) /\ Settled(c3, o2) /\ Unmade(c3, e)
       /\ bare => Bare(c3, o2, <<>>)
       /\ LabelsAt(c3, <<"brk", c.id>>) # {}
  <2>1. /\ Closes(q, o2, j, c, n) /\ Flow(c1, q, c.lvl, n) /\ m = n + 1 /\ q \in Seq(Constructs)
        /\ Mid(c1, o2, c, bare) /\ Unmade(c1, c)
    BY <1>2, <1>3, <1>5, <1>10, <1>12, <1>13
  <2>2. c.kind = "if" /\ Elses(c, m, e, b) /\ (bare => c.lvl = <<>>) /\ defr \in Chains
    BY <1>1, <1>2, <1>3, <1>10, <1>11
  <2>3. Between(c, m, e, b, x, y, q, p, c1, c3)
    BY <1>1, <1>2, <1>13, <1>z DEF ElsePart, Between
  <2>4. QED
    BY <2>1, <2>2, <2>3, BranchEnds
<1>15. code' = c3
  <2>1. code \o <<u, x, y>> = Append(Append(Append(code, u), x), y)
    BY <1>3, <1>10, <1>14, ThreeMore
  <2>2. code' = code \o <<u, x, y>>
    BY <1>1 DEF ElsePart
  <2>3. QED
    BY <1>9, <1>z, <2>1, <2>2
<1>16. PICK o : o = o2 \o <<e, b>> /\ o = open'
  BY <1>1 DEF ElsePart
<1>17. /\ o \in Seq(Constructs) /\ Len(o) = z /\ (\A k \in 1..(z - 2) : o[k] = o2[k]) /\ o[z - 1] = e /\ o[z] = b
  <2>1. PICK w \in Nat : w = z - 2 /\ w + 1 = z - 1 /\ w + 2 = z
    BY <1>2
  <2>2. /\ o \in Seq(Constructs) /\ Len(o) = w + 2 /\ (\A k \in 1..w : o[k] = o2[k])
        /\ o[w + 1] = e /\ o[w + 2] = b
    <3>1. /\ o \in Seq(Constructs) /\ Len(o) = Len(o2) + 2 /\ (\A k \in 1..Len(o2) : o[k] = o2[k])
          /\ o[Len(o2) + 1] = e /\ o[Len(o2) + 2] = b
      <4>1. o2 \in Seq(Constructs) /\ e \in Constructs /\ b \in Constructs /\ o = o2 \o <<e, b>>
        BY <1>4, <1>7, <1>8, <1>16
      <4>2. QED
        BY <4>1, TwoOn
    <3>2. Len(o2) = w
      BY <1>4, <2>1
    <3>3. QED
      BY <3>1, <3>2
  <2>3. QED
    BY <2>1, <2>2
<1>18. Scoped(o2, c.outer) /\ Numbered(o2, count)
  <2>1. z - 2 \in Nat /\ z - 2 < z /\ z - 2 + 1 = z - 1
    BY <1>2
  <2>2. QED
    BY <1>2, <1>3, <1>4, <2>1, PopScoped
<1>19. Numbered(o2, m) /\ \A k \in 1..Len(o2) : o2[k].kind \in Controls => o2[k].id # e.id
  <2>1. 1..count \subseteq 1..m /\ m \notin 1..count
    BY <1>2, <1>3
  <2>2. QED
    BY <1>7, <1>18, <2>1 DEF Numbered
<1>20. Scoped(o, c.lvl) /\ Numbered(o, m)
  <2>1. o2 # <<>>
    BY <1>2, <1>4, EmptySeq
  <2>2. e.kind \in Controls /\ e.id \in 1..m /\ e.kind # "do" /\ IsPrefix(e.outer, e.lvl)
        /\ Scoped(o2, e.outer) /\ b.outer = e.lvl
    BY <1>2, <1>3, <1>6, <1>7, <1>8, <1>18 DEF Controls
  <2>3. QED
    BY <1>4, <1>7, <1>8, <1>16, <1>19, <2>1, <2>2, PushScoped
<1>21. Settled(c3, o)
  BY <1>4, <1>7, <1>8, <1>14, <1>16, PushSettled
<1>22. Ends(o) /\ \A cd : Early(cd, o)
  <2>1. \A k \in 1..(z - 2) : k \in 1..z /\ k # z
    BY <1>2
  <2>2. \A k \in 1..Len(o2) : Quiet(o2[k]) /\ (o2[k].last = "none" <=> o2[k].first = "none")
    BY <1>2, <1>3, <1>4, <2>1 DEF Ends
  <2>3. e.last = "none" <=> e.first = "none"
    <3>1. z - 1 \in 1..Len(open)
      BY <1>2
    <3>2. QED
      BY <1>3, <1>4, <1>7, <3>1 DEF Ends
  <2>4. QED
    BY <1>4, <1>7, <1>8, <1>16, <2>2, <2>3, PushEnds
<1>23. Flow(c3, o, c.lvl, m)
  <2>1. /\ Len(p) = z + 2 /\ (\A k \in 1..z : p[k] = open[k]) /\ p[z + 1] = e /\ p[z + 2] = b
    BY <1>2, <1>3, <1>7, <1>8, <1>13, TwoOn
  <2>2. ASSUME NEW k \in 1..(z + 2), p[k].kind \in Controls
        PROVE  \/ \A l : Promises(p[k], l) => LabelsAt(c3, l) # {}
               \/ \E i \in 1..Len(o) : o[i].lvl = p[k].lvl /\ \A l : Promises(p[k], l) => Promises(o[i], l)
    <3>1. CASE k \in 1..(z - 2)
      <4>1. k \in 1..Len(o) /\ o[k] = p[k]
        BY <1>2, <1>4, <1>17, <2>1, <3>1
      <4>2. QED
        BY <4>1
    <3>2. CASE k = z - 1
      <4>1. p[k] = c
        BY <1>2, <1>4, <2>1, <3>2
      <4>2. \A l : Promises(c, l) => l = <<"brk", c.id>>
        BY <1>1 DEF Promises
      <4>3. QED
        BY <1>14, <4>1, <4>2
    <3>3. CASE k = z
      BY <1>2, <1>3, <2>1, <2>2, <3>3
    <3>4. CASE k = z + 1
      <4>1. z - 1 \in 1..Len(o) /\ o[z - 1] = p[k]
        BY <1>2, <1>17, <2>1, <3>4
      <4>2. QED
        BY <4>1
    <3>5. CASE k = z + 2
      BY <1>7, <2>1, <2>2, <3>5
    <3>6. QED
      BY <1>2, <3>1, <3>2, <3>3, <3>4, <3>5
  <2>3. Kept(c3, p)
    BY <1>14 DEF Flow
  <2>4. Kept(c3, o)
    BY <2>1, <2>2, <2>3, KeptMove
  <2>5. QED
    BY <1>14, <2>4 DEF Flow
<1>24. UsedKinds(used', c3, o, c.lvl)
  <2>1. used \subseteq used' /\ (used' \cap Undoable = {} => used \cap Undoable = {})
    BY <1>1
  <2>2. \A k \in 1..z : k \in 1..(z - 2) \/ k = z - 1 \/ k = z
    BY <1>2
  <2>3. \A k \in 1..(z - 2) : k \in 1..Len(open) /\ o[k] = open[k]
    BY <1>2, <1>4, <1>17
  <2>4. \A k \in 1..z : o[k].kind \in Controls \ {"else"} => o[k].kind \in used'
    BY <1>3, <1>7, <1>17, <2>1, <2>2, <2>3 DEF UsedKinds
  <2>5. ASSUME used' \cap Undoable = {} PROVE Bare(c3, o, c.lvl)
    <3>1. Bare(code, open, defr) /\ c.lvl = <<>> /\ Bare(c3, o2, <<>>)
      BY <1>3, <1>10, <1>11, <1>14, <2>1, <2>5 DEF UsedKinds
    <3>2. \A k \in 1..z : o[k].lvl = <<>>
      BY <1>7, <1>8, <1>17, <2>2, <2>3, <3>1 DEF Bare
    <3>3. QED
      BY <1>17, <3>1, <3>2 DEF Bare
  <2>6. QED
    BY <1>1, <1>17, <2>4, <2>5 DEF UsedKinds
<1>25. defr' = c.lvl
  BY <1>1 DEF ElsePart
<1>26. QED
  BY <1>1, <1>2, <1>6, <1>14, <1>15, <1>16, <1>17, <1>20, <1>21, <1>22, <1>23, <1>24, <1>25, StillParsing

----------------------------------------------------------------------------
(* The end of the function: what its gotos undo is filled in.              *)
Resolved(cd, c2) ==
  /\ Len(c2) = Len(cd)
  /\ \A i \in 1..Len(cd) : /\ c2[i].op = cd[i].op /\ c2[i].chain = cd[i].chain /\ c2[i].from = cd[i].from
                           /\ c2[i].to = cd[i].to
                           /\ cd[i].op \notin {"goto", "&&"} => c2[i].dest = cd[i].dest

LEMMA ResolvedFlow ==
  ASSUME NEW cd \in Seq(Instructions), NEW c2, NEW op, NEW end, NEW n, Flow(cd, op, end, n), Resolved(cd, c2)
  PROVE  Flow(c2, op, end, n) /\ \A l : LabelsAt(c2, l) = LabelsAt(cd, l)
<1>1. PICK z \in Nat : z = Len(cd)
  BY LenProperties
<1>2. /\ Len(c2) = z
      /\ \A i \in 1..z : /\ c2[i].op = cd[i].op /\ c2[i].chain = cd[i].chain /\ c2[i].from = cd[i].from
                         /\ c2[i].to = cd[i].to
                         /\ cd[i].op \notin {"goto", "&&"} => c2[i].dest = cd[i].dest
  BY <1>1 DEF Resolved
<1>3. \A l : LabelsAt(c2, l) = LabelsAt(cd, l)
  BY <1>1, <1>2 DEF LabelsAt
<1>4. ASSUME NEW i \in 1..z
      PROVE  /\ Formed(c2[i], n) /\ After(c2[i]) = After(cd[i]) /\ Jumping(c2[i]) = Jumping(cd[i])
             /\ Jumping(cd[i]) => Goal(c2[i]) = Goal(cd[i])
  <2>1. Formed(cd[i], n)
    BY <1>1 DEF Flow
  <2>2. /\ Jumping(c2[i]) = Jumping(cd[i]) /\ (Jumping(cd[i]) => Goal(c2[i]) = Goal(cd[i]))
    BY <1>2 DEF Jumping, Goal
  <2>3. After(c2[i]) = After(cd[i])
    BY <1>2 DEF After
  <2>4. Formed(c2[i], n)
    BY <1>2, <2>1, <2>2 DEF Formed
  <2>5. QED
    BY <2>2, <2>3, <2>4
<1>5. ASSUME NEW p \in 1..z PROVE Cut(c2, p) <=> Cut(cd, p)
  <2>1. \A j \in 1..p : j \in 1..z /\ \A k \in (j + 1)..p : k \in 1..z
    BY <1>1
  <2>2. \A j \in 1..p : c2[j].op = cd[j].op /\ \A k \in (j + 1)..p : c2[k].op = cd[k].op
    BY <1>2, <2>1
  <2>3. QED
    BY <2>2 DEF Cut
<1>6. \A p \in 0..z : Behind(c2, end, p) = Behind(cd, end, p)
  BY <1>1, <1>2 DEF Behind
<1>7. Connected(c2, end)
  <2>1. Connected(cd, end)
    BY DEF Flow
  <2>2. Behind(c2, end, 0) = <<>>
    BY <1>1, <1>6, <2>1 DEF Connected
  <2>3. ASSUME NEW p \in 1..z, ~Cut(c2, p) PROVE Behind(c2, end, p) = After(c2[p])
    <3>1. Behind(cd, end, p) = After(cd[p])
      BY <1>1, <1>5, <2>1, <2>3 DEF Connected
    <3>2. p \in 0..z
      BY <1>1
    <3>3. QED
      BY <1>4, <1>6, <3>1, <3>2
  <2>4. QED
    BY <1>2, <2>2, <2>3 DEF Connected
<1>8. Kept(c2, op)
  <2>1. ASSUME NEW i \in 1..z, Jumping(c2[i]) PROVE Meets(c2, op, c2[i])
    <3>1. Meets(cd, op, cd[i])
      BY <1>1, <1>4, <2>1 DEF Flow, Kept
    <3>2. Goal(c2[i]) = Goal(cd[i]) /\ c2[i].to = cd[i].to /\ c2[i].op = cd[i].op /\ c2[i].chain = cd[i].chain
      BY <1>2, <1>4, <2>1
    <3>3. \A l, p : p \in LabelsAt(cd, l) => c2[p].chain = cd[p].chain
      BY <1>1, <1>2 DEF LabelsAt
    <3>4. QED
      BY <1>3, <3>1, <3>2, <3>3 DEF Meets
  <2>2. QED
    BY <1>2, <2>1 DEF Kept
<1>9. QED
  BY <1>1, <1>2, <1>3, <1>4, <1>7, <1>8 DEF Flow

LEMMA EndFunctionStep == ASSUME Inv, EndFunction PROVE Inv'
<1>1. /\ phase = "parse" /\ open = <<>> /\ UNCHANGED <<defr, open, used, count, running>>
  BY DEF EndFunction
<1>2. /\ Types /\ Flow(code, open, defr, count) /\ Scoped(open, defr) /\ code \in Seq(Instructions)
      /\ pc = 1 /\ pending = <<>> /\ rsp = 0 /\ ~fault
  BY <1>1, Parsed DEF Types
<1>3. defr = <<>>
  BY <1>1, <1>2 DEF Scoped
<1>4. pc' = 1 /\ pending' = <<>> /\ rsp' = 0 /\ ~fault'
  BY <1>1, <1>2 DEF running
<1>5. PICK z \in Nat : z = Len(code)
  BY <1>2, LenProperties
<1>6. PICK gotos : gotos = {i \in 1..z : code[i].op \in {"goto", "&&"}}
  OBVIOUS
<1>7. CASE phase' = "rejected" /\ UNCHANGED code
  <2>1. Types'
    BY <1>1, <1>2, <1>4, <1>7 DEF Types, running
  <2>2. QED
    BY <1>4, <1>7, <2>1 DEF Inv, Written, Parsing1, Running
<1>8. CASE /\ \A i \in gotos : Legal(i)
           /\ code' = [i \in 1..z |->
                         IF i \in gotos THEN [code[i] EXCEPT !.dest = code[Position(code[i].to)].chain]
                         ELSE code[i]]
           /\ phase' = "run"
  <2>1. ASSUME NEW i \in gotos
        PROVE  /\ Positions(code[i].to) # {} /\ Position(code[i].to) \in Positions(code[i].to)
               /\ code[Position(code[i].to)].chain \in Chains
               /\ IsPrefix(code[Position(code[i].to)].chain, code[i].from)
    <3>1. Legal(i)
      BY <1>8
    <3>2. PICK l : l = code[i].to
      OBVIOUS
    <3>3. Positions(l) # {} /\ Position(l) \in Positions(l)
      BY <3>1, <3>2 DEF Legal, Position
    <3>4. Position(l) \in 1..Len(code)
      BY <3>3 DEF Positions
    <3>5. code[Position(l)] \in Instructions
      BY <1>2, <3>4, ElementOfSeq
    <3>6. code[Position(l)].chain \in Chains
      BY <3>5 DEF Instructions
    <3>7. QED
      BY <3>1, <3>2, <3>3, <3>6 DEF Legal
  <2>2. PICK c2 : c2 = code' /\ c2 = [i \in 1..z |->
                         IF i \in gotos THEN [code[i] EXCEPT !.dest = code[Position(code[i].to)].chain]
                         ELSE code[i]]
    BY <1>8
  <2>3. ASSUME NEW i \in 1..z
        PROVE  /\ c2[i] \in Instructions /\ c2[i].op = code[i].op /\ c2[i].chain = code[i].chain
               /\ c2[i].from = code[i].from /\ c2[i].to = code[i].to
               /\ i \notin gotos => c2[i].dest = code[i].dest
               /\ i \in gotos => c2[i].dest = code[Position(code[i].to)].chain
    <3>1. code[i] \in Instructions
      BY <1>2, <1>5, ElementOfSeq
    <3>2. CASE i \in gotos
      <4>1. PICK d \in Chains : d = code[Position(code[i].to)].chain
        BY <2>1, <3>2
      <4>2. c2[i] = [code[i] EXCEPT !.dest = d]
        BY <2>2, <3>2, <4>1
      <4>3. QED
        BY <3>1, <3>2, <4>1, <4>2 DEF Instructions
    <3>3. CASE i \notin gotos
      <4>1. c2[i] = code[i]
        BY <2>2, <3>3
      <4>2. QED
        BY <3>1, <3>3, <4>1
    <3>4. QED
      BY <3>2, <3>3
  <2>4. c2 \in Seq(Instructions) /\ Len(c2) = z
    <3>1. c2 \in [1..z -> Instructions]
      BY <2>2, <2>3
    <3>2. QED
      BY <1>5, <3>1, IsASeq, LenProperties
  <2>5. Resolved(code, c2)
    BY <1>5, <1>6, <2>3, <2>4 DEF Resolved
  <2>6. Flow(c2, <<>>, <<>>, count) /\ \A l : LabelsAt(c2, l) = LabelsAt(code, l)
    BY <1>1, <1>2, <1>3, <2>5, ResolvedFlow
  <2>7. \A l : Positions(l)' = Positions(l) /\ Position(l)' = Position(l)
    <3>1. ASSUME NEW l PROVE Positions(l)' = Positions(l)
      BY <2>2, <2>6 DEF Positions, LabelsAt
    <3>2. QED
      BY <3>1 DEF Position
  <2>8. ASSUME NEW n \in 1..z, c2[n].op = "goto"
        PROVE  /\ Positions(<<"L">>)' # {} /\ c2[n].dest = c2[Position(<<"L">>)'].chain
               /\ IsPrefix(c2[n].dest, c2[n].from)
    <3>1. code[n].op = "goto" /\ n \in gotos
      BY <1>6, <2>3, <2>8
    <3>2. code[n].to = <<"L">>
      BY <1>2, <1>5, <3>1 DEF Flow, Formed
    <3>3. PICK l : l = <<"L">>
      OBVIOUS
    <3>4. /\ Positions(l) # {} /\ Position(l) \in Positions(l)
          /\ IsPrefix(code[Position(l)].chain, code[n].from) /\ c2[n].dest = code[Position(l)].chain
      BY <2>1, <2>3, <3>1, <3>2, <3>3
    <3>5. Position(l) \in 1..z
      BY <1>5, <3>4 DEF Positions
    <3>6. c2[Position(l)].chain = code[Position(l)].chain /\ c2[n].from = code[n].from
      BY <2>3, <3>5
    <3>7. Positions(l)' = Positions(l) /\ Position(l)' = Position(l)
      BY <2>7
    <3>8. QED
      BY <3>3, <3>4, <3>6, <3>7
  <2>9. Behind(c2, <<>>, 0) = <<>>
    BY <2>6 DEF Flow, Connected
  <2>10. Newest(<<>>) = 0
    BY EmptySeq DEF Newest
  <2>11. Types'
    BY <1>1, <1>2, <1>4, <1>8, <2>2, <2>4 DEF Types, running
  <2>12. Written'
    <3>1. Flow(code', open', defr', count')
      BY <1>1, <1>3, <2>2, <2>6
    <3>2. QED
      BY <3>1 DEF Written, Flow, Connected, Kept
  <2>13. Running'
    <3>1. open' = <<>> /\ defr' = <<>> /\ phase' = "run"
      BY <1>1, <1>3, <1>8
    <3>2. pc' \in 1..(Len(code') + 1)
      BY <1>4, <2>2, <2>4
    <3>3. pending' = Behind(code', <<>>, pc' - 1)
      BY <1>4, <2>2, <2>9
    <3>4. ~Cut(code', pc' - 1)
      BY <1>4, NeverCut
    <3>5. rsp' = Newest(pending')
      BY <1>4, <2>10
    <3>6. \A n \in 1..Len(code') : code'[n].op = "goto" =>
            /\ Positions(<<"L">>)' # {} /\ code'[n].dest = code'[Position(<<"L">>)'].chain
            /\ IsPrefix(code'[n].dest, code'[n].from)
      BY <2>2, <2>4, <2>8
    <3>7. QED
      BY <1>4, <3>1, <3>2, <3>3, <3>4, <3>5, <3>6 DEF Running, Behind, Newest
  <2>14. QED
    BY <1>8, <2>11, <2>12, <2>13 DEF Inv, Parsing1
<1>9. QED
  BY <1>5, <1>6, <1>7, <1>8 DEF EndFunction

----------------------------------------------------------------------------
(* Running the code.                                                       *)
LEMMA PositionsAre ==
  ASSUME NEW l
  PROVE  Positions(l) = LabelsAt(code, l) /\ (Positions(l) # {} => Position(l) \in LabelsAt(code, l))
BY DEF Positions, LabelsAt, Position

LEMMA CutBefore ==
  ASSUME NEW cd, NEW p \in Nat, Cut(cd, p)
  PROVE  cd[p].op \notin Falling \/ (Cut(cd, p - 1) /\ cd[p].op # "label")
<1>1. PICK j \in 1..p : cd[j].op \notin Falling /\ \A k \in (j + 1)..p : cd[k].op # "label"
  BY DEF Cut
<1>2. CASE j = p
  BY <1>1, <1>2
<1>3. CASE j # p
  <2>1. j \in 1..(p - 1) /\ p \in (j + 1)..p /\ \A k \in (j + 1)..(p - 1) : k \in (j + 1)..p
    BY <1>3
  <2>2. QED
    BY <1>1, <2>1 DEF Cut
<1>4. QED
  BY <1>2, <1>3

LEMMA AtIs ==
  ASSUME Inv, NEW ops, At(ops)
  PROVE  /\ phase = "run" /\ Types /\ Flow(code, <<>>, <<>>, count) /\ code \in Seq(Instructions)
         /\ pc \in 1..Len(code) /\ Now = code[pc] /\ Now \in Instructions /\ Now.op \in ops
         /\ Formed(Now, count) /\ pending = Now.chain /\ pending \in Chains /\ rsp \in Nat /\ fault = FALSE
         /\ dealloc_vla => rsp = Newest(pending)
<1>1. phase = "run" /\ pc <= Len(code) /\ Now.op \in ops /\ Now = code[pc]
  BY DEF At, Now
<1>2. /\ Types /\ Flow(code, open, defr, count) /\ open = <<>> /\ defr = <<>> /\ code \in Seq(Instructions)
      /\ pc \in 1..(Len(code) + 1) /\ pending = Behind(code, <<>>, pc - 1) /\ ~fault
      /\ dealloc_vla => rsp = Newest(pending)
  BY <1>1 DEF Inv, Written, Running, Types
<1>3. PICK z \in Nat : z = Len(code)
  BY <1>2, LenProperties
<1>4. pc \in 1..z /\ pc - 1 < z /\ pc - 1 + 1 = pc
  BY <1>1, <1>2, <1>3
<1>5. Now \in Instructions /\ Formed(Now, count)
  BY <1>1, <1>2, <1>3, <1>4, ElementOfSeq DEF Flow
<1>6. pending = Now.chain
  BY <1>1, <1>2, <1>3, <1>4 DEF Behind
<1>7. QED
  BY <1>1, <1>2, <1>3, <1>4, <1>5, <1>6 DEF Types

LEMMA StillRunning ==
  ASSUME Inv, phase = "run", Unmoved, pc' \in 1..(Len(code) + 1), pending' = Behind(code, <<>>, pc' - 1),
         fault' = FALSE, Cut(code, pc' - 1) /\ pc' <= Len(code) => code[pc'].op = "label",
         dealloc_vla => rsp' = Newest(pending'), pending' \in Chains, rsp' \in Nat
  PROVE  Inv'
<1>1. UNCHANGED <<defr, open, code, used, count, phase>>
  BY DEF Unmoved
<1>2. Types /\ Written /\ Running /\ phase' = "run" /\ code \in Seq(Instructions)
  BY <1>1 DEF Inv, Types
<1>3. Types'
  <2>1. pc' \in Nat
    <3>1. Len(code) \in Nat
      BY <1>2, LenProperties
    <3>2. QED
      BY <3>1
  <2>b. fault' \in BOOLEAN
    BY Zenon
  <2>2. QED
    BY <1>1, <1>2, <2>1, <2>b DEF Types
<1>4. Written'
  BY <1>1, <1>2 DEF Written, Flow, Connected, Kept
<1>5. dealloc_vla' = dealloc_vla /\ Positions(<<"L">>)' = Positions(<<"L">>)
      /\ Position(<<"L">>)' = Position(<<"L">>)
  BY <1>1 DEF dealloc_vla, Positions, Position
<1>6. Running'
  <2>1. open' = <<>> /\ defr' = <<>>
    BY <1>1, <1>2 DEF Running
  <2>2. \A n \in 1..Len(code') : code'[n].op = "goto" =>
          /\ Positions(<<"L">>)' # {} /\ code'[n].dest = code'[Position(<<"L">>)'].chain
          /\ IsPrefix(code'[n].dest, code'[n].from)
    BY <1>1, <1>2, <1>5 DEF Running
  <2>3. pc' \in 1..(Len(code') + 1) /\ pending' = Behind(code', <<>>, pc' - 1)
        /\ (Cut(code', pc' - 1) /\ pc' <= Len(code') => code'[pc'].op = "label")
    BY <1>1
  <2>4. dealloc_vla' => rsp' = Newest(pending')
    BY <1>5
  <2>5. QED
    BY <1>2, <1>5, <2>1, <2>2, <2>3, <2>4 DEF Running, Behind, Newest
<1>7. QED
  BY <1>2, <1>3, <1>4, <1>6 DEF Inv, Parsing1

(* Going on to the next instruction, and going to a label.                 *)
LEMMA GoesOn ==
  ASSUME Inv, NEW ops, ops \subseteq Falling, At(ops), Unmoved, pc' = pc + 1, UNCHANGED fault,
         pending' = After(Now), pending' \in Chains, dealloc_vla => rsp' = Newest(pending'), rsp' \in Nat
  PROVE  Inv'
<1>1. /\ phase = "run" /\ Flow(code, <<>>, <<>>, count) /\ code \in Seq(Instructions)
      /\ pc \in 1..Len(code) /\ Now = code[pc] /\ Now.op \in Falling /\ fault = FALSE
  BY AtIs
<1>2. PICK z \in Nat : z = Len(code)
  BY <1>1, LenProperties
<1>3. pc \in 1..z /\ pc \in Nat /\ pc' - 1 = pc /\ pc' \in 1..(z + 1)
  BY <1>1, <1>2
<1>4. Cut(code, pc - 1) => Now.op = "label"
  BY <1>1, <1>2, <1>3 DEF Inv, Running
<1>5. ~Cut(code, pc)
  BY <1>1, <1>3, <1>4, CutBefore
<1>6. Behind(code, <<>>, pc) = After(Now)
  BY <1>1, <1>5 DEF Flow, Connected
<1>7. QED
  BY <1>1, <1>2, <1>3, <1>5, <1>6, StillRunning

LEMMA Arrives ==
  ASSUME Inv, phase = "run", Unmoved, NEW l, pc' \in LabelsAt(code, l), pending' = code[pc'].chain, fault' = FALSE,
         dealloc_vla => rsp' = Newest(pending'), rsp' \in Nat
  PROVE  Inv'
<1>1. code \in Seq(Instructions)
  BY DEF Inv, Types
<1>2. PICK z \in Nat : z = Len(code)
  BY <1>1, LenProperties
<1>3. pc' \in 1..z /\ code[pc'].op = "label"
  BY <1>2 DEF LabelsAt
<1>4. pc' - 1 < z /\ pc' - 1 + 1 = pc' /\ pc' \in 1..(z + 1)
  <2>1. PICK p \in 1..z : p = pc'
    BY <1>3
  <2>2. p - 1 < z /\ p - 1 + 1 = p /\ p \in 1..(z + 1)
    OBVIOUS
  <2>3. QED
    BY <2>1, <2>2
<1>5. pending' = Behind(code, <<>>, pc' - 1)
  BY <1>2, <1>4 DEF Behind
<1>6. pending' \in Chains
  <2>1. code[pc'] \in Instructions
    BY <1>1, <1>2, <1>3, ElementOfSeq
  <2>2. QED
    BY <2>1 DEF Instructions
<1>7. QED
  BY <1>2, <1>3, <1>4, <1>5, <1>6, StillRunning

(* A jump arrives with what is pending at its label.                       *)
LEMMA Lands ==
  ASSUME Inv, NEW ops, At(ops), Jumping(Now)
  PROVE  /\ Position(Now.to) \in LabelsAt(code, Now.to) /\ code[Position(Now.to)].chain = Goal(Now)
         /\ Now.op = "dispatch" => \A p \in Positions(<<"case", Now.to[2]>>) : code[p].chain = Now.chain
<1>1. Flow(code, <<>>, <<>>, count) /\ pc \in 1..Len(code) /\ Now = code[pc]
  BY AtIs
<1>2. Meets(code, <<>>, Now)
  BY <1>1 DEF Flow, Kept
<1>3. LabelsAt(code, Now.to) # {}
  <2>1. 1..Len(<<>>) = {}
    BY EmptySeq
  <2>2. QED
    BY <1>2, <2>1 DEF Meets
<1>4. PICK l : l = Now.to
  OBVIOUS
<1>5. Position(l) \in LabelsAt(code, l)
  BY <1>3, <1>4, PositionsAre
<1>6. code[Position(l)].chain = Goal(Now)
  BY <1>2, <1>4, <1>5 DEF Meets
<1>7. ASSUME Now.op = "dispatch", NEW p \in Positions(<<"case", Now.to[2]>>) PROVE code[p].chain = Now.chain
  <2>1. PICK c : c = <<"case", Now.to[2]>>
    OBVIOUS
  <2>2. p \in LabelsAt(code, c)
    BY <2>1, <1>7, PositionsAre
  <2>3. QED
    BY <1>2, <1>7, <2>1, <2>2 DEF Meets
<1>8. QED
  BY <1>4, <1>5, <1>6, <1>7

----------------------------------------------------------------------------
(* The newest VLA of a chain, and what gen_defr makes of it.               *)
Vlas(s) == {i \in 1..Len(s) : s[i].kind = "vla"}

LEMMA NewestAt ==
  ASSUME NEW s \in Chains, NEW i \in Vlas(s), \A j \in Vlas(s) : j <= i
  PROVE  Newest(s) = s[i].id
<1>1. \A k \in Vlas(s) : (\A j \in Vlas(s) : j <= k) => k = i
  <2>1. Vlas(s) \subseteq Nat
    BY LenProperties DEF Vlas, Chains
  <2>2. QED
    BY <2>1
<1>2. PICK k : k = CHOOSE m \in Vlas(s) : \A j \in Vlas(s) : j <= m
  OBVIOUS
<1>3. k = i
  BY <1>1, <1>2
<1>4. QED
  BY <1>2, <1>3 DEF Newest, Vlas

LEMMA NewestIs ==
  ASSUME NEW s \in Chains
  PROVE  /\ Newest(s) \in Nat
         /\ Vlas(s) = {} => Newest(s) = 0
         /\ Vlas(s) # {} => \E i \in Vlas(s) : Newest(s) = s[i].id /\ \A j \in Vlas(s) : j <= i
<1>1. PICK n \in Nat : n = Len(s) /\ s \in Seq(TypeOfDefr)
  BY LenProperties DEF Chains
<1>2. Vlas(s) = {} => Newest(s) = 0
  BY DEF Newest, Vlas
<1>3. ASSUME Vlas(s) # {} PROVE \E i \in Vlas(s) : Newest(s) = s[i].id /\ \A j \in Vlas(s) : j <= i
  <2>1. PICK i \in Vlas(s) : \A j \in Vlas(s) : j <= i
    BY <1>1, <1>3, Greatest DEF Vlas
  <2>2. QED
    BY <2>1, NewestAt
<1>4. \A i \in Vlas(s) : s[i].id \in Nat
  <2>1. ASSUME NEW i \in Vlas(s) PROVE s[i].id \in Nat
    <3>1. s[i] \in TypeOfDefr
      BY <1>1, ElementOfSeq DEF Vlas
    <3>2. QED
      BY <3>1 DEF TypeOfDefr
  <2>2. QED
    BY <2>1
<1>5. QED
  BY <1>2, <1>3, <1>4

LEMMA NewestSame ==
  ASSUME NEW s \in Chains, NEW t \in Chains, Vlas(s) = Vlas(t), \A i \in Vlas(s) : s[i] = t[i]
  PROVE  Newest(s) = Newest(t)
<1>1. CASE Vlas(s) = {}
  BY <1>1, NewestIs
<1>2. CASE Vlas(s) # {}
  <2>1. PICK i \in Vlas(s) : Newest(s) = s[i].id /\ \A j \in Vlas(s) : j <= i
    BY <1>2, NewestIs
  <2>2. Newest(t) = t[i].id
    BY <2>1, NewestAt
  <2>3. QED
    BY <2>1, <2>2
<1>3. QED
  BY <1>1, <1>2

LEMMA NewestAppend ==
  ASSUME NEW s \in Chains, NEW d \in TypeOfDefr
  PROVE  /\ Append(s, d) \in Chains
         /\ Newest(Append(s, d)) = IF d.kind = "vla" THEN d.id ELSE Newest(s)
<1>1. PICK n \in Nat : n = Len(s) /\ s \in Seq(TypeOfDefr)
  BY LenProperties DEF Chains
<1>2. PICK t : t = Append(s, d)
  OBVIOUS
<1>3. t \in Chains /\ Len(t) = n + 1 /\ (\A i \in 1..n : t[i] = s[i]) /\ t[n + 1] = d
  BY <1>1, <1>2, AppendProperties DEF Chains
<1>4. CASE d.kind = "vla"
  <2>1. n + 1 \in Vlas(t) /\ \A j \in Vlas(t) : j <= n + 1
    BY <1>1, <1>3, <1>4 DEF Vlas
  <2>2. Newest(t) = d.id
    BY <1>3, <2>1, NewestAt
  <2>3. QED
    BY <1>2, <1>3, <1>4, <2>2
<1>5. CASE d.kind # "vla"
  <2>1. Vlas(t) = Vlas(s)
    BY <1>1, <1>3, <1>5 DEF Vlas
  <2>2. \A i \in Vlas(t) : t[i] = s[i]
    BY <1>1, <1>3, <2>1 DEF Vlas
  <2>3. Newest(t) = Newest(s)
    BY <1>3, <2>1, <2>2, NewestSame
  <2>4. QED
    BY <1>2, <1>3, <1>5, <2>3
<1>6. QED
  BY <1>4, <1>5

(* What is behind dest is undone, and dest is left.                        *)
LEMMA UndoneIs ==
  ASSUME NEW i \in Instructions, IsPrefix(i.dest, i.from)
  PROVE  /\ Len(i.from) \in Nat /\ Len(i.dest) \in Nat /\ Len(i.dest) <= Len(i.from)
         /\ Len(Undone(i)) = Len(i.from) - Len(i.dest)
         /\ SubSeq(i.from, 1, Len(i.dest)) = i.dest
<1>1. PICK s, t : s = i.from /\ t = i.dest /\ s \in Seq(TypeOfDefr) /\ t \in Seq(TypeOfDefr) /\ IsPrefix(t, s)
  BY DEF Instructions, Chains
<1>2. PICK n \in Nat, m \in Nat : n = Len(s) /\ m = Len(t)
  BY <1>1, LenProperties
<1>3. m <= n /\ \A k \in 1..m : t[k] = s[k]
  BY <1>1, <1>2, PrefixAt
<1>4. \A k \in 1..n : s[k] \in TypeOfDefr
  BY <1>1, <1>2, ElementOfSeq
<1>5. Len(SubSeq(s, m + 1, n)) = n - m
  <2>1. \A k \in (m + 1)..n : s[k] \in TypeOfDefr
    BY <1>2, <1>4
  <2>2. Len(SubSeq(s, m + 1, n)) = IF m + 1 <= n THEN n - (m + 1) + 1 ELSE 0
    BY <1>2, <2>1, SubSeqProperties
  <2>3. QED
    BY <1>2, <1>3, <2>2
<1>6. SubSeq(s, 1, m) = t
  <2>1. \A k \in 1..m : s[k] \in TypeOfDefr
    BY <1>2, <1>3, <1>4
  <2>2. PICK r : r = SubSeq(s, 1, m)
    OBVIOUS
  <2>3. r \in Seq(TypeOfDefr) /\ Len(r) = m /\ \A k \in 1..m : r[k] = s[k]
    <3>1. /\ SubSeq(s, 1, m) \in Seq(TypeOfDefr) /\ Len(SubSeq(s, 1, m)) = (IF 1 <= m THEN m - 1 + 1 ELSE 0)
          /\ \A k \in 1..(m - 1 + 1) : SubSeq(s, 1, m)[k] = s[1 + k - 1]
      BY <1>2, <2>1, SubSeqProperties
    <3>2. QED
      BY <1>2, <2>2, <3>1
  <2>4. r = t
    BY <1>1, <1>2, <1>3, <2>3, SeqEqual
  <2>5. QED
    BY <2>2, <2>4
<1>7. QED
  BY <1>1, <1>2, <1>3, <1>5, <1>6 DEF Undone

LEMMA ReleasedIs ==
  ASSUME NEW i \in Instructions, IsPrefix(i.dest, i.from), rsp \in Nat, dealloc_vla => rsp = Newest(i.from)
  PROVE  Released(i) \in Nat /\ (dealloc_vla => Released(i) = Newest(i.dest))
<1>1. PICK s \in Chains, t \in Chains : s = i.from /\ t = i.dest /\ IsPrefix(t, s)
  BY DEF Instructions
<1>2. PICK n \in Nat, m \in Nat : n = Len(s) /\ m = Len(t)
  BY <1>1, LenProperties DEF Chains
<1>3. m <= n /\ \A k \in 1..m : t[k] = s[k]
  BY <1>1, <1>2, PrefixAt DEF Chains
<1>4. PICK vlas : vlas = {k \in (m + 1)..n : s[k].kind = "vla"}
  OBVIOUS
<1>5. CASE vlas = {} \/ ~dealloc_vla
  <2>1. Released(i) = rsp
    BY <1>1, <1>2, <1>4, <1>5 DEF Released
  <2>2. ASSUME dealloc_vla PROVE Newest(s) = Newest(t)
    <3>1. vlas = {}
      BY <1>5, <2>2
    <3>2. \A k \in 1..n : s[k].kind = "vla" => k \in 1..m
      BY <1>2, <1>4, <3>1
    <3>3. Vlas(s) = Vlas(t)
      BY <1>2, <1>3, <3>2 DEF Vlas
    <3>4. \A k \in Vlas(s) : s[k] = t[k]
      BY <1>2, <1>3, <3>3 DEF Vlas
    <3>5. QED
      BY <3>3, <3>4, NewestSame
  <2>3. QED
    BY <1>1, <2>1, <2>2
<1>6. CASE vlas # {} /\ dealloc_vla
  <2>1. vlas \in SUBSET Nat
    BY <1>2, <1>4
  <2>2. \E k \in vlas : \A j \in vlas : k <= j
    BY <1>6, <2>1, Least
  <2>3. PICK c \in vlas : c = (CHOOSE k \in vlas : \A j \in vlas : k <= j) /\ \A j \in vlas : c <= j
    BY <2>2
  <2>4. c \in (m + 1)..n /\ c - 1 \in Nat /\ m <= c - 1 /\ c - 1 < n
    BY <1>2, <1>4, <2>3
  <2>5. PICK r : r = SubSeq(s, 1, c - 1)
    OBVIOUS
  <2>6. r \in Chains /\ Len(r) = c - 1 /\ \A k \in 1..(c - 1) : r[k] = s[k]
    <3>1. PICK e \in Nat : e = c - 1 /\ e <= n
      BY <2>4
    <3>2. \A k \in 1..e : s[k] \in TypeOfDefr
      BY <1>1, <1>2, <3>1, ElementOfSeq DEF Chains
    <3>3. /\ SubSeq(s, 1, e) \in Seq(TypeOfDefr) /\ Len(SubSeq(s, 1, e)) = (IF 1 <= e THEN e - 1 + 1 ELSE 0)
          /\ \A k \in 1..(e - 1 + 1) : SubSeq(s, 1, e)[k] = s[1 + k - 1]
      BY <3>1, <3>2, SubSeqProperties
    <3>4. QED
      BY <2>5, <3>1, <3>3 DEF Chains
  <2>7. \A k \in 1..(c - 1) : s[k].kind = "vla" => k \in 1..m
    <3>1. ASSUME NEW k \in 1..(c - 1), s[k].kind = "vla", k \notin 1..m PROVE FALSE
      <4>1. k \in vlas
        BY <1>2, <1>4, <2>4, <3>1
      <4>2. QED
        BY <2>3, <2>4, <4>1
    <3>2. QED
      BY <3>1
  <2>8. Vlas(r) = Vlas(t)
    BY <1>2, <1>3, <2>4, <2>6, <2>7 DEF Vlas
  <2>9. \A k \in Vlas(r) : r[k] = t[k]
    BY <1>2, <1>3, <2>4, <2>6, <2>8 DEF Vlas
  <2>10. Newest(r) = Newest(t)
    BY <2>6, <2>8, <2>9, NewestSame
  <2>11. Released(i) = Newest(r)
    BY <1>1, <1>2, <1>4, <1>6, <2>3, <2>5 DEF Released
  <2>12. QED
    BY <1>1, <2>10, <2>11, NewestIs
<1>7. QED
  BY <1>5, <1>6

LEMMA Undoes ==
  ASSUME NEW i \in Instructions, IsPrefix(i.dest, i.from), pending = i.from, fault = FALSE, rsp \in Nat,
         dealloc_vla => rsp = Newest(pending), gen_defr(i)
  PROVE  /\ fault' = FALSE /\ pending' = i.dest /\ pending' \in Chains /\ rsp' \in Nat
         /\ dealloc_vla => rsp' = Newest(pending')
<1>1. /\ Len(i.from) \in Nat /\ Len(i.dest) \in Nat /\ Len(i.dest) <= Len(i.from)
      /\ Len(Undone(i)) = Len(i.from) - Len(i.dest)
      /\ SubSeq(i.from, 1, Len(i.dest)) = i.dest
  BY UndoneIs
<1>2. PICK n : n = Len(pending) - Len(Undone(i)) /\ n = Len(i.dest) /\ n >= 0
  BY <1>1
<1>3. SubSeq(pending, n + 1, Len(pending)) = Undone(i)
  BY <1>2 DEF Undone
<1>4. fault' = FALSE /\ pending' = i.dest
  <2>1. /\ fault' = (fault \/ n < 0 \/ SubSeq(pending, n + 1, Len(pending)) # Undone(i))
        /\ pending' = SubSeq(pending, 1, n)
    BY <1>2 DEF gen_defr
  <2>2. ~(n < 0)
    BY <1>1, <1>2
  <2>3. fault' = FALSE
    BY <1>3, <2>1, <2>2, Zenon
  <2>4. QED
    BY <1>1, <1>2, <2>1, <2>3
<1>5. rsp' = Released(i)
  BY DEF gen_defr
<1>6. i.dest \in Chains
  BY DEF Instructions
<1>7. QED
  BY <1>4, <1>5, <1>6, ReleasedIs

(* Where nothing lies between from and dest, nothing is undone.            *)
LEMMA UndoesNothing ==
  ASSUME NEW i \in Instructions, i.dest = i.from, pending \in Chains, fault = FALSE, gen_defr(i)
  PROVE  fault' = FALSE /\ pending' = pending /\ rsp' = rsp
<1>1. PICK s \in Chains : s = i.from
  BY DEF Instructions
<1>2. PICK n \in Nat, z \in Nat : n = Len(s) /\ z = Len(pending)
  BY <1>1, LenProperties DEF Chains
<1>3. SubSeq(s, n + 1, n) = <<>> /\ SubSeq(pending, z + 1, z) = <<>>
  BY <1>2, SubSeqEmpty
<1>4. Undone(i) = <<>> /\ Len(Undone(i)) = 0
  BY <1>1, <1>2, <1>3, EmptySeq DEF Undone
<1>5. Released(i) = rsp
  <2>1. (n + 1)..n = {}
    BY <1>2
  <2>2. QED
    BY <1>1, <1>2, <2>1 DEF Released
<1>6. SubSeq(pending, 1, z) = pending
  <2>1. pending \in Seq(TypeOfDefr)
    BY DEF Chains
  <2>2. \A k \in 1..z : pending[k] \in TypeOfDefr
    BY <1>2, <2>1, ElementOfSeq
  <2>3. PICK r : r = SubSeq(pending, 1, z)
    OBVIOUS
  <2>4. r \in Seq(TypeOfDefr) /\ Len(r) = z /\ \A k \in 1..z : r[k] = pending[k]
    <3>1. /\ SubSeq(pending, 1, z) \in Seq(TypeOfDefr)
          /\ Len(SubSeq(pending, 1, z)) = (IF 1 <= z THEN z - 1 + 1 ELSE 0)
          /\ \A k \in 1..(z - 1 + 1) : SubSeq(pending, 1, z)[k] = pending[1 + k - 1]
      BY <1>2, <2>2, SubSeqProperties
    <3>2. QED
      BY <1>2, <2>3, <3>1
  <2>5. r = pending
    BY <1>2, <2>1, <2>4, SeqEqual
  <2>6. QED
    BY <2>3, <2>5
<1>7. PICK w : w = Len(pending) - Len(Undone(i)) /\ w = z
  BY <1>2, <1>4
<1>8. fault' = FALSE /\ pending' = pending
  <2>1. /\ fault' = (fault \/ w < 0 \/ SubSeq(pending, w + 1, Len(pending)) # Undone(i))
        /\ pending' = SubSeq(pending, 1, w)
    BY <1>7 DEF gen_defr
  <2>2. ~(w < 0)
    BY <1>2, <1>7
  <2>3. SubSeq(pending, w + 1, Len(pending)) = Undone(i)
    BY <1>2, <1>3, <1>4, <1>7
  <2>4. fault' = FALSE
    BY <2>1, <2>2, <2>3, Zenon
  <2>5. QED
    BY <1>6, <1>7, <2>1, <2>4
<1>9. QED
  BY <1>5, <1>8 DEF gen_defr

----------------------------------------------------------------------------
(* The steps of the code.                                                  *)
LEMMA PassStep == ASSUME Inv, Pass PROVE Inv'
<1>1. At({"label", "&&"}) /\ pc' = pc + 1 /\ Unmoved /\ UNCHANGED <<pending, rsp, fault>>
  BY DEF Pass
<1>2. Now.op \in {"label", "&&"} /\ pending = Now.chain /\ pending \in Chains /\ rsp \in Nat
      /\ (dealloc_vla => rsp = Newest(pending))
  BY <1>1, AtIs
<1>3. pending' = After(Now) /\ pending' = pending /\ rsp' = rsp
  BY <1>1, <1>2 DEF After
<1>4. {"label", "&&"} \subseteq Falling
  BY DEF Falling
<1>5. dealloc_vla => rsp' = Newest(pending')
  <2>1. Newest(pending') = Newest(pending)
    BY <1>3
  <2>2. QED
    BY <1>2, <1>3, <2>1
<1>6. QED
  BY <1>1, <1>2, <1>3, <1>4, <1>5, GoesOn

LEMMA ReachStep == ASSUME Inv, Reach PROVE Inv'
<1>1. /\ At({"defer", "vla"}) /\ pc' = pc + 1 /\ Unmoved /\ UNCHANGED fault
      /\ pending' = Append(pending, [id |-> Now.to[1], kind |-> IF Now.op = "vla" THEN "vla" ELSE "fn"])
      /\ rsp' = IF Now.op = "vla" THEN Now.to[1] ELSE rsp
  BY DEF Reach
<1>2. /\ Now.op \in {"defer", "vla"} /\ pending = Now.chain /\ pending \in Chains /\ rsp \in Nat
      /\ Formed(Now, count) /\ (dealloc_vla => rsp = Newest(pending))
  BY <1>1, AtIs
<1>3. Now.to[1] \in Nat
  BY <1>2 DEF Formed
<1>4. PICK d \in TypeOfDefr : d = [id |-> Now.to[1], kind |-> IF Now.op = "vla" THEN "vla" ELSE "fn"]
  <2>1. PICK k \in {"fn", "vla"} : k = IF Now.op = "vla" THEN "vla" ELSE "fn"
    OBVIOUS
  <2>2. PICK n \in Nat : n = Now.to[1]
    BY <1>3
  <2>3. [id |-> n, kind |-> k] \in TypeOfDefr
    BY DEF TypeOfDefr
  <2>4. QED
    BY <2>1, <2>2, <2>3
<1>5. pending' = Append(pending, d) /\ d.id = Now.to[1] /\ (d.kind = "vla" <=> Now.op = "vla")
  BY <1>1, <1>4
<1>6. pending' = After(Now)
  BY <1>1, <1>2 DEF After
<1>7. pending' \in Chains /\ Newest(pending') = IF d.kind = "vla" THEN d.id ELSE Newest(pending)
  <2>1. PICK p : p = Append(pending, d)
    OBVIOUS
  <2>2. p \in Chains /\ Newest(p) = IF d.kind = "vla" THEN d.id ELSE Newest(pending)
    BY <1>2, <2>1, NewestAppend
  <2>3. QED
    BY <1>5, <2>1, <2>2
<1>8. rsp' \in Nat /\ (dealloc_vla => rsp' = Newest(pending'))
  BY <1>1, <1>2, <1>3, <1>5, <1>7
<1>9. {"defer", "vla"} \subseteq Falling
  BY DEF Falling
<1>10. QED
  BY <1>1, <1>6, <1>7, <1>8, <1>9, GoesOn

LEMMA RunUndoStep == ASSUME Inv, RunUndo PROVE Inv'
<1>1. At({"undo"}) /\ gen_defr(Now) /\ pc' = pc + 1 /\ Unmoved
  BY DEF RunUndo
<1>2. /\ Now.op = "undo" /\ Now \in Instructions /\ pending = Now.chain /\ rsp \in Nat /\ fault = FALSE
      /\ Formed(Now, count) /\ (dealloc_vla => rsp = Newest(pending))
  <2>1. PICK ops : ops = {"undo"} /\ At(ops)
    BY <1>1
  <2>2. Now.op \in ops
    BY <2>1, AtIs
  <2>3. Now.op = "undo"
    BY <2>1, <2>2
  <2>4. QED
    BY <2>1, <2>3, AtIs
<1>3. Now.from = Now.chain /\ IsPrefix(Now.dest, Now.from)
  BY <1>2 DEF Formed
<1>4. /\ fault' = FALSE /\ pending' = Now.dest /\ pending' \in Chains /\ rsp' \in Nat
      /\ dealloc_vla => rsp' = Newest(pending')
  <2>1. PICK i \in Instructions : i = Now
    BY <1>2
  <2>2. gen_defr(i) /\ IsPrefix(i.dest, i.from) /\ pending = i.from
    BY <1>1, <1>2, <1>3, <2>1
  <2>3. QED
    BY <1>2, <2>1, <2>2, Undoes
<1>5. pending' = After(Now)
  BY <1>2, <1>4 DEF After
<1>6. {"undo"} \subseteq Falling /\ UNCHANGED fault
  BY <1>2, <1>4 DEF Falling
<1>7. QED
  BY <1>1, <1>4, <1>5, <1>6, GoesOn

LEMMA RunJumpStep == ASSUME Inv, RunJump PROVE Inv'
<1>1. /\ At({"goto", "jump", "go"}) /\ gen_defr(Now) /\ Unmoved
      /\ pc' = IF Now.to = <<"rtn">> THEN Len(code) + 1 ELSE Position(Now.to)
  BY DEF RunJump
<1>2. /\ phase = "run" /\ Flow(code, <<>>, <<>>, count) /\ code \in Seq(Instructions)
      /\ pc \in 1..Len(code) /\ Now = code[pc]
      /\ Now.op \in {"goto", "jump", "go"} /\ Now \in Instructions /\ pending = Now.chain /\ pending \in Chains
      /\ rsp \in Nat /\ fault = FALSE /\ Formed(Now, count) /\ (dealloc_vla => rsp = Newest(pending))
  BY <1>1, AtIs
<1>3. Now.op = "goto" => /\ Positions(<<"L">>) # {} /\ Now.dest = code[Position(<<"L">>)].chain
                         /\ IsPrefix(Now.dest, Now.from)
  BY <1>2 DEF Inv, Running
<1>4. CASE Now.op = "go"
  <2>1. Now.dest = Now.from /\ Now.to # <<"rtn">> /\ Jumping(Now) /\ Goal(Now) = Now.chain
    BY <1>2, <1>4 DEF Formed, Jumping, Goal
  <2>2. fault' = FALSE /\ pending' = pending /\ rsp' = rsp
    BY <1>1, <1>2, <2>1, UndoesNothing
  <2>3. PICK l, p : l = Now.to /\ p = Position(l)
    OBVIOUS
  <2>4. p \in LabelsAt(code, l) /\ code[p].chain = pending
    BY <1>1, <1>2, <2>1, <2>3, Lands
  <2>5. pc' = p
    BY <1>1, <2>1, <2>3
  <2>6. Newest(pending') = Newest(pending)
    BY <2>2
  <2>7. QED
    BY <1>1, <1>2, <2>2, <2>4, <2>5, <2>6, Arrives
<1>5. ASSUME Now.op # "go"
      PROVE  /\ fault' = FALSE /\ pending' = Now.dest /\ pending' \in Chains /\ rsp' \in Nat
             /\ dealloc_vla => rsp' = Newest(pending')
  <2>1. Now.from = Now.chain /\ IsPrefix(Now.dest, Now.from)
    BY <1>2, <1>3, <1>5 DEF Formed
  <2>2. PICK i \in Instructions : i = Now
    BY <1>2
  <2>3. gen_defr(i) /\ IsPrefix(i.dest, i.from) /\ pending = i.from
    BY <1>1, <1>2, <2>1, <2>2
  <2>4. QED
    BY <1>2, <2>2, <2>3, Undoes
<1>6. CASE Now.op = "goto"
  <2>1. PICK l, p : l = <<"L">> /\ p = Position(l)
    OBVIOUS
  <2>2. Now.to = l /\ l # <<"rtn">>
    BY <1>2, <1>6, <2>1, PlacesAre DEF Formed
  <2>3. p \in LabelsAt(code, l) /\ Now.dest = code[p].chain
    BY <1>3, <1>6, <2>1, PositionsAre
  <2>4. pc' = p
    BY <1>1, <2>1, <2>2
  <2>5. QED
    BY <1>1, <1>2, <1>5, <1>6, <2>3, <2>4, Arrives
<1>7. CASE Now.op = "jump" /\ Now.to # <<"rtn">>
  <2>1. Jumping(Now) /\ Goal(Now) = Now.dest
    BY <1>7 DEF Jumping, Goal
  <2>2. PICK l, p : l = Now.to /\ p = Position(l)
    OBVIOUS
  <2>3. p \in LabelsAt(code, l) /\ code[p].chain = Now.dest
    BY <1>1, <2>1, <2>2, Lands
  <2>4. pc' = p
    BY <1>1, <1>7, <2>2
  <2>5. QED
    BY <1>1, <1>2, <1>5, <1>7, <2>3, <2>4, Arrives
<1>8. CASE Now.op = "jump" /\ Now.to = <<"rtn">>
  <2>1. Now.dest = <<>> /\ pending' = <<>>
    BY <1>2, <1>5, <1>8 DEF Formed
  <2>2. PICK z \in Nat : z = Len(code)
    BY <1>2, LenProperties
  <2>3. pc' = z + 1 /\ pc' - 1 = z /\ pc' \in 1..(z + 1) /\ ~(pc' <= z) /\ ~(z < z)
    BY <1>1, <1>8, <2>2
  <2>4. pending' = Behind(code, <<>>, pc' - 1)
    BY <2>1, <2>2, <2>3 DEF Behind
  <2>5. QED
    BY <1>1, <1>2, <1>5, <1>8, <2>2, <2>3, <2>4, StillRunning
<1>9. QED
  BY <1>2, <1>4, <1>6, <1>7, <1>8

LEMMA BranchStep == ASSUME Inv, Branch PROVE Inv'
<1>1. At({"branch"}) /\ pc' \in {pc + 1, Position(Now.to)} /\ Unmoved /\ UNCHANGED <<pending, rsp, fault>>
  BY DEF Branch
<1>2. /\ phase = "run" /\ Now.op = "branch" /\ pending = Now.chain /\ pending \in Chains
      /\ rsp \in Nat /\ fault = FALSE /\ Formed(Now, count) /\ (dealloc_vla => rsp = Newest(pending))
  <2>1. PICK ops : ops = {"branch"} /\ At(ops)
    BY <1>1
  <2>2. Now.op \in ops
    BY <2>1, AtIs
  <2>3. Now.op = "branch"
    BY <2>1, <2>2
  <2>4. QED
    BY <2>1, <2>3, AtIs
<1>3. pending' = pending /\ rsp' = rsp /\ fault' = FALSE /\ (dealloc_vla => rsp' = Newest(pending'))
  <2>1. pending' = pending /\ rsp' = rsp /\ fault' = FALSE
    BY <1>1, <1>2
  <2>2. Newest(pending') = Newest(pending)
    BY <2>1
  <2>3. QED
    BY <1>2, <2>1, <2>2
<1>4. CASE pc' = pc + 1
  <2>1. pending' = After(Now) /\ {"branch"} \subseteq Falling
    BY <1>2, <1>3 DEF After, Falling
  <2>2. QED
    BY <1>1, <1>2, <1>3, <1>4, <2>1, GoesOn
<1>5. CASE pc' = Position(Now.to)
  <2>1. Jumping(Now) /\ Goal(Now) = Now.chain
    BY <1>2 DEF Jumping, Goal, Formed
  <2>2. PICK l, p : l = Now.to /\ p = Position(l)
    OBVIOUS
  <2>3. p \in LabelsAt(code, l) /\ code[p].chain = pending
    BY <1>1, <1>2, <2>1, <2>2, Lands
  <2>4. QED
    BY <1>1, <1>2, <1>3, <1>5, <2>2, <2>3, Arrives
<1>6. QED
  BY <1>1, <1>4, <1>5

LEMMA DispatchStep == ASSUME Inv, Dispatch PROVE Inv'
<1>1. /\ At({"dispatch"}) /\ pc' \in {Position(Now.to)} \cup Positions(<<"case", Now.to[2]>>)
      /\ Unmoved /\ UNCHANGED <<pending, rsp, fault>>
  BY DEF Dispatch
<1>2. /\ phase = "run" /\ Now.op = "dispatch" /\ pending = Now.chain /\ pending \in Chains
      /\ rsp \in Nat /\ fault = FALSE /\ Formed(Now, count) /\ (dealloc_vla => rsp = Newest(pending))
  <2>1. PICK ops : ops = {"dispatch"} /\ At(ops)
    BY <1>1
  <2>2. Now.op \in ops
    BY <2>1, AtIs
  <2>3. Now.op = "dispatch"
    BY <2>1, <2>2
  <2>4. QED
    BY <2>1, <2>3, AtIs
<1>3. pending' = pending /\ rsp' = rsp /\ fault' = FALSE /\ (dealloc_vla => rsp' = Newest(pending'))
  <2>1. pending' = pending /\ rsp' = rsp /\ fault' = FALSE
    BY <1>1, <1>2
  <2>2. Newest(pending') = Newest(pending)
    BY <2>1
  <2>3. QED
    BY <1>2, <2>1, <2>2
<1>4. Jumping(Now) /\ Goal(Now) = Now.chain
  BY <1>2 DEF Jumping, Goal, Formed
<1>5. PICK l, p, c : l = Now.to /\ p = Position(l) /\ c = <<"case", Now.to[2]>>
  OBVIOUS
<1>6. /\ p \in LabelsAt(code, l) /\ code[p].chain = pending
      /\ \A q \in Positions(c) : code[q].chain = pending
  BY <1>1, <1>2, <1>4, <1>5, Lands
<1>7. CASE pc' = p
  BY <1>1, <1>2, <1>3, <1>6, <1>7, Arrives
<1>8. CASE pc' \in Positions(c)
  <2>1. pc' \in LabelsAt(code, c)
    BY <1>8, PositionsAre
  <2>2. QED
    BY <1>1, <1>2, <1>3, <1>6, <1>8, <2>1, Arrives
<1>9. QED
  BY <1>1, <1>5, <1>7, <1>8

LEMMA LeaveStep == ASSUME Inv, Leave PROVE Inv'
<1>1. phase = "run" /\ pc > Len(code) /\ phase' = "done" /\ UNCHANGED <<defr, open, code, used, count, running>>
  BY DEF Leave
<1>2. Types /\ Written /\ Running /\ code \in Seq(Instructions)
  BY DEF Inv, Types
<1>3. PICK z \in Nat : z = Len(code)
  BY <1>2, LenProperties
<1>4. pc \in 1..(z + 1) /\ pending = Behind(code, <<>>, pc - 1)
  BY <1>1, <1>2, <1>3 DEF Running
<1>5. pc - 1 = z
  BY <1>1, <1>3, <1>4
<1>6. pending = <<>>
  BY <1>3, <1>4, <1>5 DEF Behind
<1>7. pc' = pc /\ pending' = pending /\ rsp' = rsp /\ fault' = fault /\ code' = code /\ open' = open /\ defr' = defr
  BY <1>1 DEF running
<1>8. Types' /\ Written'
  BY <1>1, <1>2, <1>7 DEF Types, Written, Flow, Connected, Kept
<1>9. Positions(<<"L">>)' = Positions(<<"L">>) /\ Position(<<"L">>)' = Position(<<"L">>)
      /\ dealloc_vla' = dealloc_vla
  BY <1>7 DEF dealloc_vla, Positions, Position
<1>10. Running'
  <2>1. \A n \in 1..Len(code') : code'[n].op = "goto" =>
          /\ Positions(<<"L">>)' # {} /\ code'[n].dest = code'[Position(<<"L">>)'].chain
          /\ IsPrefix(code'[n].dest, code'[n].from)
    BY <1>1, <1>2, <1>7, <1>9 DEF Running
  <2>2. /\ open' = <<>> /\ defr' = <<>> /\ pc' \in 1..(Len(code') + 1)
        /\ pending' = Behind(code', <<>>, pc' - 1) /\ ~fault'
        /\ Cut(code', pc' - 1) /\ pc' <= Len(code') => code'[pc'].op = "label"
        /\ dealloc_vla' => rsp' = Newest(pending')
        /\ pending' = <<>>
    BY <1>1, <1>2, <1>6, <1>7, <1>9 DEF Running
  <2>3. QED
    BY <2>1, <2>2 DEF Running, Behind, Newest
<1>11. QED
  BY <1>1, <1>8, <1>10 DEF Inv, Parsing1

----------------------------------------------------------------------------
(* The invariant.                                                          *)
LEMMA InitInv == ASSUME Init PROVE Inv
<1>1. PICK c : c = [kind |-> "block", id |-> 0, outer |-> <<>>, lvl |-> <<>>, first |-> "none", last |-> "none"]
               /\ open = <<c>>
  BY DEF Init
<1>2. <<>> \in Chains /\ <<>> \in Seq(Instructions) /\ Len(<<>>) = 0
  BY EmptySeq DEF Chains
<1>3. /\ c \in Constructs /\ c.kind = "block" /\ c.outer = <<>> /\ c.lvl = <<>> /\ c.first = "none" /\ c.last = "none"
      /\ c.kind \notin Controls
  BY <1>1, <1>2 DEF Constructs, Bodies, Controls
<1>4. open \in Seq(Constructs) /\ Len(open) = 1 /\ open[1] = c /\ open # <<>>
  BY <1>1, <1>3
<1>5. /\ defr = <<>> /\ code = <<>> /\ used = {} /\ count = 0 /\ phase = "parse"
      /\ pc = 1 /\ pending = <<>> /\ rsp = 0 /\ fault = FALSE
  BY DEF Init
<1>6. Types
  BY <1>2, <1>4, <1>5 DEF Types
<1>7. Base(c) = <<>> /\ IsPrefix(<<>>, <<>>)
  BY <1>2, <1>3, PrefixRefl DEF Base, Chains
<1>8. Scoped(open, <<>>)
  BY <1>3, <1>4, <1>7 DEF Scoped
<1>9. 1..Len(code) = {}
  BY <1>2, <1>5
<1>10. Flow(code, open, defr, count)
  BY <1>2, <1>5, <1>9 DEF Flow, Connected, Behind, Kept
<1>11. Numbered(open, count) /\ Settled(code, open)
  BY <1>3, <1>4, <1>9 DEF Numbered, Settled, Unmade, Begun, Controls
<1>12. Ends(open) /\ Early(code, open)
  BY <1>3, <1>4 DEF Ends, Early, Quiet, LeavesEarly, Last
<1>13. UsedKinds(used, code, open, defr)
  BY <1>3, <1>4, <1>5, <1>9 DEF UsedKinds, Bare
<1>14. Parsing1
  BY <1>5, <1>8, <1>11, <1>12, <1>13 DEF Parsing1, Stacked
<1>15. QED
  BY <1>5, <1>6, <1>10, <1>14 DEF Inv, Written, Running

LEMMA NextInv == ASSUME CasesOutsideLoops, Inv, [Next]_vars PROVE Inv'
<1>1. CASE Simple
  BY <1>1, DeferStep, CleanupStep, VlaStep, LabelStmtStep, GotoStep, LabelValueStep, ReturnStep, BreakStep,
     ContinueStep, CaseStmtStep DEF Simple
<1>2. CASE Nested
  BY <1>2, BlockStep, IfStep, ElseStep, ForStep, DoStep, SwitchStep DEF Nested
<1>3. CASE CloseBody
  BY <1>3, CloseBodyStep
<1>4. CASE EndFunction
  BY <1>4, EndFunctionStep
<1>5. CASE Run
  BY <1>5, PassStep, ReachStep, RunUndoStep, RunJumpStep, BranchStep, DispatchStep, LeaveStep DEF Run
<1>6. CASE UNCHANGED vars
  <2>1. UNCHANGED <<defr, open, code, used, count, phase, pc, pending, rsp, fault>>
    BY <1>6 DEF vars
  <2>2. Types' /\ Written'
    BY <2>1 DEF Inv, Types, Written, Flow, Connected, Kept
  <2>3. Parsing1'
    BY <2>1 DEF Inv, Parsing1, Stacked
  <2>4. Running'
    <3>1. /\ Positions(<<"L">>)' = Positions(<<"L">>) /\ Position(<<"L">>)' = Position(<<"L">>)
          /\ dealloc_vla' = dealloc_vla
      BY <2>1 DEF dealloc_vla, Positions, Position
    <3>2. Running
      BY DEF Inv
    <3>3. ASSUME phase' \in {"run", "done"}, NEW n \in 1..Len(code'), code'[n].op = "goto"
          PROVE  /\ Positions(<<"L">>)' # {} /\ code'[n].dest = code'[Position(<<"L">>)'].chain
                 /\ IsPrefix(code'[n].dest, code'[n].from)
      BY <2>1, <3>1, <3>2, <3>3 DEF Running
    <3>4. phase' \in {"run", "done"} =>
            /\ open' = <<>> /\ defr' = <<>> /\ pc' \in 1..(Len(code') + 1)
            /\ pending' = Behind(code', <<>>, pc' - 1) /\ ~fault'
            /\ Cut(code', pc' - 1) /\ pc' <= Len(code') => code'[pc'].op = "label"
            /\ dealloc_vla' => rsp' = Newest(pending')
            /\ phase' = "done" => pending' = <<>>
      BY <2>1, <3>1, <3>2 DEF Running
    <3>5. QED
      BY <3>3, <3>4 DEF Running, Behind, Newest
  <2>5. QED
    BY <2>1, <2>2, <2>3, <2>4 DEF Inv
<1>7. QED
  BY <1>1, <1>2, <1>3, <1>4, <1>5, <1>6 DEF Next, Parse

LEMMA Invariant == ASSUME CasesOutsideLoops PROVE Spec => []Inv
<1>1. Init => Inv
  BY InitInv
<1>2. Inv /\ [Next]_vars => Inv'
  BY NextInv
<1>3. QED
  BY <1>1, <1>2, PTL DEF Spec

----------------------------------------------------------------------------
(* The results.                                                            *)

(* Chains are chains and instructions instructions, whatever is parsed and *)
(* run: what the parser keeps in fnctx->defr, and in the goto, break, case *)
(* and return nodes, is what gen_defr takes apart.                         *)
THEOREM DeferTypes == ASSUME CasesOutsideLoops PROVE Spec => []Types
<1>1. Inv => Types
  BY DEF Inv
<1>2. QED
  BY <1>1, Invariant, PTL

(* However a function is left or entered at a label, by break, continue,   *)
(* goto, return, the end of a block or another round of a loop, what is    *)
(* pending is the chain the parser had there; what is undone is what was   *)
(* reached, newest first, and nothing is pending when the function is left.*)
THEOREM ChainIsRight == ASSUME CasesOutsideLoops PROVE Spec => []ChainIsPending
<1>1. ASSUME Inv PROVE ChainIsPending
  <2>1. ~fault
    BY <1>1 DEF Inv, Parsing1, Running, Types
  <2>2. ASSUME phase = "run", pc <= Len(code) PROVE pending = Now.chain
    <3>1. At({Now.op})
      BY <2>2 DEF At
    <3>2. QED
      BY <1>1, <3>1, AtIs
  <2>3. phase = "done" => pending = <<>>
    BY <1>1 DEF Inv, Running
  <2>4. QED
    BY <2>1, <2>2, <2>3 DEF ChainIsPending
<1>2. Inv => ChainIsPending
  BY <1>1
<1>3. QED
  BY <1>2, Invariant, PTL

(* While the function runs, the stack pointer is at the newest VLA that is *)
(* in scope, or where it was when the function was entered: gen_defr gives *)
(* back every VLA of a scope that is left, and none of a scope that is not.*)
THEOREM StackIsRight == ASSUME CasesOutsideLoops PROVE Spec => []StackFollowsVlas
<1>1. Inv => StackFollowsVlas
  BY DEF Inv, Running, StackFollowsVlas
<1>2. QED
  BY <1>1, Invariant, PTL
=============================================================================
