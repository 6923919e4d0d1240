------------------------- MODULE MacroExpandProofs -------------------------
(***************************************************************************)
(* Proofs about MacroExpand, for every program, macro table and way to     *)
(* paste.                                                                  *)
(*                                                                         *)
(* A token that came from the body of a macro of its own name is live (Own)*)
(* when the loop can still expand it.  There are live tokens in three      *)
(* places only: in the result of a call that is not finished, where they   *)
(* name the macro of the call; and, in the lists that loops go through, in *)
(* front of the stop token of a lock of that macro (Covered).  What is read*)
(* as an argument is marked while that lock is still there, and so is what *)
(* a loop passes.  So it matters where locks end: they nest (Nested), and a*)
(* loop has none of its own at or behind its token (Ahead), which also     *)
(* makes the locks at its end those it began with.                         *)
(***************************************************************************)
EXTENDS MacroExpand, SequenceTheorems, FiniteSetTheorems, WellFoundedInduction, TLAPS

\* C leaves a program undefined where replacement makes "defined".  Where it
\* does, the operand may not reach past the replacement: read_const_expr steps
\* over it without popping the locks that stop there (preprocess.c:380).
DefinedIsWhole ==
  Scanning /\ Current.kind = "cond" /\ tok.text = "defined" /\ ~NoOperand =>
    \A i \in 1..Len(locks) : locks[i].frame = Top => locks[i].left <= Len(AfterOperand)

\* What a token can say; the provers do not know that a literal is in STRING.
Texts == STRING \cup {"1", Source, PMark}
Token == [text : Texts, dont_expand : BOOLEAN, by : Texts, id : Int, origin : Int]
Frame == [kind : {"root", "cond", "arg"}, tokens : Seq(Token), out : Seq(Token), start : Nat, eof : Int]
CallOf(ends) == [macro : Texts, orig : Int, free_alloc_end : ends, arg : Seq(Token),
                 expanded : Seq(Seq(Token)), body : Seq(Texts), out : Seq(Token)]
Lock == [macro : Texts, frame : Nat, left : Nat]

Types ==
  /\ \E p \in Programs : macros = p.macros
  /\ frames \in Seq(Frame) /\ frames # <<>>
  /\ \E ends : calls \in Seq(CallOf(ends))
  /\ Len(calls) \in {Top - 1, Top}
  /\ locks \in Seq(Lock) /\ made \in Nat
  /\ status \in {"run", "done", "error"}

-----------------------------------------------------------------------------
(* The locks ls of the loops fs.                                           *)
Sorted(ls) ==
  \A i \in 1..Len(ls) : \A j \in 1..(i - 1) :
    /\ ls[j].macro # ls[i].macro /\ ls[j].frame <= ls[i].frame
    /\ ls[j].frame = ls[i].frame => ls[j].left <= ls[i].left
Placed(ls, fs) ==
  \A i \in 1..Len(ls) : /\ ls[i].frame \in 1..Len(fs)
                        /\ ls[i].left <= Len(fs[ls[i].frame].tokens)
Counted(ls, fs) ==
  \A i \in 1..Len(fs) : /\ fs[i].start \in 0..Len(ls)
                        /\ \A j \in 1..Len(ls) : ls[j].frame < i <=> j <= fs[i].start
Nested(ls, fs) == Sorted(ls) /\ Placed(ls, fs) /\ Counted(ls, fs)

\* The innermost loop is not past a stop token, nor at one.
Ahead(ls, fs) ==
  \A i \in 1..Len(ls) : ls[i].frame = Len(fs) => ls[i].left < Len(fs[Len(fs)].tokens)

Own(t) == t.by = t.text /\ ~t.dont_expand
Quiet(ts) == \A k \in 1..Len(ts) : ~Own(ts[k])
CoveredIn(ls, i, ts) ==
  \A k \in 1..Len(ts) : Own(ts[k]) =>
    \E j \in 1..Len(ls) : /\ ls[j].macro = ts[k].text
                          /\ ls[j].frame < i \/ (ls[j].frame = i /\ ls[j].left <= Len(ts) - k)
Covered(ls, fs) == \A i \in 1..Len(fs) : CoveredIn(ls, i, fs[i].tokens)
QuietOuts(fs) == \A i \in 1..Len(fs) : Quiet(fs[i].out)

(* A call: ## has operands, and what the macro's own name could be in.      *)
Operands(body, out) == body # <<>> => /\ out = <<>> => body[1] # "##"
                                      /\ body[Len(body)] # "##"
CallFits(c) ==
  /\ Operands(c.body, c.out)
  /\ Quiet(c.arg) /\ \A k \in 1..Len(c.expanded) : Quiet(c.expanded[k])
  /\ \A k \in 1..Len(c.out) : Own(c.out[k]) => c.out[k].by = c.macro
Unlocked(ls, cs) ==
  \A i \in 1..Len(cs) : \A j \in 1..Len(ls) : ls[j].macro = cs[i].macro => ls[j].frame > i
Known(ls, cs, ms) ==
  /\ \A i \in 1..Len(ls) : ls[i].macro \in DOMAIN ms
  /\ \A i \in 1..Len(cs) : cs[i].macro \in DOMAIN ms

Inv ==
  /\ Types
  /\ Nested(locks, frames) /\ (Len(calls) = Top - 1 => Ahead(locks, frames))
  /\ Covered(locks, frames) /\ QuietOuts(frames)
  /\ \A i \in 1..Len(calls) : CallFits(calls[i])
  /\ Unlocked(locks, calls) /\ Known(locks, calls, macros)

-----------------------------------------------------------------------------
(* Counting and recursion.                                                 *)
Less == {p \in Nat \X Nat : p[1] < p[2]}

LEMMA Least ==
  ASSUME NEW S \in SUBSET Nat, S # {}
  PROVE  \E x \in S : \A y \in S : x <= y
<1>1. IsWellFoundedOn(Less, Nat)
  <2>1. Less = OpToRel(<, Nat)
    BY DEF Less, OpToRel
  <2>2. QED
    BY <2>1, NatLessThanWellFounded
<1>2. PICK x \in S : \A y \in S : ~(<<y, x>> \in Less)
  BY <1>1, WFMin
<1>3. \A y \in Nat, z \in Nat : y < z => <<y, z>> \in Less
  BY DEF Less
<1>4. ASSUME NEW y \in S PROVE x <= y
  <2>1. x \in Nat /\ y \in Nat /\ ~(y < x)
    BY <1>2, <1>3, <1>4
  <2>2. QED
    BY <2>1
<1>5. QED
  BY <1>4

LEMMA Greatest ==
  ASSUME NEW n \in Nat, NEW S, S \subseteq 0..n, S # {}
  PROVE  Max(S) \in S /\ \A y \in S : y <= Max(S)
<1> DEFINE Above == {n - y : y \in S}
<1>1. PICK x \in Above : \A y \in Above : x <= y
  <2>1. \A y \in S : n - y \in Nat
    OBVIOUS
  <2>2. Above \in SUBSET Nat /\ Above # {}
    BY <2>1
  <2> HIDE DEF Above
  <2>3. QED
    BY <2>2, Least
<1>2. PICK z \in S : x = n - z
  OBVIOUS
<1>3. ASSUME NEW y \in S PROVE z >= y
  <2>1. x <= n - y
    BY <1>1
  <2>2. QED
    BY <2>1, <1>2
<1>4. \E m \in S : \A y \in S : m >= y
  BY <1>3
<1>5. Max(S) \in S /\ \A y \in S : Max(S) >= y
  BY <1>4 DEF Max
<1>6. QED
  BY <1>5

LEMMA Induct ==
  ASSUME NEW n \in Nat, NEW G, 0 \in G, \A i \in 1..n : i - 1 \in G => i \in G
  PROVE  \A i \in 0..n : i \in G
<1> DEFINE B == {i \in 0..n : i \notin G}
<1>1. SUFFICES ASSUME B # {} PROVE FALSE
  OBVIOUS
<1>2. PICK x \in B : \A y \in B : x <= y
  <2>1. B \in SUBSET Nat
    OBVIOUS
  <2> HIDE DEF B
  <2>2. QED
    BY <1>1, <2>1, Least
<1>3. x \in 1..n /\ x \notin G
  OBVIOUS
<1>4. x - 1 \notin B
  BY <1>2, <1>3
<1>5. x - 1 \in G
  BY <1>3, <1>4
<1>6. QED
  BY <1>3, <1>5

\* There is a function with a given start whose values follow from each other.
Follows(f, n, a, h) == f[0] = a /\ \A i \in 1..n : f[i] = h[i][f[i - 1]]
LEMMA Recursion ==
  ASSUME NEW n \in Nat, NEW S, NEW a \in S, NEW h \in [1..n -> [S -> S]]
  PROVE  \E f \in [0..n -> S] : Follows(f, n, a, h)
<1> DEFINE Upto(m) == \E f \in [0..m -> S] : Follows(f, m, a, h)
           G == {m \in 0..n : Upto(m)}
<1>1. Upto(0)
  <2> DEFINE g == [i \in 0..0 |-> a]
  <2>1. g \in [0..0 -> S] /\ g[0] = a
    OBVIOUS
  <2> HIDE DEF g
  <2>2. QED
    BY <2>1 DEF Follows
<1>2. ASSUME NEW m \in 1..n, Upto(m - 1) PROVE Upto(m)
  <2>1. PICK f \in [0..(m - 1) -> S] : Follows(f, m - 1, a, h)
    BY <1>2
  <2> DEFINE g == [i \in 0..m |-> IF i = m THEN h[m][f[m - 1]] ELSE f[i]]
  <2>2. g \in [0..m -> S]
    OBVIOUS
  <2>3. g[0] = a
    BY <2>1 DEF Follows
  <2>4. ASSUME NEW i \in 1..m PROVE g[i] = h[i][g[i - 1]]
    <3>1. g[i - 1] = f[i - 1]
      OBVIOUS
    <3>2. CASE i = m
      BY <3>1, <3>2
    <3>3. CASE i # m
      <4>1. i \in 1..(m - 1) /\ g[i] = f[i]
        BY <3>3
      <4>2. QED
        BY <4>1, <3>1, <2>1 DEF Follows
    <3>4. QED
      BY <3>2, <3>3
  <2> HIDE DEF g
  <2>5. QED
    BY <2>2, <2>3, <2>4 DEF Follows
<1> HIDE DEF Upto
<1>3. 0 \in G
  BY <1>1
<1>4. \A i \in 1..n : i - 1 \in G => i \in G
  BY <1>2
<1> HIDE DEF G
<1>5. \A i \in 0..n : i \in G
  BY <1>3, <1>4, Induct, Zenon
<1>6. n \in G
  BY <1>5
<1>7. QED
  BY <1>6 DEF G, Upto, Follows

-----------------------------------------------------------------------------
(* Helpers of the model.                                                   *)

\* No token is twice in a list.
Distinct(ts) == \A j, k \in 1..Len(ts) : j # k => ts[j].id # ts[k].id

LEMMA Markers ==
  ASSUME NEW ts \in Seq(Token)
  PROVE  /\ WithoutMarkers(ts) \in Seq(Token)
         /\ \A k \in 1..Len(WithoutMarkers(ts)) : \E j \in 1..Len(ts) : WithoutMarkers(ts)[k] = ts[j]
         /\ Distinct(ts) => Distinct(WithoutMarkers(ts))
<1> DEFINE n == Len(ts)
           From(f) == [i \in 0..n |-> IF i = 0 THEN <<>>
                                      ELSE IF ts[i].text = PMark THEN f[i - 1] ELSE Append(f[i - 1], ts[i])]
           F == CHOOSE f : f = From(f)
<1>1. WithoutMarkers(ts) = F[n]
  BY DEF WithoutMarkers
<1>2. n \in Nat
  OBVIOUS
<1> HIDE DEF n
<1>3. F = From(F)
  <2> DEFINE h == [i \in 1..n |-> [s \in Seq(Token) |-> IF ts[i].text = PMark THEN s ELSE Append(s, ts[i])]]
  <2>1. \A i \in 1..n : ts[i] \in Token
    BY DEF n
  <2>2. h \in [1..n -> [Seq(Token) -> Seq(Token)]] /\ <<>> \in Seq(Token)
    BY <2>1
  <2>3. \A i \in 1..n, s \in Seq(Token) : h[i][s] = IF ts[i].text = PMark THEN s ELSE Append(s, ts[i])
    OBVIOUS
  <2> DEFINE none == <<>>
             All == Seq(Token)
  <2> HIDE DEF h, none, All
  <2>4. PICK f \in [0..n -> All] : Follows(f, n, none, h)
    <3>1. n \in Nat /\ h \in [1..n -> [All -> All]] /\ none \in All
      BY <1>2, <2>2 DEF All, none
    <3>2. QED
      BY <3>1, Recursion
  <2>5. \A i \in 0..n : f[i] = From(f)[i]
    <3>1. ASSUME NEW i \in 1..n PROVE f[i] = From(f)[i]
      <4>1. f[i - 1] \in Seq(Token)
        BY <1>2 DEF All
      <4>2. f[i] = IF ts[i].text = PMark THEN f[i - 1] ELSE Append(f[i - 1], ts[i])
        BY <2>3, <2>4, <4>1 DEF Follows
      <4>3. QED
        BY <4>2
    <3>2. f[0] = From(f)[0]
      BY <1>2, <2>4 DEF none, Follows
    <3>3. \A i \in 0..n : i = 0 \/ i \in 1..n
      BY <1>2
    <3> HIDE DEF From
    <3>4. QED
      BY <3>1, <3>2, <3>3
  <2>6. f = From(f)
    BY <2>5
  <2> HIDE DEF From
  <2>7. QED
    BY <2>6
<1> HIDE DEF F
<1>4. /\ F[0] = <<>>
      /\ \A i \in 1..n : F[i] = IF ts[i].text = PMark THEN F[i - 1] ELSE Append(F[i - 1], ts[i])
  <2> DEFINE g == From(F)
  <2>1. g[0] = <<>>
    BY <1>2
  <2>2. \A i \in 1..n : g[i] = IF ts[i].text = PMark THEN F[i - 1] ELSE Append(F[i - 1], ts[i])
    BY <1>2
  <2>3. F = g
    BY <1>3
  <2> HIDE DEF g
  <2>4. QED
    BY <2>1, <2>2, <2>3
<1> DEFINE Drawn(i, s) == /\ s \in Seq(Token) /\ \A k \in 1..Len(s) : \E j \in 1..i : s[k] = ts[j]
                          /\ Distinct(ts) => Distinct(s)
           G == {i \in 0..n : Drawn(i, F[i])}
<1>5. 0 \in G
  <2>1. Drawn(0, <<>>)
    BY DEF Distinct
  <2> HIDE DEF Drawn
  <2>2. QED
    BY <1>2, <1>4, <2>1
<1>6. ASSUME NEW i \in 1..n, Drawn(i - 1, F[i - 1]) PROVE Drawn(i, F[i])
  <2> DEFINE s == F[i - 1]
  <2>1. /\ s \in Seq(Token) /\ \A k \in 1..Len(s) : \E j \in 1..(i - 1) : s[k] = ts[j]
        /\ Distinct(ts) => Distinct(s)
    BY <1>6
  <2>2. i \in 1..Len(ts) /\ ts[i] \in Token /\ i - 1 \in 0..Len(ts)
    BY DEF n
  <2>3. CASE ts[i].text = PMark
    <3>1. F[i] = s
      BY <1>4, <2>3
    <3> HIDE DEF s
    <3>2. \A k \in 1..Len(s) : \E j \in 1..i : s[k] = ts[j]
      BY <2>1, <2>2
    <3>3. QED
      BY <2>1, <3>1, <3>2
  <2>4. CASE ts[i].text # PMark
    <3> DEFINE more == Append(s, ts[i])
    <3>1. F[i] = more
      BY <1>4, <2>4
    <3> HIDE DEF s
    <3>2. /\ more \in Seq(Token) /\ Len(more) = Len(s) + 1 /\ more[Len(s) + 1] = ts[i]
          /\ \A k \in 1..Len(s) : more[k] = s[k]
      BY <2>1, <2>2
    <3> HIDE DEF more
    <3>3. \A k \in 1..Len(more) : k = Len(s) + 1 \/ k \in 1..Len(s)
      BY <2>1, <3>2
    <3>4. \A k \in 1..Len(more) : \E j \in 1..i : more[k] = ts[j]
      <4>1. i \in 1..i /\ \A j \in 1..(i - 1) : j \in 1..i
        BY <2>2
      <4>2. QED
        BY <2>1, <3>2, <3>3, <4>1
    <3>5. ASSUME Distinct(ts) PROVE Distinct(more)
      <4>1. \A k \in 1..Len(s) : s[k].id # ts[i].id
        <5>1. \A j \in 1..(i - 1) : j \in 1..Len(ts) /\ j # i
          BY <2>2
        <5>2. \A j \in 1..(i - 1) : ts[j].id # ts[i].id
          BY <5>1, <3>5, <2>2 DEF Distinct
        <5>3. QED
          BY <5>2, <2>1
      <4>2. \A k, m \in 1..Len(s) : k # m => s[k].id # s[m].id
        BY <2>1, <3>5 DEF Distinct
      <4>3. QED
        BY <3>2, <3>3, <4>1, <4>2 DEF Distinct
    <3>6. QED
      BY <3>1, <3>2, <3>4, <3>5
  <2>5. QED
    BY <2>3, <2>4
<1> HIDE DEF Drawn
<1>7. \A i \in 1..n : i - 1 \in G => i \in G
  BY <1>6
<1> HIDE DEF G
<1>8. \A i \in 0..n : i \in G
  BY <1>2, <1>5, <1>7, Induct, Zenon
<1>9. Drawn(n, F[n])
  BY <1>2, <1>8 DEF G
<1>10. QED
  BY <1>1, <1>9 DEF Drawn, n

\* What is left of locks that were popped down to those that stop with fewer
\* than v tokens left.
Popped(ls, h, v) ==
  /\ h \in 0..Len(ls)
  /\ \A k \in (h + 1)..Len(ls) : ls[k].frame = Top /\ ls[k].left >= v
  /\ \A k \in 1..h : ls[k].frame = Top => ls[k].left < v

\* The locks of the innermost loop stop with at most v tokens left.
Within(ls, v) ==
  /\ Sorted(ls) /\ \A i \in 1..Len(ls) : ls[i].frame <= Top
  /\ \A i \in 1..Len(ls) : ls[i].frame = Top => ls[i].left <= v

LEMMA LockFields ==
  ASSUME NEW l \in Lock
  PROVE  l.macro \in Texts /\ l.frame \in Nat /\ l.left \in Nat
  BY DEF Lock

LEMMA HeldFacts ==
  ASSUME NEW ls \in Seq(Lock), NEW v \in Int, NEW n \in 0..Len(ls), Top \in Nat,
         Sorted(ls), \A i \in 1..Len(ls) : ls[i].frame <= Top,
         \A k \in 1..n : ls[k].frame = Top => ls[k].left <= v
  PROVE  /\ Held(ls, n, v) \in 0..n
         /\ \A k \in (Held(ls, n, v) + 1)..n : ls[k].frame = Top /\ ls[k].left = v
         /\ \A k \in 1..Held(ls, n, v) : ls[k].frame = Top => ls[k].left < v
<1> DEFINE S == {i \in 0..n : i > 0 => ls[i].frame # Top \/ ls[i].left # v}
           h == Max(S)
<1>1. h \in S /\ \A i \in S : i <= h
  <2>1. 0 \in S
    OBVIOUS
  <2>2. S \subseteq 0..n /\ n \in Nat
    OBVIOUS
  <2> HIDE DEF S
  <2>3. QED
    BY <2>1, <2>2, Greatest
<1>2. Held(ls, n, v) = h
  BY DEF Held
<1> HIDE DEF h
<1>3. \A k \in (h + 1)..n : ls[k].frame = Top /\ ls[k].left = v
  <2>1. ASSUME NEW k \in (h + 1)..n PROVE k \notin S
    BY <1>1
  <2>2. QED
    BY <1>1, <2>1
<1>4. ASSUME NEW k \in 1..h, ls[k].frame = Top PROVE ls[k].left < v
  <2>1. h \in 1..n /\ k \in 1..n /\ h \in 1..Len(ls) /\ k \in 1..Len(ls)
    BY <1>1
  <2>2. ls[h] \in Lock /\ ls[k] \in Lock
    BY <2>1
  <2>3. ls[h].frame # Top \/ ls[h].left < v
    <3>1. ls[h].left \in Nat /\ h > 0
      BY <2>1, <2>2, LockFields
    <3>2. ls[h].frame # Top \/ ls[h].left # v
      BY <1>1, <3>1
    <3>3. ls[h].frame = Top => ls[h].left <= v
      BY <2>1
    <3>4. QED
      BY <3>1, <3>2, <3>3
  <2>4. CASE k = h
    BY <2>3, <2>4, <1>4
  <2>5. CASE k # h
    <3>1. k \in 1..(h - 1)
      BY <2>5, <2>1
    <3>2. ls[k].frame <= ls[h].frame /\ (ls[k].frame = ls[h].frame => ls[k].left <= ls[h].left)
      BY <3>1, <2>1 DEF Sorted
    <3>3. ls[h].left \in Nat /\ ls[k].left \in Nat /\ ls[h].frame \in Nat /\ ls[k].frame = Top
      BY <1>4, <2>2, LockFields
    <3>4. ls[h].frame <= Top
      BY <2>1
    <3>5. ls[h].frame = Top
      BY <3>2, <3>3, <3>4
    <3>6. QED
      BY <2>3, <3>2, <3>3, <3>5
  <2>6. QED
    BY <2>4, <2>5
<1>5. QED
  BY <1>1, <1>2, <1>3, <1>4

LEMMA PopOnce ==
  ASSUME NEW ls \in Seq(Lock), NEW v \in Nat, Top \in Nat, Within(ls, v)
  PROVE  \E h \in 0..Len(ls) : pop_macro_lock(ls, v) = SubSeq(ls, 1, h) /\ Popped(ls, h, v)
<1> DEFINE n == Len(ls)
           h == Held(ls, n, v)
<1>1. n \in 0..Len(ls) /\ v \in Int
  OBVIOUS
<1>2. /\ h \in 0..n
      /\ \A k \in (h + 1)..n : ls[k].frame = Top /\ ls[k].left = v
      /\ \A k \in 1..h : ls[k].frame = Top => ls[k].left < v
  <2>1. \A k \in 1..n : ls[k].frame = Top => ls[k].left <= v
    BY DEF Within
  <2> HIDE DEF n
  <2>2. QED
    BY <1>1, <2>1, HeldFacts DEF Within
<1>3. pop_macro_lock(ls, v) = SubSeq(ls, 1, h)
  BY DEF pop_macro_lock
<1> HIDE DEF h
<1>4. Popped(ls, h, v)
  BY <1>2 DEF Popped
<1>5. QED
  BY <1>2, <1>3, <1>4

LEMMA PopUntil ==
  ASSUME NEW ls \in Seq(Lock), NEW from \in Nat, NEW n \in 0..from, Top \in Nat, Within(ls, from)
  PROVE  \E h \in 0..Len(ls) : /\ pop_macro_lock_until(ls, from, n) = SubSeq(ls, 1, h)
                               /\ Popped(ls, h, from - n + 1)
<1> DEFINE m == Len(ls)
           Pass(f) == [i \in 0..n |-> IF i = 0 THEN m ELSE Held(ls, f[i - 1], from - i + 1)]
           F == CHOOSE f : f = Pass(f)
<1>1. pop_macro_lock_until(ls, from, n) = SubSeq(ls, 1, F[n])
  BY DEF pop_macro_lock_until
<1>2. m \in Nat /\ n \in Nat
  OBVIOUS
<1> DEFINE Good(i, h) == h \in 0..m /\ Popped(ls, h, from - i + 1)
<1>3. ASSUME NEW i \in 1..n, NEW g \in 0..m, Popped(ls, g, from - (i - 1) + 1)
      PROVE  Good(i, Held(ls, g, from - i + 1))
  <2> DEFINE v == from - i + 1
             h == Held(ls, g, v)
  <2>1. v \in Int /\ g \in 0..Len(ls)
    OBVIOUS
  <2>2. \A k \in 1..g : ls[k].frame = Top => ls[k].left <= v
    <3>1. ASSUME NEW k \in 1..g, ls[k].frame = Top PROVE ls[k].left <= v
      <4>1. ls[k].left < from - (i - 1) + 1
        BY <1>3, <3>1 DEF Popped
      <4>2. ls[k] \in Lock
        OBVIOUS
      <4>3. ls[k].left \in Nat
        BY <4>2, LockFields
      <4>4. QED
        BY <4>1, <4>3
    <3>2. QED
      BY <3>1
  <2>3. \A k \in (g + 1)..Len(ls) : ls[k].frame = Top /\ ls[k].left >= v + 1
    BY <1>3 DEF Popped
  <2> HIDE DEF v
  <2>4. /\ h \in 0..g
        /\ \A k \in (h + 1)..g : ls[k].frame = Top /\ ls[k].left = v
        /\ \A k \in 1..h : ls[k].frame = Top => ls[k].left < v
    BY <2>1, <2>2, HeldFacts DEF Within
  <2> HIDE DEF h
  <2>5. ASSUME NEW k \in (h + 1)..Len(ls) PROVE ls[k].frame = Top /\ ls[k].left >= v
    <3>1. CASE k <= g
      BY <2>1, <2>4, <3>1
    <3>2. CASE k > g
      <4>1. ls[k].left >= v + 1 /\ ls[k].frame = Top
        BY <2>3, <3>2
      <4>2. ls[k] \in Lock
        BY <2>4
      <4>3. QED
        BY <4>1, <4>2, <2>1 DEF Lock
    <3>3. QED
      BY <3>1, <3>2, <2>4
  <2>6. QED
    BY <2>1, <2>4, <2>5 DEF Popped, v, h
<1>4. Good(0, m)
  <2>1. \A k \in 1..m : ls[k].frame = Top => ls[k].left < from - 0 + 1
    <3>1. \A k \in 1..m : ls[k] \in Lock
      OBVIOUS
    <3>2. QED
      BY <3>1 DEF Within, Lock
  <2>2. QED
    BY <2>1 DEF Popped
<1> HIDE DEF m
<1>5. F = Pass(F)
  <2> DEFINE S == 0..m
             h == [i \in 1..n |-> [g \in S |-> IF Good(i, Held(ls, g, from - i + 1))
                                               THEN Held(ls, g, from - i + 1) ELSE 0]]
  <2>1. h \in [1..n -> [S -> S]] /\ m \in S
    BY <1>2
  <2>2. \A i \in 1..n, g \in S : Good(i, Held(ls, g, from - i + 1)) => h[i][g] = Held(ls, g, from - i + 1)
    OBVIOUS
  <2> HIDE DEF h, S
  <2>3. PICK f \in [0..n -> S] : Follows(f, n, m, h)
    BY <1>2, <2>1, Recursion
  <2> DEFINE G == {i \in 0..n : Good(i, f[i])}
  <2>4. 0 \in G
    BY <1>2, <1>4, <2>3 DEF Follows
  <2>5. ASSUME NEW i \in 1..n, Good(i - 1, f[i - 1])
        PROVE  Good(i, f[i]) /\ f[i] = Held(ls, f[i - 1], from - i + 1)
    <3>1. f[i - 1] \in 0..m /\ Popped(ls, f[i - 1], from - (i - 1) + 1)
      BY <2>5
    <3> DEFINE g == f[i - 1]
    <3>2. g \in S
      BY <3>1 DEF S
    <3> HIDE DEF g
    <3>3. Good(i, Held(ls, g, from - i + 1))
      BY <1>3, <3>1 DEF g
    <3>4. f[i] = h[i][g]
      BY <2>3 DEF Follows, g
    <3>5. h[i][g] = Held(ls, g, from - i + 1)
      BY <2>2, <3>2, <3>3
    <3>6. QED
      BY <3>3, <3>4, <3>5 DEF g
  <2> HIDE DEF Good
  <2>6. \A i \in 1..n : i - 1 \in G => i \in G
    BY <2>5
  <2> HIDE DEF G
  <2>7. \A i \in 0..n : i \in G
    BY <1>2, <2>4, <2>6, Induct, Zenon
  <2>8. \A i \in 1..n : f[i] = Held(ls, f[i - 1], from - i + 1)
    <3>1. ASSUME NEW i \in 1..n PROVE f[i] = Held(ls, f[i - 1], from - i + 1)
      <4>1. i - 1 \in 0..n
        OBVIOUS
      <4>2. Good(i - 1, f[i - 1])
        BY <2>7, <4>1 DEF G
      <4>3. QED
        BY <4>2, <2>5
    <3>2. QED
      BY <3>1
  <2>9. f[0] = m
    BY <2>3 DEF Follows
  <2>10. f = Pass(f)
    <3> DEFINE p == Pass(f)
    <3>1. \A i \in 0..n : i = 0 \/ i \in 1..n
      OBVIOUS
    <3>2. p[0] = m /\ \A i \in 1..n : p[i] = Held(ls, f[i - 1], from - i + 1)
      OBVIOUS
    <3>3. DOMAIN p = 0..n /\ p = [i \in 0..n |-> p[i]]
      OBVIOUS
    <3> HIDE DEF p
    <3>4. \A i \in 0..n : f[i] = p[i]
      BY <2>8, <2>9, <3>1, <3>2
    <3>5. f = p
      BY <3>3, <3>4
    <3>6. QED
      BY <3>5 DEF p
  <2> HIDE DEF Pass
  <2>11. QED
    BY <2>10
<1> HIDE DEF F
<1>6. F[0] = m /\ \A i \in 1..n : F[i] = Held(ls, F[i - 1], from - i + 1)
  <2> DEFINE g == Pass(F)
  <2>1. g[0] = m
    OBVIOUS
  <2>2. \A i \in 1..n : g[i] = Held(ls, F[i - 1], from - i + 1)
    OBVIOUS
  <2>3. F = g
    BY <1>5
  <2> HIDE DEF g
  <2>4. QED
    BY <2>1, <2>2, <2>3
<1> DEFINE G == {i \in 0..n : Good(i, F[i])}
<1>7. ASSUME NEW i \in 1..n, Good(i - 1, F[i - 1]) PROVE Good(i, F[i])
  <2> DEFINE g == F[i - 1]
  <2>1. g \in 0..m /\ Popped(ls, g, from - (i - 1) + 1)
    BY <1>7
  <2>2. F[i] = Held(ls, g, from - i + 1)
    BY <1>6
  <2> HIDE DEF g
  <2>3. QED
    BY <2>1, <2>2, <1>3
<1>8. 0 \in G
  BY <1>2, <1>4, <1>6
<1> HIDE DEF Good
<1>9. \A i \in 1..n : i - 1 \in G => i \in G
  BY <1>7
<1> HIDE DEF G
<1>10. \A i \in 0..n : i \in G
  BY <1>2, <1>8, <1>9, Induct, Zenon
<1>11. Good(n, F[n])
  BY <1>2, <1>10 DEF G
<1>12. QED
  BY <1>1, <1>11 DEF Good, m

-----------------------------------------------------------------------------
(* A loop goes on: its list is ts, what it is done with is out.            *)
Updated(fs, ts, out) ==
  /\ fs \in Seq(Frame) /\ Len(fs) = Top
  /\ fs[Top].tokens = ts /\ fs[Top].out = out
  /\ \A i \in 1..Top : /\ fs[i].start = frames[i].start /\ fs[i].kind = frames[i].kind
                       /\ i < Top => fs[i] = frames[i]

Suffix(ts, all) ==
  /\ ts \in Seq(Token) /\ Len(ts) <= Len(all)
  /\ \A k \in 1..Len(ts) : ts[k] = all[Len(all) - Len(ts) + k]

LEMMA TopFacts ==
  ASSUME Types
  PROVE  /\ Top \in Nat \ {0} /\ Top \in 1..Len(frames) /\ Current \in Frame
         /\ Current.tokens \in Seq(Token) /\ Current.out \in Seq(Token)
         /\ Len(Current.tokens) \in Nat
<1>1. Top \in Nat \ {0} /\ Top \in 1..Len(frames)
  BY DEF Types, Top
<1>2. Current \in Frame
  BY <1>1 DEF Types, Top, Current
<1>3. QED
  BY <1>1, <1>2 DEF Frame

LEMMA FrameEdit ==
  ASSUME NEW f \in Frame, NEW ts \in Seq(Token)
  PROVE  /\ [f EXCEPT !.tokens = ts] \in Frame /\ [f EXCEPT !.tokens = ts].tokens = ts
         /\ [f EXCEPT !.tokens = ts].out = f.out /\ [f EXCEPT !.tokens = ts].start = f.start
         /\ [f EXCEPT !.tokens = ts].kind = f.kind
  BY DEF Frame

LEMMA UpdateTokens ==
  ASSUME Types, NEW ts \in Seq(Token)
  PROVE  Updated([frames EXCEPT ![Top].tokens = ts], ts, Current.out)
<1> DEFINE f == frames[Top]
           g == [f EXCEPT !.tokens = ts]
           fs == [frames EXCEPT ![Top] = g]
<1>1. Top \in 1..Len(frames) /\ f \in Frame /\ frames \in Seq(Frame) /\ Top = Len(frames)
  BY TopFacts DEF Types, Current, Top
<1>2. [frames EXCEPT ![Top].tokens = ts] = fs
  OBVIOUS
<1>3. g \in Frame /\ g.tokens = ts /\ g.out = f.out /\ g.start = f.start /\ g.kind = f.kind
  <2> HIDE DEF f
  <2>1. QED
    BY <1>1, FrameEdit
<1> HIDE DEF g
<1>4. fs \in Seq(Frame) /\ Len(fs) = Len(frames) /\ fs[Top] = g
      /\ \A i \in 1..Len(frames) : i # Top => fs[i] = frames[i]
  BY <1>1, <1>3
<1> HIDE DEF fs
<1>5. Updated(fs, ts, f.out)
  <2>1. frames[Top] = f
    OBVIOUS
  <2> HIDE DEF f
  <2>2. QED
    BY <1>1, <1>3, <1>4, <2>1 DEF Updated
<1>6. QED
  BY <1>2, <1>5 DEF Current

LEMMA UpdateBoth ==
  ASSUME Types, NEW ts \in Seq(Token), NEW kept \in Seq(Token)
  PROVE  Updated([frames EXCEPT ![Top].tokens = ts, ![Top].out = @ \o kept], ts, Current.out \o kept)
<1> DEFINE f == frames[Top]
           out == f.out \o kept
           g == [f EXCEPT !.tokens = ts, !.out = out]
           fs == [frames EXCEPT ![Top] = g]
<1>1. Top \in 1..Len(frames) /\ f \in Frame /\ frames \in Seq(Frame) /\ Top = Len(frames)
      /\ out \in Seq(Token)
  BY TopFacts DEF Types, Current, Top, Frame
<1>2. [frames EXCEPT ![Top].tokens = ts, ![Top].out = @ \o kept] = fs
  <2>1. frames[Top] \in Frame /\ Top \in DOMAIN frames
    BY <1>1
  <2>2. QED
    BY <2>1 DEF Frame
<1>3. g \in Frame /\ g.tokens = ts /\ g.out = out /\ g.start = f.start /\ g.kind = f.kind
  <2> HIDE DEF f, out
  <2>1. QED
    BY <1>1 DEF Frame
<1> HIDE DEF g
<1>4. fs \in Seq(Frame) /\ Len(fs) = Len(frames) /\ fs[Top] = g
      /\ \A i \in 1..Len(frames) : i # Top => fs[i] = frames[i]
  BY <1>1, <1>3
<1> HIDE DEF fs
<1>5. Updated(fs, ts, out)
  <2> HIDE DEF out
  <2>1. QED
    BY <1>1, <1>3, <1>4 DEF Updated
<1>6. Updated([frames EXCEPT ![Top].tokens = ts, ![Top].out = @ \o kept], ts, out)
  BY <1>2, <1>5
<1>7. QED
  BY <1>6 DEF Current

LEMMA PrefixFacts ==
  ASSUME NEW ls \in Seq(Lock), NEW h \in 0..Len(ls)
  PROVE  /\ SubSeq(ls, 1, h) \in Seq(Lock) /\ Len(SubSeq(ls, 1, h)) = h
         /\ \A i \in 1..h : SubSeq(ls, 1, h)[i] = ls[i] /\ ls[i] \in Lock
  OBVIOUS

LEMMA NestedUpdate ==
  ASSUME NEW ls \in Seq(Lock), Types, Nested(ls, frames), NEW fs, NEW ts, NEW out, Updated(fs, ts, out),
         NEW h, NEW v, Popped(ls, h, v),
         \A i \in 1..h : ls[i].frame = Top => ls[i].left <= Len(ts)
  PROVE  Nested(SubSeq(ls, 1, h), fs)
<1> DEFINE l2 == SubSeq(ls, 1, h)
<1>1. /\ l2 \in Seq(Lock) /\ Len(l2) = h /\ h \in 0..Len(ls)
      /\ \A i \in 1..h : l2[i] = ls[i] /\ ls[i] \in Lock
  BY PrefixFacts DEF Popped, Types
<1> HIDE DEF l2
<1>2. Sorted(l2)
  BY <1>1 DEF Nested, Sorted
<1>3. Placed(l2, fs)
  <2>1. ASSUME NEW i \in 1..h
        PROVE  ls[i].frame \in 1..Top /\ ls[i].left <= Len(fs[ls[i].frame].tokens)
    <3>1. ls[i].frame \in 1..Top /\ ls[i].left <= Len(frames[ls[i].frame].tokens)
      BY <1>1 DEF Nested, Placed, Top
    <3>2. CASE ls[i].frame = Top
      BY <3>1, <3>2 DEF Updated
    <3>3. CASE ls[i].frame # Top
      <4>1. ls[i].frame < Top
        BY <3>1, <3>3, TopFacts
      <4>2. QED
        BY <3>1, <4>1 DEF Updated
    <3>4. QED
      BY <3>2, <3>3
  <2>2. QED
    BY <2>1, <1>1 DEF Placed, Updated
<1>4. Counted(l2, fs)
  <2>1. ASSUME NEW i \in 1..Top
        PROVE  /\ frames[i].start \in 0..h
               /\ \A j \in 1..h : ls[j].frame < i <=> j <= frames[i].start
    <3>1. /\ frames[i].start \in 0..Len(ls)
          /\ \A j \in 1..Len(ls) : ls[j].frame < i <=> j <= frames[i].start
      BY DEF Nested, Counted, Top
    <3>2. ASSUME frames[i].start > h PROVE FALSE
      <4>1. h + 1 \in 1..Len(ls) /\ h + 1 <= frames[i].start
        BY <1>1, <3>1, <3>2
      <4>2. ls[h + 1].frame < i
        BY <3>1, <4>1
      <4>3. ls[h + 1].frame = Top
        BY <4>1, <1>1 DEF Popped
      <4>4. QED
        BY <4>2, <4>3, TopFacts
    <3>3. QED
      BY <1>1, <3>1, <3>2
  <2>2. QED
    BY <2>1, <1>1 DEF Counted, Updated
<1>5. QED
  BY <1>2, <1>3, <1>4 DEF Nested, l2

LEMMA CoveredUpdate ==
  ASSUME NEW ls \in Seq(Lock), Types, Covered(ls, frames), NEW fs, NEW ts, NEW out, Updated(fs, ts, out),
         NEW h, NEW v, Popped(ls, h, v), CoveredIn(SubSeq(ls, 1, h), Top, ts)
  PROVE  Covered(SubSeq(ls, 1, h), fs)
<1> DEFINE l2 == SubSeq(ls, 1, h)
<1>1. /\ l2 \in Seq(Lock) /\ Len(l2) = h /\ h \in 0..Len(ls)
      /\ \A i \in 1..h : l2[i] = ls[i] /\ ls[i] \in Lock
  BY PrefixFacts DEF Popped, Types
<1>2. CoveredIn(l2, Top, ts)
  OBVIOUS
<1> HIDE DEF l2
<1>3. ASSUME NEW i \in 1..Top, i < Top PROVE CoveredIn(l2, i, frames[i].tokens)
  <2>1. CoveredIn(ls, i, frames[i].tokens)
    BY DEF Covered, Top
  <2> DEFINE cur == frames[i].tokens
  <2>2. ASSUME NEW k \in 1..Len(cur), Own(cur[k])
        PROVE  \E j \in 1..Len(l2) : /\ l2[j].macro = cur[k].text
                                     /\ l2[j].frame < i \/ (l2[j].frame = i /\ l2[j].left <= Len(cur) - k)
    <3>1. PICK j \in 1..Len(ls) : /\ ls[j].macro = cur[k].text
                                  /\ ls[j].frame < i \/ (ls[j].frame = i /\ ls[j].left <= Len(cur) - k)
      BY <2>1, <2>2 DEF CoveredIn
    <3>2. ls[j].frame # Top
      BY <3>1, <1>3, TopFacts
    <3>3. j \in 1..h
      BY <3>2, <1>1 DEF Popped
    <3>4. QED
      BY <3>1, <3>3, <1>1
  <2> HIDE DEF cur
  <2>3. CoveredIn(l2, i, cur)
    BY <2>2 DEF CoveredIn
  <2>4. QED
    BY <2>3 DEF cur
<1>4. ASSUME NEW i \in 1..Len(fs) PROVE CoveredIn(l2, i, fs[i].tokens)
  <2>1. Len(fs) = Top /\ (i < Top => fs[i] = frames[i]) /\ fs[Top].tokens = ts
    BY DEF Updated
  <2>2. CASE i < Top
    BY <2>1, <2>2, <1>3
  <2>3. CASE i = Top
    BY <2>1, <2>3, <1>2
  <2>4. QED
    BY <2>1, <2>2, <2>3, TopFacts
<1>5. QED
  BY <1>4 DEF Covered, l2

LEMMA CoveredSuffix ==
  ASSUME NEW ls \in Seq(Lock), NEW i, NEW all \in Seq(Token), CoveredIn(ls, i, all), i = Top,
         NEW ts, Suffix(ts, all), NEW h, NEW v \in Nat, Len(ts) <= v, Popped(ls, h, v)
  PROVE  CoveredIn(SubSeq(ls, 1, h), i, ts)
<1> DEFINE l2 == SubSeq(ls, 1, h)
<1>1. /\ Len(l2) = h /\ h \in 0..Len(ls)
      /\ \A j \in 1..h : l2[j] = ls[j]
  BY PrefixFacts DEF Popped
<1> HIDE DEF l2
<1>2. ASSUME NEW k \in 1..Len(ts), Own(ts[k])
      PROVE  \E j \in 1..Len(l2) : /\ l2[j].macro = ts[k].text
                                   /\ l2[j].frame < i \/ (l2[j].frame = i /\ l2[j].left <= Len(ts) - k)
  <2> DEFINE m == Len(all) - Len(ts) + k
  <2>1. m \in 1..Len(all) /\ ts[k] = all[m] /\ Len(all) - m = Len(ts) - k
    BY DEF Suffix
  <2> HIDE DEF m
  <2>2. PICK j \in 1..Len(ls) : /\ ls[j].macro = all[m].text
                                /\ ls[j].frame < i \/ (ls[j].frame = i /\ ls[j].left <= Len(all) - m)
    BY <2>1, <1>2 DEF CoveredIn
  <2>3. ls[j] \in Lock
    OBVIOUS
  <2>4. ASSUME j > h PROVE FALSE
    <3>1. ls[j].frame = Top /\ ls[j].left >= v
      BY <1>1, <2>4 DEF Popped
    <3>2. ls[j].left <= Len(ts) - k
      <4>1. ls[j].left \in Nat /\ ls[j].frame \in Nat
        BY <2>3, LockFields
      <4>2. QED
        BY <2>1, <2>2, <3>1, <4>1
    <3>3. QED
      BY <3>1, <3>2, <2>3 DEF Lock, Suffix
  <2>5. j \in 1..h
    BY <2>4, <1>1
  <2>6. QED
    BY <2>1, <2>2, <2>5, <1>1
<1>3. QED
  BY <1>2 DEF CoveredIn, l2

LEMMA Moved ==
  ASSUME Inv, Len(calls) = Top - 1, NEW ts \in Seq(Token), NEW out, NEW h,
         Updated(frames', ts, out), Popped(locks, h, Len(ts)), locks' = SubSeq(locks, 1, h),
         Quiet(out), CoveredIn(locks', Top, ts), UNCHANGED <<macros, calls, status>>, made' \in Nat
  PROVE  Inv'
<1>1. Top \in Nat \ {0} /\ locks \in Seq(Lock) /\ Types
  BY TopFacts DEF Inv, Types
<1>2. /\ locks' \in Seq(Lock) /\ Len(locks') = h /\ h \in 0..Len(locks)
      /\ \A i \in 1..h : locks'[i] = locks[i] /\ locks[i] \in Lock
  BY <1>1, PrefixFacts DEF Popped
<1>3. frames' \in Seq(Frame) /\ Len(frames') = Top /\ Top' = Top /\ frames'[Top].tokens = ts
  BY DEF Updated, Top
<1>4. Types'
  <2>1. frames' # <<>>
    BY <1>1, <1>3
  <2>2. QED
    BY <1>1, <1>2, <1>3, <2>1 DEF Types, Top
<1>5. \A i \in 1..h : locks[i].frame = Top => locks[i].left < Len(ts)
  BY DEF Popped
<1>6. Nested(locks', frames')
  <2>1. \A i \in 1..h : locks[i].frame = Top => locks[i].left <= Len(ts)
    BY <1>2, <1>5 DEF Lock
  <2>2. Nested(SubSeq(locks, 1, h), frames')
    BY <1>1, <2>1, NestedUpdate DEF Inv
  <2>3. QED
    BY <2>2
<1>7. Ahead(locks', frames')
  BY <1>2, <1>3, <1>5 DEF Ahead
<1>8. Covered(locks', frames')
  <2>1. Covered(SubSeq(locks, 1, h), frames')
    BY <1>1, CoveredUpdate DEF Inv
  <2>2. QED
    BY <2>1
<1>9. QuietOuts(frames')
  <2>1. ASSUME NEW i \in 1..Len(frames') PROVE Quiet(frames'[i].out)
    <3>1. CASE i = Top
      BY <3>1 DEF Updated
    <3>2. CASE i # Top
      <4>1. i \in 1..Top /\ i < Top
        BY <1>1, <1>3, <3>2
      <4>2. frames'[i] = frames[i]
        BY <4>1 DEF Updated
      <4>3. QED
        BY <4>1, <4>2 DEF Inv, QuietOuts, Top
    <3>3. QED
      BY <3>1, <3>2
  <2>2. QED
    BY <2>1 DEF QuietOuts
<1>10. Unlocked(locks', calls') /\ Known(locks', calls', macros')
  <2>1. calls' = calls /\ macros' = macros
    OBVIOUS
  <2>2. Unlocked(locks', calls)
    BY <1>2 DEF Inv, Unlocked
  <2>3. Known(locks', calls, macros)
    BY <1>2 DEF Inv, Known
  <2>4. QED
    BY <2>1, <2>2, <2>3
<1>11. \A i \in 1..Len(calls') : CallFits(calls'[i])
  BY DEF Inv
<1>12. QED
  BY <1>4, <1>6, <1>7, <1>8, <1>9, <1>10, <1>11 DEF Inv

LEMMA SuffixTail ==
  ASSUME NEW all \in Seq(Token), all # <<>>
  PROVE  /\ Suffix(Tail(all), all) /\ Len(Tail(all)) = Len(all) - 1
         /\ Tail(all) \in Seq(Token) /\ Head(all) \in Token /\ Head(all) = all[1]
<1>1. Tail(all) \in Seq(Token) /\ Len(Tail(all)) = Len(all) - 1
      /\ \A i \in 1..Len(Tail(all)) : Tail(all)[i] = all[i + 1]
  BY HeadTailProperties
<1> DEFINE t == Tail(all)
<1> HIDE DEF t
<1>2. \A i \in 1..Len(t) : t[i] = all[Len(all) - Len(t) + i]
  BY <1>1 DEF t
<1>3. Suffix(t, all)
  BY <1>1, <1>2 DEF Suffix, t
<1>4. QED
  BY <1>1, <1>3, HeadTailProperties DEF t

LEMMA SuffixSub ==
  ASSUME NEW all \in Seq(Token), NEW m \in 1..(Len(all) + 1)
  PROVE  /\ Suffix(SubSeq(all, m, Len(all)), all)
         /\ SubSeq(all, m, Len(all)) \in Seq(Token)
         /\ Len(SubSeq(all, m, Len(all))) = Len(all) - m + 1
<1> DEFINE t == SubSeq(all, m, Len(all))
<1>1. t \in Seq(Token) /\ Len(t) = Len(all) - m + 1 /\ \A i \in 1..Len(t) : t[i] = all[m + i - 1]
  BY SubSeqProperties
<1> HIDE DEF t
<1>2. \A i \in 1..Len(t) : t[i] = all[Len(all) - Len(t) + i]
  BY <1>1
<1>3. Suffix(t, all)
  BY <1>1, <1>2 DEF Suffix
<1>4. QED
  BY <1>1, <1>3 DEF t

LEMMA SuffixTrans ==
  ASSUME NEW a, NEW b, NEW c \in Seq(Token), Suffix(a, b), Suffix(b, c)
  PROVE  Suffix(a, c)
<1>1. a \in Seq(Token) /\ b \in Seq(Token) /\ Len(a) <= Len(b) /\ Len(b) <= Len(c)
  BY DEF Suffix
<1>2. ASSUME NEW k \in 1..Len(a) PROVE a[k] = c[Len(c) - Len(a) + k]
  <2> DEFINE m == Len(b) - Len(a) + k
  <2>1. m \in 1..Len(b) /\ a[k] = b[m] /\ Len(c) - Len(b) + m = Len(c) - Len(a) + k
    BY <1>1 DEF Suffix
  <2> HIDE DEF m
  <2>2. b[m] = c[Len(c) - Len(b) + m]
    BY <2>1 DEF Suffix
  <2>3. QED
    BY <2>1, <2>2
<1>3. QED
  BY <1>1, <1>2 DEF Suffix

LEMMA ScanFacts ==
  ASSUME Inv, Scanning
  PROVE  /\ Len(calls) = Top - 1 /\ status = "run"
         /\ tok \in Token /\ tok = Current.tokens[1] /\ Rest \in Seq(Token)
         /\ Len(Rest) \in Nat /\ Len(Current.tokens) = Len(Rest) + 1
         /\ Suffix(Rest, Current.tokens) /\ Within(locks, Len(Rest))
         /\ CoveredIn(locks, Top, Current.tokens)
<1>1. Types /\ Top \in Nat \ {0} /\ Current.tokens \in Seq(Token) /\ locks \in Seq(Lock)
  BY TopFacts DEF Inv, Types
<1>2. Current.tokens # <<>> /\ Len(calls) = Top - 1 /\ status = "run"
  BY DEF Scanning
<1>3. /\ tok \in Token /\ tok = Current.tokens[1] /\ Rest \in Seq(Token)
      /\ Len(Rest) \in Nat /\ Len(Current.tokens) = Len(Rest) + 1 /\ Suffix(Rest, Current.tokens)
  BY <1>1, <1>2, SuffixTail DEF tok, Rest
<1>4. Within(locks, Len(Rest))
  <2>1. \A i \in 1..Len(locks) : locks[i] \in Lock
    BY <1>1
  <2>2. \A i \in 1..Len(locks) : locks[i].frame <= Top
    BY <1>1 DEF Inv, Nested, Placed, Top
  <2>3. \A i \in 1..Len(locks) : locks[i].frame = Top => locks[i].left < Len(Current.tokens)
    BY <1>2 DEF Inv, Ahead, Top, Current
  <2>4. \A i \in 1..Len(locks) : locks[i].frame = Top => locks[i].left <= Len(Rest)
    BY <2>1, <2>3, <1>3 DEF Lock
  <2>5. QED
    BY <2>2, <2>4 DEF Within, Inv, Nested
<1>5. CoveredIn(locks, Top, Current.tokens)
  BY <1>1 DEF Inv, Covered, Current, Top
<1>6. QED
  BY <1>2, <1>3, <1>4, <1>5

LEMMA CopyFacts ==
  ASSUME NEW ts \in Seq(Token), made \in Nat
  PROVE  /\ Copies(ts) \in Seq(Token) /\ Len(Copies(ts)) = Len(ts)
         /\ \A i \in 1..Len(ts) : /\ Copies(ts)[i].text = ts[i].text /\ Copies(ts)[i].by = ts[i].by
                                  /\ Copies(ts)[i].dont_expand = ts[i].dont_expand
<1>1. ASSUME NEW i \in 1..Len(ts), NEW t, t = [ts[i] EXCEPT !.id = made + i]
      PROVE  t \in Token /\ t.text = ts[i].text /\ t.by = ts[i].by /\ t.dont_expand = ts[i].dont_expand
  <2>1. ts[i] \in Token /\ made + i \in Int
    OBVIOUS
  <2>2. QED
    BY <1>1, <2>1 DEF Token
<1>2. Len(ts) \in Nat /\ Copies(ts) = [i \in 1..Len(ts) |-> [ts[i] EXCEPT !.id = made + i]]
  BY DEF Copies
<1>3. \A i \in 1..Len(ts) : /\ Copies(ts)[i] \in Token /\ Copies(ts)[i].text = ts[i].text
                            /\ Copies(ts)[i].by = ts[i].by
                            /\ Copies(ts)[i].dont_expand = ts[i].dont_expand
  BY <1>1, <1>2
<1>4. Copies(ts) \in Seq(Token) /\ Len(Copies(ts)) = Len(ts)
  <2> DEFINE c == Copies(ts)
  <2>1. DOMAIN c = 1..Len(ts) /\ c = [i \in 1..Len(ts) |-> c[i]]
    BY <1>2
  <2> HIDE DEF c
  <2>2. c \in [1..Len(ts) -> Token]
    BY <1>3, <2>1 DEF c
  <2>3. c \in Seq(Token) /\ Len(c) = Len(ts)
    BY <1>2, <2>2
  <2>4. QED
    BY <2>3 DEF c
<1>5. QED
  BY <1>3, <1>4

-----------------------------------------------------------------------------
(* The steps of a loop.                                                    *)

LEMMA Continues ==
  ASSUME Inv, Scanning, NEW ts, Suffix(ts, Current.tokens), Within(locks, Len(ts)),
         NEW kept \in Seq(Token), Quiet(kept), Continue(ts, kept, locks),
         UNCHANGED <<macros, calls, status>>, made' \in Nat
  PROVE  Inv'
<1>1. /\ Types /\ locks \in Seq(Lock) /\ Top \in Nat /\ ts \in Seq(Token) /\ Len(ts) \in Nat
      /\ Current.out \in Seq(Token) /\ Current.tokens \in Seq(Token)
  BY TopFacts DEF Inv, Types, Suffix
<1>2. PICK h \in 0..Len(locks) : pop_macro_lock(locks, Len(ts)) = SubSeq(locks, 1, h)
                                 /\ Popped(locks, h, Len(ts))
  BY <1>1, PopOnce
<1>3. locks' = SubSeq(locks, 1, h)
  BY <1>2 DEF Continue
<1> DEFINE out == Current.out \o kept
<1>4. Updated(frames', ts, out)
  BY <1>1, UpdateBoth DEF Continue
<1>5. Quiet(out)
  <2>1. Quiet(Current.out)
    BY <1>1, TopFacts DEF Inv, QuietOuts, Current, Top
  <2>2. ASSUME NEW k \in 1..Len(out) PROVE ~Own(out[k])
    <3>1. CASE k <= Len(Current.out)
      <4>1. k \in 1..Len(Current.out) /\ out[k] = Current.out[k]
        BY <1>1, <3>1
      <4>2. QED
        BY <4>1, <2>1 DEF Quiet
    <3>2. CASE k > Len(Current.out)
      <4>1. PICK m \in 1..Len(kept) : out[k] = kept[m]
        <5>1. k - Len(Current.out) \in 1..Len(kept) /\ out[k] = kept[k - Len(Current.out)]
          BY <1>1, <3>2
        <5>2. QED
          BY <5>1
      <4>2. QED
        BY <4>1 DEF Quiet
    <3>3. QED
      BY <3>1, <3>2, <1>1
  <2> HIDE DEF out
  <2>3. QED
    BY <2>2 DEF Quiet
<1>6. CoveredIn(locks', Top, ts)
  <2>1. CoveredIn(SubSeq(locks, 1, h), Top, ts)
    BY <1>1, <1>2, ScanFacts, CoveredSuffix
  <2>2. QED
    BY <2>1, <1>3
<1> HIDE DEF out
<1>7. Len(calls) = Top - 1
  BY ScanFacts
<1>8. QED
  BY <1>1, <1>2, <1>3, <1>4, <1>5, <1>6, <1>7, Moved

LEMMA OwnIsLocked ==
  ASSUME Inv, Scanning, Own(tok)
  PROVE  tok.text \in Locked(locks) /\ tok.text \in DOMAIN macros
<1>1. tok = Current.tokens[1] /\ 1 \in 1..Len(Current.tokens) /\ CoveredIn(locks, Top, Current.tokens)
  BY ScanFacts
<1>2. PICK j \in 1..Len(locks) : locks[j].macro = tok.text
  BY <1>1 DEF CoveredIn
<1>3. QED
  BY <1>2 DEF Locked, Inv, Known

LEMMA KeepStep == ASSUME Inv, Keep PROVE Inv'
<1>1. Scanning /\ UNCHANGED <<macros, calls, status>>
  BY DEF Keep
<1>2. Types /\ made \in Nat
  BY DEF Inv, Types
<1> DEFINE t == [tok EXCEPT !.dont_expand = @ \/ (Named /\ ~Expandable)]
           kept == IF Current.kind = "arg" THEN Copies(<<t>>) ELSE <<t>>
<1>3. t \in Token /\ t.text = tok.text /\ t.by = tok.by
      /\ t.dont_expand = (tok.dont_expand \/ (Named /\ ~Expandable))
  <2>1. tok \in Token
    BY <1>1, ScanFacts
  <2>2. QED
    BY <2>1 DEF Token
<1>4. ~Own(t)
  <2>1. SUFFICES ASSUME Own(t) PROVE FALSE
    OBVIOUS
  <2>2. ~tok.dont_expand /\ ~(Named /\ ~Expandable) /\ tok.by = tok.text
    BY <1>3, <2>1 DEF Own
  <2>3. tok.text \in Locked(locks) /\ tok.text \in DOMAIN macros
    BY <1>1, <2>2, OwnIsLocked DEF Own
  <2>4. QED
    BY <2>2, <2>3 DEF Named, Expandable
<1> HIDE DEF t
<1>5. kept \in Seq(Token) /\ Quiet(kept)
  <2>1. <<t>> \in Seq(Token) /\ Quiet(<<t>>) /\ Len(<<t>>) = 1
    BY <1>3, <1>4 DEF Quiet
  <2>2. Copies(<<t>>) \in Seq(Token) /\ Quiet(Copies(<<t>>))
    <3> DEFINE one == <<t>>
    <3>1. one \in Seq(Token) /\ Quiet(one)
      BY <2>1
    <3> HIDE DEF one
    <3>2. Copies(one) \in Seq(Token) /\ Quiet(Copies(one))
      BY <1>2, <3>1, CopyFacts DEF Quiet, Own
    <3>3. QED
      BY <3>2 DEF one
  <2>3. QED
    BY <2>1, <2>2
<1>6. Continue(Rest, kept, locks) /\ made' \in Nat
  <2>1. CASE Current.kind = "arg"
    <3>1. Continue(Rest, Copies(<<t>>), locks) /\ Allocate(1)
      BY <2>1 DEF Keep, t
    <3>2. QED
      BY <2>1, <3>1, <1>2 DEF Allocate
  <2>2. CASE Current.kind # "arg"
    <3>1. Continue(Rest, <<t>>, locks) /\ UNCHANGED memory
      BY <2>2 DEF Keep, t
    <3>2. QED
      BY <2>2, <3>1, <1>2 DEF memory
  <2>3. QED
    BY <2>1, <2>2
<1> HIDE DEF kept
<1>7. QED
  BY <1>1, <1>5, <1>6, ScanFacts, Continues

LEMMA Stopped ==
  ASSUME Inv, status' \in {"run", "done", "error"}, UNCHANGED <<macros, frames, calls, locks, made>>
  PROVE  Inv'
<1>1. Types' /\ Top' = Top
  BY DEF Inv, Types, Top
<1>2. /\ Nested(locks', frames') /\ (Len(calls') = Top - 1 => Ahead(locks', frames'))
      /\ Covered(locks', frames') /\ QuietOuts(frames')
      /\ Unlocked(locks', calls') /\ Known(locks', calls', macros')
  BY DEF Inv
<1>3. \A i \in 1..Len(calls') : CallFits(calls'[i])
  BY DEF Inv
<1>4. QED
  BY <1>1, <1>2, <1>3 DEF Inv

LEMMA FailStep == ASSUME Inv, Fail PROVE Inv'
  BY Stopped DEF Fail, memory

LEMMA OperandFacts ==
  ASSUME Inv, Scanning, ~NoOperand
  PROVE  Suffix(AfterOperand, Rest) /\ Suffix(AfterOperand, Current.tokens)
<1>1. Rest \in Seq(Token) /\ Suffix(Rest, Current.tokens) /\ Current.tokens \in Seq(Token)
  BY ScanFacts, TopFacts DEF Inv
<1>2. defined_args \in Seq(Token) /\ Suffix(defined_args, Rest)
  <2>1. CASE CalledNext
    <3>1. Suffix(Tail(Rest), Rest) /\ Tail(Rest) \in Seq(Token)
      BY <1>1, <2>1, SuffixTail DEF CalledNext
    <3>2. QED
      BY <1>1, <2>1, <3>1, SuffixTrans DEF defined_args
  <2>2. CASE ~CalledNext
    BY <1>1, <2>2 DEF defined_args, Suffix
  <2>3. QED
    BY <2>1, <2>2
<1>3. defined_args # <<>> /\ (CalledNext => Tail(defined_args) # <<>>)
  BY DEF NoOperand
<1> DEFINE da == defined_args
<1> HIDE DEF da
<1>4. Suffix(Tail(da), da) /\ Tail(da) \in Seq(Token)
  BY <1>2, <1>3, SuffixTail DEF da
<1> DEFINE td == Tail(da)
<1>5. Suffix(td, Rest)
  BY <1>1, <1>2, <1>4, SuffixTrans DEF da
<1>6. ASSUME CalledNext PROVE Suffix(AfterOperand, Rest)
  <2> HIDE DEF td
  <2>1. td # <<>> /\ td \in Seq(Token)
    BY <1>3, <1>4, <1>6 DEF da, td
  <2>2. Suffix(Tail(td), td)
    BY <2>1, SuffixTail
  <2>3. Suffix(Tail(td), Rest)
    BY <1>1, <1>5, <2>2, SuffixTrans
  <2>4. QED
    BY <1>6, <2>3 DEF AfterOperand, td, da
<1>7. ASSUME ~CalledNext PROVE Suffix(AfterOperand, Rest)
  BY <1>5, <1>7 DEF AfterOperand, da
<1>8. Suffix(AfterOperand, Rest)
  BY <1>6, <1>7
<1>9. QED
  BY <1>1, <1>8, SuffixTrans

LEMMA DefinedStep == ASSUME Inv, DefinedIsWhole, Defined PROVE Inv'
<1>1. CASE NoOperand
  BY <1>1, FailStep DEF Defined
<1>2. CASE ~NoOperand
  <2> DEFINE t == [tok EXCEPT !.text = "1", !.by = Source]
  <2>1. Scanning /\ UNCHANGED <<macros, calls, status>> /\ Continue(AfterOperand, <<t>>, locks)
        /\ Current.kind = "cond" /\ tok.text = "defined" /\ made' \in Nat
    BY <1>2 DEF Defined, memory, Inv, Types
  <2>2. t \in Token /\ ~Own(t)
    <3>1. tok \in Token
      BY <2>1, ScanFacts
    <3>2. Source \in Texts /\ "1" \in Texts /\ Source # "1"
      BY DEF Texts, Source
    <3>3. t \in Token /\ t.text = "1" /\ t.by = Source
      BY <3>1, <3>2 DEF Token
    <3> HIDE DEF t
    <3>4. QED
      BY <3>2, <3>3 DEF Own
  <2> HIDE DEF t
  <2>3. <<t>> \in Seq(Token) /\ Quiet(<<t>>)
    BY <2>2 DEF Quiet
  <2>4. Suffix(AfterOperand, Current.tokens)
    BY <1>2, <2>1, OperandFacts
  <2>5. Within(locks, Len(AfterOperand))
    BY <1>2, <2>1, ScanFacts DEF Within, DefinedIsWhole
  <2> DEFINE kept == <<t>>
  <2>6. kept \in Seq(Token) /\ Quiet(kept) /\ Continue(AfterOperand, kept, locks)
    BY <2>1, <2>3
  <2> HIDE DEF kept
  <2>7. QED
    BY <2>1, <2>4, <2>5, <2>6, Continues
<1>3. QED
  BY <1>1, <1>2

LEMMA MacroFacts ==
  ASSUME Types, NEW m \in DOMAIN macros
  PROVE  /\ m \in Texts /\ macros[m].kind \in {"obj", "fun", "has"} /\ macros[m].body \in Seq(Texts)
         /\ macros[m].body # <<>> => /\ macros[m].body[1] # "##"
                                     /\ macros[m].body[Len(macros[m].body)] # "##"
<1>1. PICK p \in Programs : macros = p.macros
  BY DEF Types
<1>2. /\ m \in STRING
      /\ macros[m] \in [kind : {"obj", "fun", "has"}, body : Seq(STRING)]
      /\ macros[m].body # <<>> => "##" \notin {macros[m].body[1], macros[m].body[Len(macros[m].body)]}
  BY <1>1, ProgramsAreText
<1> DEFINE b == macros[m].body
<1>3. b \in Seq(STRING) /\ macros[m].kind \in {"obj", "fun", "has"}
  BY <1>2
<1> HIDE DEF b
<1>4. b \in Seq(Texts)
  BY <1>3 DEF Texts
<1>5. QED
  BY <1>2, <1>3, <1>4 DEF b, Texts

LEMMA CoveredCons ==
  ASSUME NEW ls, NEW i, NEW s \in Seq(Token), NEW t \in Token, CoveredIn(ls, i, s), ~Own(t)
  PROVE  CoveredIn(ls, i, <<t>> \o s)
<1> DEFINE c == <<t>> \o s
<1>1. Len(c) = Len(s) + 1 /\ c[1] = t /\ \A k \in 2..Len(c) : c[k] = s[k - 1]
  OBVIOUS
<1> HIDE DEF c
<1>2. ASSUME NEW k \in 1..Len(c), Own(c[k])
      PROVE  \E j \in 1..Len(ls) : /\ ls[j].macro = c[k].text
                                   /\ ls[j].frame < i \/ (ls[j].frame = i /\ ls[j].left <= Len(c) - k)
  <2>1. k \in 2..Len(c)
    BY <1>1, <1>2
  <2> DEFINE m == k - 1
  <2>2. m \in 1..Len(s) /\ c[k] = s[m] /\ Len(c) - k = Len(s) - m
    BY <1>1, <2>1
  <2> HIDE DEF m
  <2>3. QED
    BY <1>2, <2>2 DEF CoveredIn
<1>3. QED
  BY <1>2 DEF CoveredIn, c

LEMMA HasOperatorStep == ASSUME Inv, HasOperator PROVE Inv'
<1> DEFINE ill == ~CalledNext \/ Len(Rest) < 3 \/ ~Identifier(Rest[2]) \/ Rest[3].text # ")"
<1>1. CASE ill
  BY <1>1, FailStep DEF HasOperator
<1>2. CASE ~ill
  <2> DEFINE left == Len(Rest) - 3
             number == NewToken("1", Source, made + 1, Origin(tok))
             all == Rest
             suf == SubSeq(all, 4, Len(all))
             ts == <<number>> \o suf
  <2>1. /\ Scanning /\ frames' = [frames EXCEPT ![Top].tokens = ts]
        /\ locks' = pop_macro_lock_until(locks, left + 4, 4)
        /\ Allocate(1) /\ UNCHANGED <<macros, calls, status>>
    BY <1>2 DEF HasOperator
  <2>2. /\ Types /\ Top \in Nat /\ locks \in Seq(Lock) /\ made \in Nat /\ Rest \in Seq(Token)
        /\ Len(Rest) \in Nat /\ tok \in Token /\ Suffix(Rest, Current.tokens) /\ Len(calls) = Top - 1
        /\ Within(locks, Len(Rest)) /\ CoveredIn(locks, Top, Current.tokens)
        /\ Current.tokens \in Seq(Token) /\ Current.out \in Seq(Token)
    BY <2>1, ScanFacts, TopFacts DEF Inv, Types
  <2>3. number \in Token /\ ~Own(number)
    <3>1. Origin(tok) \in Int /\ made + 1 \in Int
      BY <2>2 DEF Origin, Token
    <3>2. Source \in Texts /\ "1" \in Texts /\ Source # "1"
      BY DEF Texts, Source
    <3>3. number \in Token /\ number.text = "1" /\ number.by = Source
      BY <3>1, <3>2 DEF NewToken, Token
    <3>4. QED
      BY <3>2, <3>3 DEF Own
  <2> HIDE DEF number
  <2>4. suf \in Seq(Token) /\ Suffix(suf, Current.tokens) /\ Len(suf) = left /\ left \in Nat
    <3> HIDE DEF all
    <3>1. all \in Seq(Token) /\ Len(all) >= 3 /\ Suffix(all, Current.tokens)
      BY <1>2, <2>2 DEF all
    <3>2. 4 \in 1..(Len(all) + 1)
      BY <3>1
    <3>3. Suffix(suf, all) /\ suf \in Seq(Token) /\ Len(suf) = Len(all) - 4 + 1
      BY <3>1, <3>2, SuffixSub
    <3> HIDE DEF suf
    <3>4. Suffix(suf, Current.tokens)
      BY <2>2, <3>1, <3>3, SuffixTrans
    <3>5. QED
      BY <3>1, <3>3, <3>4 DEF all
  <2> HIDE DEF suf
  <2>5. ts \in Seq(Token) /\ Len(ts) = left + 1
    BY <2>3, <2>4
  <2>6. PICK h \in 0..Len(locks) : locks' = SubSeq(locks, 1, h) /\ Popped(locks, h, Len(ts))
    <3> DEFINE from == left + 4
    <3>1. from \in Nat /\ 4 \in 0..from /\ from - 4 + 1 = Len(ts)
      BY <2>4, <2>5
    <3>2. Within(locks, from)
      <4>1. from = Len(Rest) + 1 /\ from \in Nat /\ Len(Rest) \in Nat
        BY <2>2, <3>1
      <4> HIDE DEF from
      <4>2. ASSUME NEW i \in 1..Len(locks), locks[i].frame = Top PROVE locks[i].left <= from
        <5>1. locks[i].left \in Nat
          <6>1. locks \in Seq(Lock)
            BY <2>2
          <6>2. locks[i] \in Lock
            BY <6>1
          <6>3. QED
            BY <6>2 DEF Lock
        <5>2. locks[i].left <= Len(Rest)
          BY <2>2, <4>2 DEF Within
        <5>3. QED
          BY <4>1, <5>1, <5>2
      <4>3. QED
        BY <2>2, <4>2 DEF Within
    <3> HIDE DEF from
    <3>3. \E h \in 0..Len(locks) : /\ pop_macro_lock_until(locks, from, 4) = SubSeq(locks, 1, h)
                                   /\ Popped(locks, h, from - 4 + 1)
      BY <2>2, <3>1, <3>2, PopUntil
    <3>4. locks' = pop_macro_lock_until(locks, from, 4)
      BY <2>1 DEF from
    <3>5. QED
      BY <3>1, <3>3, <3>4
  <2>7. CoveredIn(locks', Top, ts)
    <3>1. CoveredIn(SubSeq(locks, 1, h), Top, suf)
      BY <2>2, <2>4, <2>5, <2>6, CoveredSuffix
    <3>2. QED
      BY <2>3, <2>4, <2>6, <3>1, CoveredCons
  <2>8. Updated(frames', ts, Current.out)
    BY <2>1, <2>2, <2>5, UpdateTokens
  <2> HIDE DEF ts
  <2>9. Quiet(Current.out)
    BY <2>2, TopFacts DEF Inv, QuietOuts, Current, Top
  <2>10. made' \in Nat
    BY <2>1, <2>2 DEF Allocate
  <2>11. QED
    BY <2>1, <2>2, <2>5, <2>6, <2>7, <2>8, <2>9, <2>10, Moved
<1>3. QED
  BY <1>1, <1>2

LEMMA CallsGrow ==
  ASSUME NEW ends, NEW cs \in Seq(CallOf(ends)), NEW c, NEW end, c \in CallOf(ends \cup {end})
  PROVE  Append(cs, c) \in Seq(CallOf(ends \cup {end}))
<1>1. CallOf(ends) \subseteq CallOf(ends \cup {end})
  BY DEF CallOf
<1> DEFINE C == CallOf(ends \cup {end})
<1>2. cs \in Seq(C) /\ c \in C
  <2>1. \A i \in 1..Len(cs) : cs[i] \in CallOf(ends)
    OBVIOUS
  <2>2. \A i \in 1..Len(cs) : cs[i] \in C
    BY <1>1, <2>1
  <2> DEFINE D == CallOf(ends)
  <2>3. cs \in Seq(D)
    OBVIOUS
  <2> HIDE DEF C, D
  <2>4. cs \in Seq(C)
    BY <2>2, <2>3
  <2>5. c \in C
    BY DEF C
  <2>6. QED
    BY <2>4, <2>5
<1> HIDE DEF C
<1>3. Append(cs, c) \in Seq(C)
  BY <1>2
<1>4. QED
  BY <1>3 DEF C

LEMMA Called ==
  ASSUME Inv, Scanning, Expandable, NEW args \in Seq(Token), Quiet(args),
         NEW ts, Suffix(ts, Current.tokens), NEW h, Popped(locks, h, Len(ts) + 1),
         locks' = SubSeq(locks, 1, h), calls' = Calling(args),
         frames' = [frames EXCEPT ![Top].tokens = ts], UNCHANGED <<macros, status>>, made' \in Nat
  PROVE  Inv'
<1>1. /\ Types /\ Top \in Nat \ {0} /\ locks \in Seq(Lock) /\ tok \in Token /\ Len(calls) = Top - 1
      /\ CoveredIn(locks, Top, Current.tokens) /\ Current.tokens \in Seq(Token)
      /\ ts \in Seq(Token) /\ Len(ts) \in Nat
  <2>1. Types /\ locks \in Seq(Lock)
    BY DEF Inv, Types
  <2>2. ts \in Seq(Token) /\ Len(ts) \in Nat
    BY DEF Suffix
  <2>3. QED
    BY <2>1, <2>2, ScanFacts, TopFacts
<1>2. /\ locks' \in Seq(Lock) /\ Len(locks') = h /\ h \in 0..Len(locks)
      /\ \A i \in 1..h : locks'[i] = locks[i] /\ locks[i] \in Lock
  BY <1>1, PrefixFacts DEF Popped
<1>3. Updated(frames', ts, Current.out)
  BY <1>1, UpdateTokens
<1>4. frames' \in Seq(Frame) /\ Len(frames') = Top /\ Top' = Top /\ frames' # <<>>
  BY <1>1, <1>3 DEF Updated, Top
<1> DEFINE c == [macro |-> tok.text, orig |-> Origin(tok), free_alloc_end |-> Last(chain),
                 arg |-> args, expanded |-> <<>>, body |-> macros[tok.text].body, out |-> <<>>]
           end == Last(chain)
<1>5. tok.text \in DOMAIN macros /\ tok.text \notin Locked(locks)
  BY DEF Expandable, Named
<1>6. PICK ends : calls \in Seq(CallOf(ends))
  BY <1>1 DEF Types
<1>7. calls' = Append(calls, c)
  BY DEF Calling
<1>8. c \in CallOf(ends \cup {end})
  <2>1. macros[tok.text].body \in Seq(Texts) /\ tok.text \in Texts /\ Origin(tok) \in Int
    BY <1>1, <1>5, MacroFacts DEF Token, Origin
  <2>2. QED
    BY <2>1 DEF CallOf
<1>9. CallFits(c)
  <2>1. Operands(c.body, c.out)
    BY <1>1, <1>5, MacroFacts DEF Operands
  <2>2. QED
    BY <2>1 DEF CallFits, Quiet
<1>10. c.macro = tok.text
  OBVIOUS
<1> HIDE DEF c, end
<1>11. calls' \in Seq(CallOf(ends \cup {end})) /\ Len(calls') = Top
       /\ calls'[Top] = c /\ \A i \in 1..(Top - 1) : calls'[i] = calls[i]
  <2>1. Append(calls, c) \in Seq(CallOf(ends \cup {end}))
    BY <1>6, <1>8, CallsGrow
  <2>2. QED
    BY <2>1, <1>1, <1>6, <1>7
<1>12. Types'
  <2>1. \E e : calls' \in Seq(CallOf(e))
    BY <1>11
  <2>2. QED
    BY <1>1, <1>2, <1>4, <1>11, <2>1 DEF Types
<1>13. Nested(locks', frames')
  <2>1. \A i \in 1..h : locks[i].frame = Top => locks[i].left <= Len(ts)
    <3>1. ASSUME NEW i \in 1..h, locks[i].frame = Top PROVE locks[i].left <= Len(ts)
      <4>1. locks[i].left < Len(ts) + 1 /\ locks[i].left \in Nat
        BY <1>2, <3>1 DEF Popped, Lock
      <4>2. QED
        BY <1>1, <4>1
    <3>2. QED
      BY <3>1
  <2>2. Nested(SubSeq(locks, 1, h), frames')
    BY <1>1, <1>3, <2>1, NestedUpdate DEF Inv
  <2>3. QED
    BY <2>2
<1>14. Covered(locks', frames')
  <2>1. CoveredIn(SubSeq(locks, 1, h), Top, ts)
    <3> DEFINE v == Len(ts) + 1
    <3>1. v \in Nat /\ Len(ts) <= v /\ Popped(locks, h, v)
      BY <1>1
    <3> HIDE DEF v
    <3>2. QED
      BY <1>1, <3>1, CoveredSuffix
  <2>2. Covered(SubSeq(locks, 1, h), frames')
    BY <1>1, <1>3, <2>1, CoveredUpdate DEF Inv
  <2>3. QED
    BY <2>2
<1>15. QuietOuts(frames')
  <2>1. ASSUME NEW i \in 1..Top PROVE Quiet(frames'[i].out)
    <3>1. Quiet(frames[i].out)
      BY DEF Inv, QuietOuts, Top
    <3>2. frames'[i].out = frames[i].out
      BY <1>1, <1>3 DEF Updated, Current
    <3>3. QED
      BY <3>1, <3>2
  <2>2. QED
    BY <2>1, <1>4 DEF QuietOuts
<1>16. Unlocked(locks', calls')
  <2>1. ASSUME NEW i \in 1..Top, NEW j \in 1..h, locks[j].macro = calls'[i].macro PROVE locks[j].frame > i
    <3>1. CASE i = Top
      BY <1>5, <1>10, <1>11, <1>2, <2>1, <3>1 DEF Locked
    <3>2. CASE i # Top
      <4>1. i \in 1..Len(calls) /\ calls'[i] = calls[i] /\ j \in 1..Len(locks)
        BY <1>1, <1>2, <1>11, <3>2
      <4>2. QED
        BY <4>1, <2>1 DEF Inv, Unlocked
    <3>3. QED
      BY <3>1, <3>2
  <2>2. QED
    BY <2>1, <1>2, <1>11 DEF Unlocked
<1>17. Known(locks', calls', macros')
  <2>1. \A i \in 1..Top : calls'[i].macro \in DOMAIN macros
    <3>1. \A i \in 1..(Top - 1) : calls[i].macro \in DOMAIN macros
      BY <1>1 DEF Inv, Known
    <3>2. \A i \in 1..Top : i = Top \/ i \in 1..(Top - 1)
      BY <1>1
    <3>3. calls'[Top].macro \in DOMAIN macros
      BY <1>5, <1>10, <1>11
    <3>4. \A i \in 1..(Top - 1) : calls'[i].macro \in DOMAIN macros
      BY <1>11, <3>1
    <3>5. QED
      BY <3>2, <3>3, <3>4
  <2>2. \A i \in 1..h : locks[i].macro \in DOMAIN macros
    BY <1>2 DEF Inv, Known
  <2>3. QED
    BY <2>1, <2>2, <1>2, <1>11 DEF Known
<1>18. ASSUME NEW i \in 1..Len(calls') PROVE CallFits(calls'[i])
  <2>1. CASE i = Top
    BY <2>1, <1>9, <1>11
  <2>2. CASE i # Top
    <3>1. i \in 1..Len(calls) /\ calls'[i] = calls[i]
      BY <1>1, <1>11, <2>2
    <3>2. QED
      BY <3>1 DEF Inv
  <2>3. QED
    BY <2>1, <2>2
<1>19. ~(Len(calls') = Top' - 1)
  BY <1>1, <1>4, <1>11
<1>20. QED
  BY <1>12, <1>13, <1>14, <1>15, <1>16, <1>17, <1>18, <1>19 DEF Inv

LEMMA BeginObjectLikeStep == ASSUME Inv, BeginObjectLike PROVE Inv'
<1>1. /\ Scanning /\ Expandable /\ calls' = Calling(<<>>)
      /\ frames' = [frames EXCEPT ![Top].tokens = Rest]
      /\ UNCHANGED <<macros, locks, made, status>>
  BY DEF BeginObjectLike, memory
<1>2. /\ locks \in Seq(Lock) /\ made \in Nat /\ Suffix(Rest, Current.tokens)
      /\ Within(locks, Len(Rest)) /\ Len(Rest) \in Nat
  BY <1>1, ScanFacts DEF Inv, Types
<1> DEFINE h == Len(locks)
<1>3. h \in Nat /\ locks' = SubSeq(locks, 1, h)
  BY <1>1, <1>2
<1>4. Popped(locks, h, Len(Rest) + 1)
  <2>1. ASSUME NEW k \in 1..h, locks[k].frame = Top PROVE locks[k].left < Len(Rest) + 1
    <3>1. locks[k].left <= Len(Rest) /\ locks[k] \in Lock
      BY <1>2, <2>1 DEF Within
    <3>2. locks[k].left \in Nat
      BY <3>1 DEF Lock
    <3>3. QED
      BY <1>2, <3>1, <3>2
  <2>2. QED
    BY <1>3, <2>1 DEF Popped
<1> HIDE DEF h
<1> DEFINE args == <<>>
<1>5. args \in Seq(Token) /\ Quiet(args) /\ calls' = Calling(args) /\ made' \in Nat
  BY <1>1, <1>2 DEF Quiet
<1> HIDE DEF args
<1>6. QED
  BY <1>1, <1>2, <1>3, <1>4, <1>5, Called

LEMMA ClosingFacts ==
  ASSUME NEW ts \in Seq(Token), Closings(ts) # {}
  PROVE  Closing(ts) \in 1..Len(ts)
<1> DEFINE S == Closings(ts)
<1>1. S \subseteq 1..Len(ts) /\ S \in SUBSET Nat
  BY DEF Closings
<1>2. S # {}
  OBVIOUS
<1> HIDE DEF S
<1>3. \E x \in S : \A y \in S : x <= y
  BY <1>1, <1>2, Least
<1>4. Min(S) \in S
  BY <1>3 DEF Min
<1>5. QED
  BY <1>1, <1>4 DEF Closing, S

\* Whatever is read as an argument and came from the body of a macro of its
\* own name is marked: its lock is there when it is read.
LEMMA ArgumentsAreQuiet ==
  ASSUME Inv, Scanning, Closings(Rest) # {}, NEW args, args = prepare_funclike_args(Rest, locks)
  PROVE  args \in Seq(Token) /\ Len(args) = Closing(Rest) /\ Quiet(args)
<1> DEFINE ts == Rest
           LocksAt(i) == pop_macro_lock_until(locks, Len(ts), i)
           Paint(i) == [ts[i] EXCEPT !.dont_expand = @ \/ ts[i].text \in Locked(LocksAt(i))]
           n == Closing(ts)
<1>1. args = [i \in 1..n |-> Paint(i)]
  BY DEF prepare_funclike_args
<1>2. /\ ts \in Seq(Token) /\ Len(ts) \in Nat /\ locks \in Seq(Lock) /\ Top \in Nat
      /\ Suffix(ts, Current.tokens) /\ Within(locks, Len(ts)) /\ CoveredIn(locks, Top, Current.tokens)
      /\ Current.tokens \in Seq(Token)
  BY ScanFacts, TopFacts DEF Inv, Types
<1>3. n \in 1..Len(ts)
  <2>1. Closings(ts) # {}
    OBVIOUS
  <2> HIDE DEF ts
  <2>2. QED
    BY <1>2, <2>1, ClosingFacts
<1> HIDE DEF ts, n
<1>4. ASSUME NEW i \in 1..n PROVE Paint(i) \in Token /\ ~Own(Paint(i))
  <2>1. ts[i] \in Token /\ i \in 1..Len(ts)
    BY <1>2, <1>3
  <2> DEFINE lk == Locked(LocksAt(i))
             p == [ts[i] EXCEPT !.dont_expand = @ \/ ts[i].text \in lk]
  <2> HIDE DEF lk
  <2>2. p \in Token /\ p.text = ts[i].text /\ p.by = ts[i].by
        /\ p.dont_expand = (ts[i].dont_expand \/ ts[i].text \in lk)
    BY <2>1 DEF Token
  <2> HIDE DEF p
  <2>3. ASSUME Own(p) PROVE FALSE
    <3>1. ts[i].by = ts[i].text /\ ~ts[i].dont_expand /\ ts[i].text \notin lk
      BY <2>2, <2>3 DEF Own
    <3>2. Own(ts[i])
      BY <3>1 DEF Own
    <3>3. i \in 0..Len(ts)
      BY <2>1
    <3>4. PICK h \in 0..Len(locks) : LocksAt(i) = SubSeq(locks, 1, h) /\ Popped(locks, h, Len(ts) - i + 1)
      BY <1>2, <3>3, PopUntil
    <3>5. CoveredIn(SubSeq(locks, 1, Len(locks)), Top, ts)
      <4> DEFINE m == Len(locks)
                 v == Len(ts) + 1
      <4>1. Popped(locks, m, v)
        <5>1. ASSUME NEW k \in 1..m, locks[k].frame = Top PROVE locks[k].left < v
          <6>1. locks[k].left <= Len(ts) /\ locks[k] \in Lock
            BY <1>2, <5>1 DEF Within
          <6>2. locks[k].left \in Nat
            BY <6>1 DEF Lock
          <6>3. QED
            BY <1>2, <6>1, <6>2
        <5>2. QED
          BY <1>2, <5>1 DEF Popped
      <4>2. v \in Nat /\ Len(ts) <= v
        BY <1>2
      <4> HIDE DEF m, v
      <4>3. CoveredIn(SubSeq(locks, 1, m), Top, ts)
        BY <1>2, <4>1, <4>2, CoveredSuffix
      <4>4. QED
        BY <4>3 DEF m
    <3>6. SubSeq(locks, 1, Len(locks)) = locks
      BY <1>2
    <3>7. PICK j \in 1..Len(locks) : /\ locks[j].macro = ts[i].text
                                     /\ locks[j].frame < Top \/ (locks[j].frame = Top /\ locks[j].left <= Len(ts) - i)
      BY <2>1, <3>2, <3>5, <3>6 DEF CoveredIn
    <3>8. locks[j].left \in Nat
      <4>1. locks[j] \in Lock
        BY <1>2
      <4>2. QED
        BY <4>1 DEF Lock
    <3>9. ASSUME j > h PROVE FALSE
      <4>1. locks[j].frame = Top /\ locks[j].left >= Len(ts) - i + 1
        BY <3>4, <3>9 DEF Popped
      <4>2. QED
        BY <4>1, <3>7, <3>8, <1>2
    <3>10. j \in 1..h
      BY <3>9
    <3>11. LocksAt(i)[j] = locks[j] /\ Len(LocksAt(i)) = h
      BY <3>4, <3>10, <1>2, PrefixFacts
    <3>12. ts[i].text \in lk
      BY <3>7, <3>10, <3>11 DEF Locked, lk
    <3>13. QED
      BY <3>1, <3>12
  <2>4. QED
    BY <2>2, <2>3 DEF p, lk
<1> HIDE DEF Paint
<1>5. args \in Seq(Token) /\ Len(args) = n /\ \A i \in 1..n : args[i] = Paint(i)
  BY <1>1, <1>2, <1>3, <1>4
<1>6. QED
  BY <1>4, <1>5 DEF Quiet, n, ts

LEMMA BeginFunctionLikeStep == ASSUME Inv, BeginFunctionLike PROVE Inv'
<1>1. CASE Closings(Rest) = {}
  BY <1>1, FailStep DEF BeginFunctionLike
<1>2. CASE Closings(Rest) # {}
  <2> DEFINE args == prepare_funclike_args(Rest, locks)
             close == Len(args)
             inner == SubSeq(args, 2, close - 1)
             copies == Copies(inner)
             ts == SubSeq(Rest, close + 1, Len(Rest))
  <2>1. /\ Scanning /\ Expandable /\ calls' = Calling(copies)
        /\ made' = made + Len(copies)
        /\ frames' = [frames EXCEPT ![Top].tokens = ts]
        /\ locks' = pop_macro_lock_until(locks, Len(Rest), close)
        /\ UNCHANGED <<macros, status>>
    BY <1>2 DEF BeginFunctionLike
  <2>2. /\ Rest \in Seq(Token) /\ Len(Rest) \in Nat /\ locks \in Seq(Lock) /\ Top \in Nat
        /\ Suffix(Rest, Current.tokens) /\ Within(locks, Len(Rest)) /\ made \in Nat
        /\ Current.tokens \in Seq(Token)
    BY <2>1, ScanFacts, TopFacts DEF Inv, Types
  <2>3. args \in Seq(Token) /\ close \in 1..Len(Rest) /\ Quiet(args)
    <3>1. args \in Seq(Token) /\ Len(args) = Closing(Rest) /\ Quiet(args)
      BY <1>2, <2>1, ArgumentsAreQuiet
    <3>2. QED
      BY <1>2, <2>2, <3>1, ClosingFacts
  <2> HIDE DEF args
  <2>4. inner \in Seq(Token) /\ Quiet(inner)
    <3>1. close \in Nat
      BY <2>2, <2>3
    <3>2. inner \in Seq(Token) /\ \A i \in 1..Len(inner) : i + 1 \in 1..Len(args) /\ inner[i] = args[i + 1]
      BY <2>3, <3>1
    <3> HIDE DEF inner
    <3>3. QED
      BY <2>3, <3>2 DEF Quiet
  <2> HIDE DEF inner
  <2>5. copies \in Seq(Token) /\ Quiet(copies) /\ made' \in Nat
    <3>1. /\ copies \in Seq(Token) /\ Len(copies) = Len(inner)
          /\ \A i \in 1..Len(inner) : /\ copies[i].text = inner[i].text /\ copies[i].by = inner[i].by
                                      /\ copies[i].dont_expand = inner[i].dont_expand
      BY <2>2, <2>4, CopyFacts
    <3> HIDE DEF copies
    <3>2. Quiet(copies)
      BY <2>4, <3>1 DEF Quiet, Own
    <3>3. made' \in Nat
      BY <2>1, <2>2, <3>1
    <3>4. QED
      BY <3>1, <3>2, <3>3
  <2> HIDE DEF copies
  <2>6. Suffix(ts, Current.tokens) /\ Len(ts) = Len(Rest) - close /\ Len(ts) \in Nat
    <3> DEFINE m == close + 1
    <3>1. m \in 1..(Len(Rest) + 1)
      BY <2>2, <2>3
    <3> HIDE DEF m
    <3>2. Suffix(SubSeq(Rest, m, Len(Rest)), Rest) /\ Len(SubSeq(Rest, m, Len(Rest))) = Len(Rest) - m + 1
      BY <2>2, <3>1, SuffixSub
    <3>3. Suffix(SubSeq(Rest, m, Len(Rest)), Current.tokens)
      BY <2>2, <3>2, SuffixTrans
    <3>4. QED
      BY <2>2, <2>3, <3>2, <3>3 DEF m
  <2>7. PICK h \in 0..Len(locks) : locks' = SubSeq(locks, 1, h) /\ Popped(locks, h, Len(ts) + 1)
    <3> HIDE DEF close, ts
    <3>1. close \in 0..Len(Rest) /\ Len(Rest) - close + 1 = Len(ts) + 1
      BY <2>3, <2>6
    <3>2. \E h \in 0..Len(locks) : /\ pop_macro_lock_until(locks, Len(Rest), close) = SubSeq(locks, 1, h)
                                   /\ Popped(locks, h, Len(Rest) - close + 1)
      BY <2>2, <3>1, PopUntil
    <3>3. QED
      BY <2>1, <3>1, <3>2
  <2> HIDE DEF ts, close
  <2>8. QED
    BY <2>1, <2>5, <2>6, <2>7, Called
<1>3. QED
  BY <1>1, <1>2

-----------------------------------------------------------------------------
(* The steps of a call.                                                    *)

LEMMA CallFacts ==
  ASSUME Inv, Substituting
  PROVE  /\ Len(calls) = Top /\ Top \in Nat \ {0} /\ Top \in 1..Len(calls) /\ made \in Nat
         /\ CallFits(Call) /\ Call.macro \in DOMAIN macros /\ Call.macro \in Texts /\ Call.orig \in Int
         /\ Call.body \in Seq(Texts) /\ Call.out \in Seq(Token) /\ Call.arg \in Seq(Token)
         /\ Call.expanded \in Seq(Seq(Token))
<1>1. Types /\ Len(calls) = Top /\ Top \in Nat \ {0} /\ Top \in 1..Len(calls) /\ made \in Nat
  BY TopFacts DEF Inv, Types, Substituting
<1>2. PICK ends : calls \in Seq(CallOf(ends))
  BY <1>1 DEF Types
<1>3. Call \in CallOf(ends)
  <2> DEFINE C == CallOf(ends)
  <2>1. calls \in Seq(C)
    BY <1>2
  <2> HIDE DEF C
  <2>2. Call \in C
    BY <1>1, <2>1 DEF Call
  <2>3. QED
    BY <2>2 DEF C
<1>4. CallFits(Call) /\ Call.macro \in DOMAIN macros
  BY <1>1 DEF Inv, Known, Call
<1>5. QED
  BY <1>1, <1>3, <1>4 DEF CallOf

LEMMA Substituted ==
  ASSUME Inv, Substituting, NEW rest \in Seq(Texts), NEW out \in Seq(Token), Operands(rest, out),
         \A k \in 1..Len(out) : Own(out[k]) => out[k].by = Call.macro,
         Substitute(rest, out), made' \in Nat
  PROVE  Inv'
<1>1. Types /\ Len(calls) = Top /\ Top \in Nat \ {0} /\ Top \in 1..Len(calls) /\ CallFits(Call)
  BY CallFacts DEF Inv
<1>2. PICK ends : calls \in Seq(CallOf(ends))
  BY <1>1 DEF Types
<1>3. UNCHANGED <<macros, frames, locks, status>>
      /\ calls' = [calls EXCEPT ![Top].body = rest, ![Top].out = out]
  BY DEF Substitute
<1> DEFINE c == [Call EXCEPT !.body = rest, !.out = out]
           C == CallOf(ends)
<1>4. Call \in C
  <2>1. calls \in Seq(C)
    BY <1>2
  <2> HIDE DEF C
  <2>2. QED
    BY <1>1, <2>1 DEF Call
<1>5. c \in C /\ c.body = rest /\ c.out = out /\ c.macro = Call.macro /\ c.arg = Call.arg
      /\ c.expanded = Call.expanded
  BY <1>4 DEF CallOf
<1>6. calls' = [calls EXCEPT ![Top] = c]
  <2>1. Top \in DOMAIN calls /\ calls[Top] \in C
    BY <1>1, <1>4 DEF Call
  <2>2. QED
    BY <1>3, <2>1 DEF Call, CallOf
<1>7. CallFits(c)
  BY <1>1, <1>5 DEF CallFits
<1> HIDE DEF c
<1>8. calls' \in Seq(C) /\ Len(calls') = Top /\ calls'[Top] = c
      /\ \A i \in 1..Top : i # Top => calls'[i] = calls[i]
  <2>1. calls \in Seq(C)
    BY <1>2
  <2> HIDE DEF C
  <2>2. QED
    BY <1>1, <1>5, <1>6, <2>1
<1>9. \A i \in 1..Top : calls'[i].macro = calls[i].macro
  BY <1>5, <1>8 DEF Call
<1>10. ASSUME NEW i \in 1..Len(calls') PROVE CallFits(calls'[i])
  <2>1. CASE i = Top
    BY <2>1, <1>7, <1>8
  <2>2. CASE i # Top
    <3>1. i \in 1..Len(calls) /\ calls'[i] = calls[i]
      BY <1>1, <1>8, <2>2
    <3>2. QED
      BY <3>1 DEF Inv
  <2>3. QED
    BY <2>1, <2>2
<1>11. Types' /\ Top' = Top
  <2>1. \E e : calls' \in Seq(CallOf(e))
    BY <1>8
  <2>2. QED
    BY <1>1, <1>3, <1>8, <2>1 DEF Types, Top
<1>12. Unlocked(locks', calls') /\ Known(locks', calls', macros')
  <2>1. locks' = locks /\ macros' = macros
    BY <1>3
  <2>2. Unlocked(locks, calls')
    BY <1>1, <1>8, <1>9 DEF Inv, Unlocked
  <2>3. Known(locks, calls', macros)
    BY <1>1, <1>8, <1>9 DEF Inv, Known
  <2>4. QED
    BY <2>1, <2>2, <2>3
<1>13. Nested(locks', frames') /\ Covered(locks', frames') /\ QuietOuts(frames')
  BY <1>3 DEF Inv
<1>14. ~(Len(calls') = Top' - 1)
  BY <1>1, <1>8, <1>11
<1>15. QED
  BY <1>10, <1>11, <1>12, <1>13, <1>14 DEF Inv

LEMMA BodyTail ==
  ASSUME NEW body \in Seq(Texts), body # <<>>, NEW before, NEW out, Operands(body, before), out # <<>>
  PROVE  Tail(body) \in Seq(Texts) /\ Operands(Tail(body), out)
<1>1. Tail(body) \in Seq(Texts) /\ Len(Tail(body)) = Len(body) - 1
      /\ \A i \in 1..Len(Tail(body)) : Tail(body)[i] = body[i + 1]
  BY HeadTailProperties
<1> DEFINE t == Tail(body)
<1> HIDE DEF t
<1>2. ASSUME t # <<>> PROVE t[Len(t)] = body[Len(body)]
  BY <1>1, <1>2 DEF t
<1>3. QED
  BY <1>1, <1>2 DEF Operands, t

LEMMA ExpandArgStep == ASSUME Inv, ExpandArg PROVE Inv'
<1>1. /\ Substituting /\ frames' = Append(frames, Running("arg", Call.arg))
      /\ UNCHANGED <<macros, calls, locks, made, status>>
  BY DEF ExpandArg, memory
<1>2. /\ Types /\ Len(calls) = Top /\ Top \in Nat \ {0} /\ Call.arg \in Seq(Token) /\ CallFits(Call)
      /\ frames \in Seq(Frame) /\ Len(frames) = Top /\ locks \in Seq(Lock)
  BY <1>1, CallFacts DEF Inv, Types, Top
<1> DEFINE f == Running("arg", Call.arg)
<1>3. f \in Frame /\ f.tokens = Call.arg /\ f.out = <<>> /\ f.start = Len(locks)
  BY <1>2 DEF Running, Frame, NULL
<1> HIDE DEF f
<1>4. frames' \in Seq(Frame) /\ Len(frames') = Top + 1 /\ frames'[Top + 1] = f
      /\ \A i \in 1..Top : frames'[i] = frames[i]
  BY <1>1, <1>2, <1>3 DEF f
<1> DEFINE n == Top + 1
<1>5. n \in Nat /\ Top' = n /\ Len(calls') = n - 1 /\ Len(frames') = n /\ frames'[n] = f
      /\ \A i \in 1..n : i = n \/ i \in 1..Top
  BY <1>1, <1>2, <1>4 DEF Top
<1>6. Types'
  <2>1. frames' # <<>>
    BY <1>4, <1>2
  <2>2. QED
    BY <1>1, <1>2, <1>4, <1>5, <2>1 DEF Types
<1>7. \A j \in 1..Len(locks) : locks[j].frame \in 1..Top
  BY <1>2 DEF Inv, Nested, Placed
<1>8. Nested(locks, frames')
  <2>1. Placed(locks, frames')
    BY <1>2, <1>4, <1>7 DEF Inv, Nested, Placed
  <2>2. ASSUME NEW i \in 1..n
        PROVE  /\ frames'[i].start \in 0..Len(locks)
               /\ \A j \in 1..Len(locks) : locks[j].frame < i <=> j <= frames'[i].start
    <3>1. CASE i = n
      BY <1>2, <1>3, <1>5, <1>7, <3>1
    <3>2. CASE i # n
      <4>1. i \in 1..Top /\ frames'[i] = frames[i]
        BY <1>4, <1>5, <3>2
      <4>2. QED
        BY <1>2, <4>1 DEF Inv, Nested, Counted
    <3>3. QED
      BY <3>1, <3>2
  <2>3. Counted(locks, frames')
    BY <2>2, <1>5 DEF Counted
  <2>4. QED
    BY <2>1, <2>3 DEF Inv, Nested
<1>9. Ahead(locks, frames')
  BY <1>2, <1>5, <1>7 DEF Ahead
<1>10. ASSUME NEW i \in 1..Len(frames') PROVE CoveredIn(locks, i, frames'[i].tokens) /\ Quiet(frames'[i].out)
  <2>1. CASE i = n
    BY <1>2, <1>3, <1>5, <2>1 DEF CallFits, CoveredIn, Quiet
  <2>2. CASE i # n
    <3>1. i \in 1..Top /\ frames'[i] = frames[i]
      BY <1>4, <1>5, <2>2
    <3>2. QED
      BY <1>2, <3>1 DEF Inv, Covered, QuietOuts
  <2>3. QED
    BY <2>1, <2>2
<1>11. Covered(locks, frames') /\ QuietOuts(frames')
  BY <1>10 DEF Covered, QuietOuts
<1>12. \A i \in 1..Len(calls') : CallFits(calls'[i])
  BY <1>1 DEF Inv
<1>13. Unlocked(locks, calls) /\ Known(locks, calls, macros)
  BY DEF Inv
<1> HIDE DEF n
<1>14. QED
  BY <1>1, <1>6, <1>8, <1>9, <1>11, <1>12, <1>13 DEF Inv

LEMMA Appended ==
  ASSUME NEW m, NEW out \in Seq(Token), NEW ts \in Seq(Token),
         \A k \in 1..Len(out) : Own(out[k]) => out[k].by = m,
         \A k \in 1..Len(ts) : Own(ts[k]) => ts[k].by = m
  PROVE  /\ out \o ts \in Seq(Token) /\ (ts # <<>> => out \o ts # <<>>)
         /\ \A k \in 1..Len(out \o ts) : Own((out \o ts)[k]) => (out \o ts)[k].by = m
<1> DEFINE s == out \o ts
<1>1. s \in Seq(Token) /\ Len(s) = Len(out) + Len(ts)
      /\ \A k \in 1..Len(s) : s[k] = IF k <= Len(out) THEN out[k] ELSE ts[k - Len(out)]
  OBVIOUS
<1>2. ts # <<>> => s # <<>>
  OBVIOUS
<1> HIDE DEF s
<1>3. ASSUME NEW k \in 1..Len(s), Own(s[k]) PROVE s[k].by = m
  <2>1. CASE k <= Len(out)
    BY <1>1, <1>3, <2>1
  <2>2. CASE k > Len(out)
    <3> DEFINE i == k - Len(out)
    <3>1. i \in 1..Len(ts) /\ s[k] = ts[i]
      BY <1>1, <2>2
    <3> HIDE DEF i
    <3>2. QED
      BY <1>3, <3>1
  <2>3. QED
    BY <2>1, <2>2, <1>1
<1>4. QED
  BY <1>1, <1>2, <1>3 DEF s

LEMMA UseArgStep == ASSUME Inv, UseArg PROVE Inv'
<1>1. Substituting /\ AtParam(1)
  BY DEF UseArg
<1>2. PICK ts \in IF AtPaste(2) THEN {Call.arg} ELSE ToSet(Call.expanded) :
        /\ Substitute(Tail(Body), Call.out \o Copies(IF ts = <<>> THEN Marker ELSE ts))
        /\ Allocate(Len(Copies(IF ts = <<>> THEN Marker ELSE ts)))
  BY DEF UseArg
<1>3. /\ made \in Nat /\ CallFits(Call) /\ Call.body \in Seq(Texts) /\ Call.out \in Seq(Token)
      /\ Call.arg \in Seq(Token) /\ Call.expanded \in Seq(Seq(Token))
  BY <1>1, CallFacts
<1>4. ts \in Seq(Token) /\ Quiet(ts)
  <2>1. CASE AtPaste(2)
    BY <1>3, <2>1 DEF CallFits
  <2>2. CASE ~AtPaste(2)
    <3>1. PICK k \in 1..Len(Call.expanded) : ts = Call.expanded[k]
      BY <1>3, <2>2 DEF ToSet
    <3>2. Quiet(Call.expanded[k])
      BY <1>3 DEF CallFits
    <3> DEFINE T == Seq(Token)
    <3>3. Call.expanded[k] \in T
      <4>1. Call.expanded \in Seq(T)
        BY <1>3
      <4> HIDE DEF T
      <4>2. QED
        BY <4>1
    <3>4. QED
      BY <3>1, <3>2, <3>3
  <2>3. QED
    BY <2>1, <2>2
<1> DEFINE given == IF ts = <<>> THEN Marker ELSE ts
           used == Copies(given)
<1>5. given \in Seq(Token) /\ Quiet(given) /\ given # <<>>
  <2> DEFINE t == NewToken(PMark, Source, NULL, NULL)
  <2>1. t \in Token /\ t.text = PMark /\ t.by = Source
    BY DEF NewToken, Token, Texts, NULL
  <2>2. ~Own(t)
    BY <2>1 DEF Own, PMark, Source
  <2> HIDE DEF t
  <2>3. <<t>> \in Seq(Token) /\ Quiet(<<t>>) /\ <<t>> # <<>>
    BY <2>1, <2>2 DEF Quiet
  <2>4. Marker \in Seq(Token) /\ Quiet(Marker) /\ Marker # <<>>
    BY <2>3 DEF Marker, t
  <2>5. QED
    BY <1>4, <2>4
<1> HIDE DEF given
<1>6. used \in Seq(Token) /\ Quiet(used) /\ used # <<>>
  <2>1. /\ used \in Seq(Token) /\ Len(used) = Len(given)
        /\ \A i \in 1..Len(given) : /\ used[i].text = given[i].text /\ used[i].by = given[i].by
                                    /\ used[i].dont_expand = given[i].dont_expand
    BY <1>3, <1>5, CopyFacts
  <2> HIDE DEF used
  <2>2. Quiet(used)
    BY <1>5, <2>1 DEF Quiet, Own
  <2>3. Len(given) # 0
    BY <1>5
  <2>4. QED
    BY <2>1, <2>2, <2>3
<1> HIDE DEF used
<1>7. Substitute(Tail(Body), Call.out \o used) /\ Allocate(Len(used))
  BY <1>2 DEF used, given
<1>8. made' \in Nat
  BY <1>3, <1>6, <1>7 DEF Allocate
<1> DEFINE out == Call.out \o used
<1>9. out \in Seq(Token) /\ out # <<>> /\ \A k \in 1..Len(out) : Own(out[k]) => out[k].by = Call.macro
  <2>1. /\ \A k \in 1..Len(Call.out) : Own(Call.out[k]) => Call.out[k].by = Call.macro
        /\ \A k \in 1..Len(used) : Own(used[k]) => used[k].by = Call.macro
    BY <1>3, <1>6 DEF CallFits, Quiet
  <2> DEFINE m == Call.macro
             co == Call.out
  <2>2. co \in Seq(Token) /\ \A k \in 1..Len(co) : Own(co[k]) => co[k].by = m
    BY <1>3, <2>1
  <2>3. \A k \in 1..Len(used) : Own(used[k]) => used[k].by = m
    BY <2>1
  <2> HIDE DEF m, co
  <2>4. /\ co \o used \in Seq(Token) /\ co \o used # <<>>
        /\ \A k \in 1..Len(co \o used) : Own((co \o used)[k]) => (co \o used)[k].by = m
    BY <1>6, <2>2, <2>3, Appended
  <2>5. QED
    BY <2>4 DEF m, co
<1> HIDE DEF out
<1>10. Body \in Seq(Texts) /\ Body # <<>> /\ Operands(Body, Call.out)
  BY <1>1, <1>3 DEF Body, CallFits, AtParam
<1>11. Tail(Body) \in Seq(Texts) /\ Operands(Tail(Body), out)
  BY <1>9, <1>10, BodyTail
<1>12. Substitute(Tail(Body), out)
  BY <1>7 DEF out
<1>13. QED
  BY <1>1, <1>8, <1>9, <1>11, <1>12, Substituted

LEMMA UseOtherStep == ASSUME Inv, UseOther PROVE Inv'
<1> DEFINE t == NewToken(Body[1], Call.macro, made + 1, NULL)
           out == Append(Call.out, t)
<1>1. Substituting /\ Body # <<>> /\ Substitute(Tail(Body), out) /\ Allocate(1)
  BY DEF UseOther
<1>2. /\ made \in Nat /\ CallFits(Call) /\ Call.body \in Seq(Texts) /\ Call.out \in Seq(Token)
      /\ Call.macro \in Texts
  BY <1>1, CallFacts
<1>3. Body \in Seq(Texts) /\ Operands(Body, Call.out) /\ Body[1] \in Texts
  BY <1>1, <1>2 DEF Body, CallFits
<1>4. t \in Token /\ t.by = Call.macro
  BY <1>2, <1>3 DEF NewToken, Token, NULL
<1> HIDE DEF t
<1>5. out \in Seq(Token) /\ out # <<>> /\ \A k \in 1..Len(out) : Own(out[k]) => out[k].by = Call.macro
  <2>1. out \in Seq(Token) /\ Len(out) = Len(Call.out) + 1 /\ out[Len(out)] = t
        /\ \A k \in 1..Len(Call.out) : out[k] = Call.out[k]
    BY <1>2, <1>4
  <2>2. \A k \in 1..Len(Call.out) : Own(Call.out[k]) => Call.out[k].by = Call.macro
    BY <1>2 DEF CallFits
  <2> HIDE DEF out
  <2>3. \A k \in 1..Len(out) : k = Len(out) \/ k \in 1..Len(Call.out)
    BY <1>2, <2>1
  <2>4. out # <<>>
    BY <1>2, <2>1
  <2>5. QED
    BY <1>4, <2>1, <2>2, <2>3, <2>4
<1> HIDE DEF out
<1>6. Tail(Body) \in Seq(Texts) /\ Operands(Tail(Body), out)
  BY <1>1, <1>3, <1>5, BodyTail
<1>7. made' \in Nat
  BY <1>1, <1>2 DEF Allocate
<1>8. QED
  BY <1>1, <1>5, <1>6, <1>7, Substituted

LEMMA PasteMarkerStep == ASSUME Inv, PasteMarker PROVE Inv'
<1>1. Substituting /\ AtPaste(1) /\ Substitute(Tail(Body), Call.out) /\ made' = made
  BY DEF PasteMarker, memory
<1>2. made \in Nat /\ CallFits(Call) /\ Call.body \in Seq(Texts) /\ Call.out \in Seq(Token)
  BY <1>1, CallFacts
<1>3. Body \in Seq(Texts) /\ Operands(Body, Call.out) /\ Body # <<>> /\ Body[1] = "##"
  BY <1>1, <1>2 DEF Body, CallFits, AtPaste
<1>4. Call.out # <<>> /\ \A k \in 1..Len(Call.out) : Own(Call.out[k]) => Call.out[k].by = Call.macro
  BY <1>2, <1>3 DEF Operands, CallFits
<1>5. Tail(Body) \in Seq(Texts) /\ Operands(Tail(Body), Call.out)
  BY <1>3, <1>4, BodyTail
<1>6. QED
  BY <1>1, <1>2, <1>4, <1>5, Substituted

\* What ## makes of the last token so far and ts: the pasted token, which
\* stems from the body, and the rest of ts.
LEMMA PastedFacts ==
  ASSUME Inv, Substituting, Call.out # <<>>, NEW ts \in Seq(Token), ts # <<>>,
         Quiet(ts) \/ Len(ts) = 1, Spelled(ts) \in DOMAIN Glue, NEW out,
         out = Pasted(ts) \o [i \in 1..(Len(ts) - 1) |-> [ts[i + 1] EXCEPT !.id = made + 1 + i]]
  PROVE  out \in Seq(Token) /\ out # <<>> /\ \A k \in 1..Len(out) : Own(out[k]) => out[k].by = Call.macro
<1>1. /\ made \in Nat /\ CallFits(Call) /\ Call.out \in Seq(Token) /\ Call.macro \in Texts
  BY CallFacts
<1> DEFINE co == Call.out
           origin == IF Lhs.origin # NULL THEN Lhs.origin ELSE made + 1
           t == NewToken(Glue[Spelled(ts)], Call.macro, Lhs.id, origin)
           head == Append(Front(co), t)
           tail == [i \in 1..(Len(ts) - 1) |-> [ts[i + 1] EXCEPT !.id = made + 1 + i]]
<1>2. out = head \o tail
  BY DEF Pasted
<1>3. t \in Token /\ t.by = Call.macro
  <2>1. Lhs \in Token
    <3>1. Len(co) \in 1..Len(co)
      BY <1>1
    <3>2. QED
      BY <1>1, <3>1 DEF Lhs, Last
  <2>2. Glue[Spelled(ts)] \in Texts
    BY GlueIsText DEF Texts
  <2>3. Lhs.id \in Int /\ origin \in Int
    BY <1>1, <2>1 DEF Token, NULL
  <2> HIDE DEF origin
  <2>4. QED
    BY <1>1, <2>2, <2>3 DEF NewToken, Token
<1> HIDE DEF t
<1>4. head \in Seq(Token) /\ head # <<>> /\ \A k \in 1..Len(head) : Own(head[k]) => head[k].by = Call.macro
  <2> DEFINE m == Len(co) - 1
             f == Front(co)
  <2>1. m \in Nat /\ f = SubSeq(co, 1, m) /\ co \in Seq(Token) /\ m <= Len(co)
    BY <1>1 DEF Front
  <2> HIDE DEF m, f
  <2>2. f \in Seq(Token) /\ Len(f) = m /\ \A k \in 1..m : f[k] = co[k] /\ k \in 1..Len(co)
    BY <2>1
  <2>3. \A k \in 1..m : Own(co[k]) => co[k].by = Call.macro
    BY <1>1, <2>2 DEF CallFits
  <2>4. Append(f, t) \in Seq(Token) /\ Len(Append(f, t)) = m + 1 /\ Append(f, t)[m + 1] = t
        /\ \A k \in 1..m : Append(f, t)[k] = f[k]
    BY <1>3, <2>1, <2>2
  <2> DEFINE g == Append(f, t)
  <2> HIDE DEF g
  <2>5. \A k \in 1..Len(g) : k = m + 1 \/ k \in 1..m
    BY <2>1, <2>4 DEF g
  <2>6. g \in Seq(Token) /\ Len(g) = m + 1 /\ g[m + 1] = t /\ \A k \in 1..m : g[k] = co[k]
    BY <2>2, <2>4 DEF g
  <2>7. \A k \in 1..Len(g) : Own(g[k]) => g[k].by = Call.macro
    BY <1>3, <2>3, <2>5, <2>6
  <2>8. g # <<>>
    BY <2>1, <2>6
  <2>9. QED
    BY <2>6, <2>7, <2>8 DEF g, f
<1> HIDE DEF head
<1>5. tail \in Seq(Token) /\ \A k \in 1..Len(tail) : Own(tail[k]) => tail[k].by = Call.macro
  <2> DEFINE n == Len(ts) - 1
             e(i) == [ts[i + 1] EXCEPT !.id = made + 1 + i]
  <2>1. n \in Nat /\ (n = 0 \/ Quiet(ts))
    OBVIOUS
  <2>2. ASSUME NEW i \in 1..n PROVE e(i) \in Token /\ ~Own(e(i))
    <3> DEFINE j == i + 1
    <3>1. j \in 1..Len(ts) /\ ts[j] \in Token /\ made + 1 + i \in Int
      BY <1>1
    <3>2. Quiet(ts)
      <4> HIDE DEF n
      <4>1. QED
        BY <2>1
    <3>3. ~Own(ts[j])
      BY <3>1, <3>2 DEF Quiet
    <3> HIDE DEF j
    <3> DEFINE x == [ts[j] EXCEPT !.id = made + 1 + i]
    <3>4. x \in Token /\ x.text = ts[j].text /\ x.by = ts[j].by /\ x.dont_expand = ts[j].dont_expand
      BY <3>1 DEF Token
    <3> HIDE DEF x
    <3>5. x \in Token /\ ~Own(x)
      BY <3>3, <3>4 DEF Own
    <3>6. QED
      BY <3>5 DEF x, j
  <2>3. tail = [i \in 1..n |-> e(i)]
    OBVIOUS
  <2> HIDE DEF n, e, tail
  <2>4. tail \in Seq(Token) /\ Len(tail) = n /\ \A i \in 1..n : tail[i] = e(i)
    <3>1. \A i \in 1..n : tail[i] = e(i)
      BY <2>3
    <3>2. tail \in [1..n -> Token]
      BY <2>2, <2>3
    <3>3. tail \in Seq(Token) /\ Len(tail) = n
      BY <2>1, <3>2
    <3>4. QED
      BY <3>1, <3>3
  <2>5. QED
    BY <2>2, <2>4
<1> HIDE DEF tail
<1>6. head \o tail \in Seq(Token)
      /\ \A k \in 1..Len(head \o tail) : Own((head \o tail)[k]) => (head \o tail)[k].by = Call.macro
  BY <1>4, <1>5, Appended
<1>7. head \o tail # <<>>
  BY <1>4, <1>5
<1>8. QED
  BY <1>2, <1>6, <1>7

LEMMA WithoutTwo ==
  ASSUME NEW b \in Seq(Texts), Len(b) >= 2
  PROVE  /\ SubSeq(b, 3, Len(b)) \in Seq(Texts) /\ Len(SubSeq(b, 3, Len(b))) = Len(b) - 2
         /\ \A i \in 1..(Len(b) - 2) : SubSeq(b, 3, Len(b))[i] = b[i + 2]
<1> DEFINE n == Len(b)
           r == SubSeq(b, 3, n)
           e(i) == b[3 + i - 1]
<1>1. n \in Nat /\ n >= 2 /\ \A i \in 3..n : b[i] \in Texts
  OBVIOUS
<1> HIDE DEF n
<1>2. 3 \in Int /\ n \in Int /\ (3 <= n => n - 3 + 1 = n - 2) /\ (~(3 <= n) => 0 = n - 2) /\ n - 3 + 1 = n - 2
  BY <1>1
<1>3. /\ r \in Seq(Texts) /\ Len(r) = IF 3 <= n THEN n - 3 + 1 ELSE 0
      /\ \A i \in 1..(n - 3 + 1) : r[i] = e(i)
  BY <1>1, <1>2, SubSeqProperties
<1>4. \A i \in 1..(n - 2) : 3 + i - 1 = i + 2
  BY <1>1
<1>5. \A i \in 1..(n - 2) : e(i) = b[i + 2]
  BY <1>4
<1> HIDE DEF r, e
<1>6. QED
  BY <1>2, <1>3, <1>5 DEF r, n

LEMMA PasteStep == ASSUME Inv, Paste PROVE Inv'
<1>1. Substituting /\ AtPaste(1)
  BY DEF Paste
<1>2. /\ made \in Nat /\ CallFits(Call) /\ Call.body \in Seq(Texts) /\ Call.out \in Seq(Token)
      /\ Call.macro \in Texts /\ Call.arg \in Seq(Token)
  BY <1>1, CallFacts
<1>3. Body \in Seq(Texts) /\ Operands(Body, Call.out) /\ Body # <<>> /\ Body[1] = "##"
  BY <1>1, <1>2 DEF Body, CallFits, AtPaste
<1>4. Call.out # <<>> /\ \A k \in 1..Len(Call.out) : Own(Call.out[k]) => Call.out[k].by = Call.macro
  BY <1>2, <1>3 DEF Operands, CallFits
<1>5. Len(Body) \in Nat /\ Len(Body) >= 2
  <2>1. Len(Body) >= 1 /\ Body[Len(Body)] # "##"
    BY <1>3 DEF Operands
  <2>2. Len(Body) # 1
    BY <1>3, <2>1
  <2>3. QED
    BY <1>3, <2>1, <2>2
<1> DEFINE u == NewToken(Body[2], Call.macro, NULL, NULL)
           ts == IF AtParam(2) THEN Call.arg ELSE <<u>>
           rest == SubSeq(Body, 3, Len(Body))
           out == Pasted(ts) \o [i \in 1..(Len(ts) - 1) |-> [ts[i + 1] EXCEPT !.id = made + 1 + i]]
<1>6. \/ ts = <<>> /\ Substitute(rest, Call.out) /\ UNCHANGED memory
      \/ ts # <<>> /\ Spelled(ts) \notin DOMAIN Glue /\ Fail
      \/ ts # <<>> /\ Spelled(ts) \in DOMAIN Glue /\ Substitute(rest, out) /\ Allocate(Len(ts))
  BY DEF Paste
<1>7. ts \in Seq(Token) /\ (Quiet(ts) \/ Len(ts) = 1)
  <2>1. u \in Token
    BY <1>2, <1>3, <1>5 DEF NewToken, Token, NULL
  <2> HIDE DEF u
  <2>2. <<u>> \in Seq(Token) /\ Len(<<u>>) = 1
    BY <2>1
  <2>3. QED
    BY <1>2, <2>2 DEF CallFits
<1>8. rest \in Seq(Texts) /\ \A o : o # <<>> => Operands(rest, o)
  <2>1. rest \in Seq(Texts) /\ Len(rest) = Len(Body) - 2
        /\ \A i \in 1..Len(rest) : rest[i] = Body[i + 2]
    <3> DEFINE b == Body
    <3>1. b \in Seq(Texts) /\ Len(b) >= 2
      BY <1>3, <1>5
    <3> HIDE DEF b
    <3>2. /\ SubSeq(b, 3, Len(b)) \in Seq(Texts) /\ Len(SubSeq(b, 3, Len(b))) = Len(b) - 2
          /\ \A i \in 1..(Len(b) - 2) : SubSeq(b, 3, Len(b))[i] = b[i + 2]
      BY <3>1, WithoutTwo
    <3>3. QED
      BY <3>2 DEF b
  <2> HIDE DEF rest
  <2>2. rest # <<>> => rest[Len(rest)] = Body[Len(Body)]
    BY <1>3, <1>5, <2>1
  <2>3. QED
    BY <1>3, <2>1, <2>2 DEF Operands
<1> HIDE DEF ts, rest, out
<1>9. CASE ts = <<>> /\ Substitute(rest, Call.out) /\ UNCHANGED memory
  BY <1>1, <1>2, <1>4, <1>8, <1>9, Substituted DEF memory
<1>10. CASE Fail
  BY <1>10, FailStep
<1>11. CASE ts # <<>> /\ Spelled(ts) \in DOMAIN Glue /\ Substitute(rest, out) /\ Allocate(Len(ts))
  <2>1. out \in Seq(Token) /\ out # <<>> /\ \A k \in 1..Len(out) : Own(out[k]) => out[k].by = Call.macro
    <3>1. out = Pasted(ts) \o [i \in 1..(Len(ts) - 1) |-> [ts[i + 1] EXCEPT !.id = made + 1 + i]]
      BY DEF out
    <3>2. QED
      BY <1>1, <1>4, <1>7, <1>11, <3>1, PastedFacts
  <2>2. made' \in Nat
    BY <1>2, <1>7, <1>11 DEF Allocate
  <2>3. QED
    BY <1>1, <1>8, <1>11, <2>1, <2>2, Substituted
<1>12. QED
  BY <1>6, <1>9, <1>10, <1>11

-----------------------------------------------------------------------------
(* The end of a call: its macro is locked in front of what it gave.        *)

LEMMA FrontFacts ==
  ASSUME NEW S, NEW s \in Seq(S), s # <<>>
  PROVE  /\ Front(s) \in Seq(S) /\ Len(Front(s)) = Len(s) - 1
         /\ \A i \in 1..(Len(s) - 1) : Front(s)[i] = s[i]
<1> DEFINE m == Len(s) - 1
<1>1. m \in Nat /\ Front(s) = SubSeq(s, 1, m) /\ m <= Len(s)
  BY DEF Front
<1> HIDE DEF m
<1>2. SubSeq(s, 1, m) \in Seq(S) /\ Len(SubSeq(s, 1, m)) = m
      /\ \A i \in 1..m : SubSeq(s, 1, m)[i] = s[i]
  BY <1>1
<1>3. QED
  BY <1>1, <1>2 DEF m

LEMMA InsertedFacts ==
  ASSUME Inv, Substituting
  PROVE  Inserted \in Seq(Token) /\ \A k \in 1..Len(Inserted) : Own(Inserted[k]) => Inserted[k].by = Call.macro
<1>1. Call.out \in Seq(Token) /\ Call.orig \in Int /\ CallFits(Call)
  BY CallFacts
<1> DEFINE kept == WithoutMarkers(Call.out)
           n == Len(kept)
<1>2. kept \in Seq(Token) /\ \A k \in 1..n : \E j \in 1..Len(Call.out) : kept[k] = Call.out[j]
  BY <1>1, Markers
<1>3. Inserted = [k \in 1..n |-> [kept[k] EXCEPT !.origin = Call.orig]]
  BY DEF Inserted, Kept
<1> HIDE DEF kept
<1>4. n \in Nat
  BY <1>2
<1>5. ASSUME NEW k \in 1..n, NEW t, t = [kept[k] EXCEPT !.origin = Call.orig]
      PROVE  t \in Token /\ (Own(t) => t.by = Call.macro)
  <2>1. kept[k] \in Token
    BY <1>2
  <2>2. t \in Token /\ t.text = kept[k].text /\ t.by = kept[k].by /\ t.dont_expand = kept[k].dont_expand
    BY <1>1, <1>5, <2>1 DEF Token
  <2>3. Own(kept[k]) => kept[k].by = Call.macro
    BY <1>1, <1>2 DEF CallFits
  <2>4. QED
    BY <2>2, <2>3 DEF Own
<1> HIDE DEF n
<1>6. Inserted \in Seq(Token) /\ Len(Inserted) = n
  BY <1>3, <1>4, <1>5
<1>7. \A k \in 1..n : Own(Inserted[k]) => Inserted[k].by = Call.macro
  BY <1>3, <1>5
<1>8. QED
  BY <1>6, <1>7

LEMMA LockAdded ==
  ASSUME Inv, Substituting, NEW ls, ls = push_macro_lock(locks, Call.macro, Len(Current.tokens))
  PROVE  /\ ls \in Seq(Lock) /\ Len(ls) = Len(locks) + 1 /\ \A j \in 1..Len(locks) : ls[j] = locks[j]
         /\ ls[Len(ls)].macro = Call.macro /\ ls[Len(ls)].frame = Top
         /\ ls[Len(ls)].left = Len(Current.tokens)
         /\ Nested(ls, frames) /\ Covered(ls, frames)
<1>1. /\ Len(calls) = Top /\ Top \in Nat \ {0} /\ Top \in 1..Len(calls) /\ Call.macro \in Texts
      /\ Len(Current.tokens) \in Nat /\ locks \in Seq(Lock)
  BY CallFacts, TopFacts DEF Inv, Types
<1> DEFINE n == Len(locks)
           l == [macro |-> Call.macro, frame |-> Top, left |-> Len(Current.tokens)]
<1>2. l \in Lock /\ l.macro = Call.macro /\ l.frame = Top /\ l.left = Len(Current.tokens)
  BY <1>1 DEF Lock
<1>3. ls = Append(locks, l)
  BY DEF push_macro_lock
<1> HIDE DEF l
<1>4. n \in Nat /\ ls \in Seq(Lock) /\ Len(ls) = n + 1 /\ ls[n + 1] = l
      /\ \A j \in 1..n : ls[j] = locks[j] /\ locks[j] \in Lock
  BY <1>1, <1>2, <1>3
<1>5. \A j \in 1..n : /\ locks[j].frame \in 1..Top
                      /\ locks[j].frame = Top => locks[j].left <= Len(Current.tokens)
                      /\ locks[j].macro # Call.macro
  <2>1. \A j \in 1..n : locks[j].frame \in 1..Top
                        /\ (locks[j].frame = Top => locks[j].left <= Len(Current.tokens))
    BY DEF Inv, Nested, Placed, Top, Current
  <2>2. \A j \in 1..n : locks[j].macro = calls[Top].macro => locks[j].frame > Top
    BY <1>1 DEF Inv, Unlocked
  <2>3. QED
    BY <1>1, <2>1, <2>2 DEF Call
<1> HIDE DEF n
<1>6. \A j \in 1..Len(ls) : j = n + 1 \/ j \in 1..n
  BY <1>4
<1>7. Sorted(ls)
  <2>1. ASSUME NEW i \in 1..Len(ls), NEW j \in 1..(i - 1)
        PROVE  /\ ls[j].macro # ls[i].macro /\ ls[j].frame <= ls[i].frame
               /\ ls[j].frame = ls[i].frame => ls[j].left <= ls[i].left
    <3>1. j \in 1..n /\ ls[j] = locks[j]
      BY <1>4, <2>1
    <3>2. CASE i = n + 1
      <4>1. ls[i] = l
        BY <1>4, <3>2
      <4>2. locks[j].frame \in 1..Top /\ Top \in Nat
        BY <1>1, <1>5, <3>1
      <4>3. QED
        BY <1>2, <1>5, <3>1, <4>1, <4>2
    <3>3. CASE i # n + 1
      <4>1. i \in 1..n /\ ls[i] = locks[i]
        BY <1>4, <1>6, <3>3
      <4>2. QED
        BY <3>1, <4>1 DEF Inv, Nested, Sorted, n
    <3>4. QED
      BY <3>2, <3>3
  <2>2. QED
    BY <2>1 DEF Sorted
<1>8. Placed(ls, frames)
  <2>1. \A j \in 1..n : locks[j].frame \in 1..Len(frames) /\ locks[j].left <= Len(frames[locks[j].frame].tokens)
    BY DEF Inv, Nested, Placed, n
  <2>2. l.frame \in 1..Len(frames) /\ l.left <= Len(frames[l.frame].tokens)
    BY <1>1, <1>2 DEF Top, Current
  <2>3. QED
    BY <1>4, <1>6, <2>1, <2>2 DEF Placed
<1>9. Counted(ls, frames)
  <2>1. ASSUME NEW i \in 1..Len(frames)
        PROVE  /\ frames[i].start \in 0..Len(ls)
               /\ \A j \in 1..Len(ls) : ls[j].frame < i <=> j <= frames[i].start
    <3>1. /\ frames[i].start \in 0..n
          /\ \A j \in 1..n : locks[j].frame < i <=> j <= frames[i].start
      BY DEF Inv, Nested, Counted, n
    <3>2. ~(Top < i) /\ ~(n + 1 <= frames[i].start)
      BY <1>1, <1>4, <3>1 DEF Top
    <3>3. \A j \in 1..Len(ls) : ls[j].frame < i <=> j <= frames[i].start
      BY <1>2, <1>4, <1>6, <3>1, <3>2
    <3>4. QED
      BY <1>4, <3>1, <3>3
  <2>2. QED
    BY <2>1 DEF Counted
<1>10. Covered(ls, frames)
  <2>1. ASSUME NEW i \in 1..Len(frames) PROVE CoveredIn(ls, i, frames[i].tokens)
    <3> DEFINE cur == frames[i].tokens
    <3>1. CoveredIn(locks, i, cur)
      BY DEF Inv, Covered
    <3> HIDE DEF cur
    <3>2. \A j \in 1..Len(locks) : j \in 1..Len(ls) /\ ls[j] = locks[j]
      BY <1>4 DEF n
    <3>3. CoveredIn(ls, i, cur)
      BY <3>1, <3>2 DEF CoveredIn
    <3>4. QED
      BY <3>3 DEF cur
  <2>2. QED
    BY <2>1 DEF Covered
<1>11. QED
  BY <1>2, <1>4, <1>7, <1>8, <1>9, <1>10 DEF Nested, n

LEMMA InFront ==
  ASSUME Inv, Substituting, NEW ls, ls = push_macro_lock(locks, Call.macro, Len(Current.tokens)),
         NEW new \in Seq(Token), \A k \in 1..Len(new) : Own(new[k]) => new[k].by = Call.macro
  PROVE  CoveredIn(ls, Top, new \o Current.tokens)
<1> DEFINE cur == Current.tokens
           ts == new \o cur
<1>1. Top \in Nat /\ cur \in Seq(Token) /\ CoveredIn(locks, Top, cur)
  BY TopFacts DEF Inv, Covered, Current, Top
<1>2. /\ ls \in Seq(Lock) /\ Len(ls) = Len(locks) + 1 /\ \A j \in 1..Len(locks) : ls[j] = locks[j]
      /\ ls[Len(ls)].macro = Call.macro /\ ls[Len(ls)].frame = Top /\ ls[Len(ls)].left = Len(cur)
      /\ locks \in Seq(Lock)
  BY LockAdded DEF Inv, Types
<1> HIDE DEF cur
<1>3. Len(ts) = Len(new) + Len(cur) /\ Len(new) \in Nat /\ Len(cur) \in Nat
      /\ \A k \in 1..Len(ts) : ts[k] = IF k <= Len(new) THEN new[k] ELSE cur[k - Len(new)]
  BY <1>1
<1> HIDE DEF ts
<1>4. ASSUME NEW k \in 1..Len(ts), Own(ts[k])
      PROVE  \E j \in 1..Len(ls) : /\ ls[j].macro = ts[k].text
                                   /\ ls[j].frame < Top \/ (ls[j].frame = Top /\ ls[j].left <= Len(ts) - k)
  <2>1. CASE k <= Len(new)
    <3>1. ts[k].text = Call.macro
      BY <1>3, <1>4, <2>1 DEF Own
    <3>2. Len(cur) <= Len(ts) - k /\ Len(ls) \in 1..Len(ls)
      BY <1>2, <1>3, <2>1
    <3>3. QED
      BY <1>2, <3>1, <3>2
  <2>2. CASE k > Len(new)
    <3> DEFINE m == k - Len(new)
    <3>1. m \in 1..Len(cur) /\ ts[k] = cur[m] /\ Len(ts) - k = Len(cur) - m
      BY <1>3, <2>2
    <3> HIDE DEF m
    <3>2. PICK j \in 1..Len(locks) :
            /\ locks[j].macro = cur[m].text
            /\ locks[j].frame < Top \/ (locks[j].frame = Top /\ locks[j].left <= Len(cur) - m)
      BY <1>1, <1>4, <3>1 DEF CoveredIn
    <3>3. j \in 1..Len(ls) /\ ls[j] = locks[j]
      BY <1>2
    <3>4. QED
      BY <3>1, <3>2, <3>3
  <2>3. k <= Len(new) \/ k > Len(new)
    BY <1>3
  <2>4. QED
    BY <2>1, <2>2, <2>3
<1>5. QED
  BY <1>4 DEF CoveredIn, ts, cur

\* The end of a call, once it is known which locks there are in front of the
\* tokens it gave.
LEMMA CallEnds ==
  ASSUME Inv, Substituting, NEW ts \in Seq(Token), Len(Current.tokens) <= Len(ts),
         NEW ls \in Seq(Lock), Nested(ls, frames), Covered(ls, frames), CoveredIn(ls, Top, ts),
         \A i \in 1..Len(ls) : ls[i].macro = Call.macro \/ \E j \in 1..Len(locks) : ls[i] = locks[j],
         \A i \in 1..Len(ls) : ls[i].macro = Call.macro => ls[i].frame = Top,
         Continue(ts, <<>>, ls), calls' = Front(calls), UNCHANGED <<macros, made, status>>
  PROVE  Inv'
<1>1. /\ Types /\ Len(calls) = Top /\ Top \in Nat \ {0} /\ made \in Nat /\ Call.macro \in DOMAIN macros
      /\ Current.tokens \in Seq(Token) /\ Current.out \in Seq(Token) /\ locks \in Seq(Lock)
      /\ Len(Current.tokens) \in Nat
  BY CallFacts, TopFacts DEF Inv, Types
<1>2. Within(ls, Len(ts))
  <2>1. ASSUME NEW i \in 1..Len(ls)
        PROVE  ls[i].frame <= Top /\ (ls[i].frame = Top => ls[i].left <= Len(ts))
    <3>1. ls[i] \in Lock /\ ls[i].frame \in 1..Len(frames)
          /\ ls[i].left <= Len(frames[ls[i].frame].tokens)
      BY DEF Nested, Placed
    <3>2. ls[i].frame = Top => ls[i].left <= Len(Current.tokens)
      BY <3>1 DEF Current, Top
    <3>3. QED
      BY <1>1, <3>1, <3>2 DEF Lock, Top
  <2>2. QED
    BY <2>1 DEF Within, Nested
<1>3. PICK h \in 0..Len(ls) : pop_macro_lock(ls, Len(ts)) = SubSeq(ls, 1, h) /\ Popped(ls, h, Len(ts))
  BY <1>1, <1>2, PopOnce
<1>4. locks' = SubSeq(ls, 1, h) /\ UNCHANGED <<macros, made, status>>
  BY <1>3 DEF Continue
<1>5. /\ locks' \in Seq(Lock) /\ Len(locks') = h
      /\ \A i \in 1..h : locks'[i] = ls[i] /\ ls[i] \in Lock
  BY <1>3, <1>4, PrefixFacts
<1> DEFINE none == <<>>
           out == Current.out \o none
<1>6. Updated(frames', ts, Current.out)
  <2>1. none \in Seq(Token) /\ out = Current.out
    BY <1>1
  <2>2. frames' = [frames EXCEPT ![Top].tokens = ts, ![Top].out = @ \o none]
    BY DEF Continue
  <2> HIDE DEF none
  <2>3. Updated(frames', ts, out)
    BY <1>1, <2>1, <2>2, UpdateBoth
  <2>4. QED
    BY <2>1, <2>3
<1> HIDE DEF none, out
<1>7. frames' \in Seq(Frame) /\ Len(frames') = Top /\ Top' = Top /\ frames'[Top].tokens = ts
  BY <1>6 DEF Updated, Top
<1>8. \A i \in 1..h : ls[i].frame = Top => ls[i].left < Len(ts)
  BY <1>3 DEF Popped
<1>9. Nested(locks', frames')
  <2>1. \A i \in 1..h : ls[i].frame = Top => ls[i].left <= Len(ts)
    <3>1. \A i \in 1..h : ls[i].left \in Nat
      BY <1>5, LockFields
    <3>2. QED
      BY <1>8, <3>1
  <2>2. Nested(SubSeq(ls, 1, h), frames')
    BY <1>1, <1>3, <1>6, <2>1, NestedUpdate
  <2>3. QED
    BY <1>4, <2>2
<1>10. Ahead(locks', frames')
  BY <1>5, <1>7, <1>8 DEF Ahead
<1>11. Covered(locks', frames')
  <2> DEFINE v == Len(ts)
  <2>1. Suffix(ts, ts) /\ v \in Nat /\ Len(ts) <= v /\ Popped(ls, h, v)
    BY <1>3 DEF Suffix
  <2> HIDE DEF v
  <2>2. CoveredIn(SubSeq(ls, 1, h), Top, ts)
    BY <2>1, CoveredSuffix
  <2>3. Covered(SubSeq(ls, 1, h), frames')
    BY <1>1, <1>6, <2>1, <2>2, CoveredUpdate
  <2>4. QED
    BY <1>4, <2>3
<1>12. QuietOuts(frames')
  <2>1. ASSUME NEW i \in 1..Len(frames') PROVE frames'[i].out = frames[i].out
    <3>1. CASE i = Top
      BY <1>6, <3>1 DEF Updated, Current
    <3>2. CASE i # Top
      BY <1>1, <1>6, <1>7, <3>2 DEF Updated
    <3>3. QED
      BY <3>1, <3>2
  <2>2. QED
    BY <1>7, <2>1 DEF Inv, QuietOuts, Top
<1>13. PICK ends : calls \in Seq(CallOf(ends))
  BY <1>1 DEF Types
<1>14. /\ calls' \in Seq(CallOf(ends)) /\ Len(calls') = Top - 1
       /\ \A i \in 1..(Top - 1) : calls'[i] = calls[i] /\ i \in 1..Len(calls)
  <2> DEFINE C == CallOf(ends)
  <2>1. calls \in Seq(C) /\ calls # <<>>
    BY <1>1, <1>13
  <2> HIDE DEF C
  <2>2. Front(calls) \in Seq(C) /\ Len(Front(calls)) = Len(calls) - 1
        /\ \A i \in 1..(Len(calls) - 1) : Front(calls)[i] = calls[i]
    BY <2>1, FrontFacts
  <2>3. QED
    BY <1>1, <2>2 DEF C
<1>15. Types'
  <2>1. frames' # <<>> /\ \E e : calls' \in Seq(CallOf(e))
    BY <1>1, <1>7, <1>14
  <2>2. QED
    BY <1>1, <1>4, <1>5, <1>7, <1>14, <2>1 DEF Types
<1>16. \A i \in 1..Len(calls') : CallFits(calls'[i])
  BY <1>14 DEF Inv
<1>17. Unlocked(locks', calls')
  <2>1. ASSUME NEW i \in 1..(Top - 1), NEW k \in 1..h, ls[k].macro = calls[i].macro PROVE ls[k].frame > i
    <3>1. CASE ls[k].macro = Call.macro
      BY <1>1, <1>3, <3>1
    <3>2. CASE ls[k].macro # Call.macro
      <4>1. PICK j \in 1..Len(locks) : ls[k] = locks[j]
        BY <1>3, <3>2
      <4>2. QED
        BY <1>14, <2>1, <4>1 DEF Inv, Unlocked
    <3>3. QED
      BY <3>1, <3>2
  <2>2. QED
    BY <1>5, <1>14, <2>1 DEF Unlocked
<1>18. Known(locks', calls', macros)
  <2>1. ASSUME NEW k \in 1..h PROVE ls[k].macro \in DOMAIN macros
    BY <1>1, <1>3 DEF Inv, Known
  <2>2. QED
    BY <1>5, <1>14, <2>1 DEF Inv, Known
<1>19. QED
  BY <1>4, <1>9, <1>10, <1>11, <1>12, <1>15, <1>16, <1>17, <1>18 DEF Inv

LEMMA EndCallStep == ASSUME Inv, EndCall PROVE Inv'
<1> DEFINE new == Inserted
           ts == new \o Current.tokens
           ls == IF new = <<>> THEN locks ELSE push_macro_lock(locks, Call.macro, Len(Current.tokens))
<1>1. /\ Substituting /\ Continue(ts, <<>>, ls) /\ calls' = Front(calls)
      /\ UNCHANGED <<macros, made, status>>
  BY DEF EndCall
<1>2. new \in Seq(Token) /\ \A k \in 1..Len(new) : Own(new[k]) => new[k].by = Call.macro
  BY <1>1, InsertedFacts
<1>3. /\ Current.tokens \in Seq(Token) /\ locks \in Seq(Lock) /\ Nested(locks, frames)
      /\ Covered(locks, frames) /\ CoveredIn(locks, Top, Current.tokens) /\ Len(calls) = Top
      /\ Top \in Nat \ {0} /\ Top \in 1..Len(calls)
  BY <1>1, CallFacts, TopFacts DEF Inv, Types, Covered, Current, Top
<1>4. \A j \in 1..Len(locks) : locks[j].macro # Call.macro
  <2>1. \A j \in 1..Len(locks) : locks[j].frame \in 1..Top
    BY <1>3 DEF Nested, Placed, Top
  <2>2. \A j \in 1..Len(locks) : locks[j].macro = calls[Top].macro => locks[j].frame > Top
    BY <1>3 DEF Inv, Unlocked
  <2>3. QED
    BY <1>3, <2>1, <2>2 DEF Call
<1> HIDE DEF new
<1>5. ts \in Seq(Token) /\ Len(Current.tokens) <= Len(ts)
  BY <1>2, <1>3
<1>6. CASE new = <<>>
  <2>1. ts = Current.tokens /\ ls = locks
    BY <1>3, <1>6
  <2> HIDE DEF ts, ls
  <2>2. /\ \A i \in 1..Len(ls) : ls[i].macro = Call.macro \/ \E j \in 1..Len(locks) : ls[i] = locks[j]
        /\ \A i \in 1..Len(ls) : ls[i].macro = Call.macro => ls[i].frame = Top
    BY <1>4, <2>1
  <2>3. QED
    BY <1>1, <1>3, <1>5, <2>1, <2>2, CallEnds
<1>7. CASE new # <<>>
  <2>1. ls = push_macro_lock(locks, Call.macro, Len(Current.tokens))
    BY <1>7
  <2> HIDE DEF ls
  <2>2. /\ ls \in Seq(Lock) /\ Len(ls) = Len(locks) + 1 /\ \A j \in 1..Len(locks) : ls[j] = locks[j]
        /\ ls[Len(ls)].macro = Call.macro /\ ls[Len(ls)].frame = Top
        /\ Nested(ls, frames) /\ Covered(ls, frames)
    BY <1>1, <2>1, LockAdded
  <2>3. CoveredIn(ls, Top, ts)
    BY <1>1, <1>2, <2>1, InFront
  <2>4. \A i \in 1..Len(ls) : i = Len(ls) \/ (i \in 1..Len(locks) /\ ls[i] = locks[i])
    BY <1>3, <2>2
  <2>5. /\ \A i \in 1..Len(ls) : ls[i].macro = Call.macro \/ \E j \in 1..Len(locks) : ls[i] = locks[j]
        /\ \A i \in 1..Len(ls) : ls[i].macro = Call.macro => ls[i].frame = Top
    BY <1>4, <2>2, <2>4
  <2> HIDE DEF ts
  <2>6. QED
    BY <1>1, <1>5, <2>2, <2>3, <2>5, CallEnds
<1>8. QED
  BY <1>6, <1>7

-----------------------------------------------------------------------------
(* The end of a loop: no lock of its own is left.                          *)

LEMMA EndIsBalanced == ASSUME Inv, AtEnd PROVE Balanced /\ \A j \in 1..Len(locks) : locks[j].frame < Top
<1>1. /\ Top \in Nat \ {0} /\ Top \in 1..Len(frames) /\ locks \in Seq(Lock)
  BY TopFacts DEF Inv, Types
<1>2. Ahead(locks, frames) /\ Len(Current.tokens) = 0
  BY DEF Inv, AtEnd
<1>3. ASSUME NEW j \in 1..Len(locks) PROVE locks[j].frame < Top
  <2>1. locks[j] \in Lock /\ locks[j].frame \in 1..Top
    BY <1>1 DEF Inv, Nested, Placed, Top
  <2>2. locks[j].frame = Top => locks[j].left < 0
    BY <1>2 DEF Ahead, Current, Top
  <2>3. QED
    BY <1>1, <2>1, <2>2 DEF Lock
<1>4. /\ Current.start \in 0..Len(locks)
      /\ \A j \in 1..Len(locks) : locks[j].frame < Top <=> j <= Current.start
  BY <1>1 DEF Inv, Nested, Counted, Current
<1>5. Len(locks) = Current.start
  <2>1. Len(locks) = 0 \/ Len(locks) \in 1..Len(locks)
    BY <1>1
  <2>2. QED
    BY <1>1, <1>3, <1>4, <2>1
<1>6. QED
  BY <1>3, <1>5 DEF Balanced

LEMMA FinishStep == ASSUME Inv, Finish PROVE Inv'
<1>1. status' = "done" /\ UNCHANGED <<macros, frames, calls, locks, made>>
  BY EndIsBalanced DEF Finish, memory
<1>2. QED
  BY <1>1, Stopped

LEMMA EndArgStep == ASSUME Inv, EndArg PROVE Inv'
<1> DEFINE n == Top - 1
           given == <<Current.out>>
<1>1. AtEnd /\ Top > 1 /\ Balanced /\ \A j \in 1..Len(locks) : locks[j].frame < Top
  BY EndIsBalanced DEF EndArg
<1>2. /\ frames' = Front(frames) /\ calls' = [calls EXCEPT ![Top - 1].expanded = given]
      /\ UNCHANGED <<macros, locks, made, status>>
  BY <1>1 DEF EndArg, memory
<1>3. /\ Types /\ n \in Nat \ {0} /\ n \in 1..Len(calls) /\ Len(calls) = n /\ Len(frames) = n + 1
      /\ Top = n + 1 /\ frames \in Seq(Frame) /\ frames # <<>> /\ locks \in Seq(Lock)
      /\ Current.out \in Seq(Token)
  BY <1>1, TopFacts DEF Inv, Types, AtEnd, Top
<1>4. Quiet(Current.out)
  BY <1>3 DEF Inv, QuietOuts, Current
<1>5. PICK ends : calls \in Seq(CallOf(ends))
  BY <1>3 DEF Types
<1> DEFINE C == CallOf(ends)
           d == calls[n]
           c == [d EXCEPT !.expanded = given]
<1>6. d \in C
  <2>1. calls \in Seq(C)
    BY <1>5
  <2> HIDE DEF C
  <2>2. QED
    BY <1>3, <2>1
<1>7. given \in Seq(Seq(Token)) /\ Len(given) = 1 /\ given[1] = Current.out
  <2> DEFINE T == Seq(Token)
             o == Current.out
  <2>1. o \in T
    BY <1>3
  <2> HIDE DEF T, o
  <2>2. <<o>> \in Seq(T) /\ Len(<<o>>) = 1 /\ <<o>>[1] = o
    BY <2>1
  <2>3. QED
    BY <2>2 DEF T, o
<1> HIDE DEF given
<1>8. c \in C /\ c.macro = d.macro /\ c.expanded = given /\ c.arg = d.arg /\ c.body = d.body /\ c.out = d.out
  <2> HIDE DEF d
  <2>1. QED
    BY <1>6, <1>7 DEF CallOf
<1>9. calls' = [calls EXCEPT ![n] = c]
  BY <1>2, <1>3
<1>10. CallFits(c)
  <2>1. CallFits(d)
    BY <1>3 DEF Inv
  <2>2. \A k \in 1..Len(given) : Quiet(given[k])
    BY <1>4, <1>7
  <2> HIDE DEF c, d
  <2>3. QED
    BY <1>8, <2>1, <2>2 DEF CallFits
<1> HIDE DEF c
<1>11. calls' \in Seq(C) /\ Len(calls') = n /\ calls'[n] = c
       /\ \A i \in 1..n : i # n => calls'[i] = calls[i]
  <2>1. calls \in Seq(C)
    BY <1>5
  <2> HIDE DEF C, n
  <2>2. QED
    BY <1>3, <1>8, <1>9, <2>1
<1>12. \A i \in 1..n : calls'[i].macro = calls[i].macro
  BY <1>8, <1>11
<1>13. frames' \in Seq(Frame) /\ Len(frames') = n /\ \A i \in 1..n : frames'[i] = frames[i]
  <2> HIDE DEF n
  <2>1. Len(frames) - 1 = n
    BY <1>3
  <2>2. QED
    BY <1>2, <1>3, <2>1, FrontFacts
<1>14. Top' = n /\ frames' # <<>>
  BY <1>3, <1>13 DEF Top
<1>15. Types'
  <2>1. \E e : calls' \in Seq(CallOf(e))
    BY <1>11
  <2> HIDE DEF n
  <2>2. QED
    BY <1>2, <1>3, <1>11, <1>13, <1>14, <2>1 DEF Types
<1>16. \A j \in 1..Len(locks) : locks[j].frame \in 1..n
  BY <1>1, <1>3 DEF Inv, Nested, Placed
<1> HIDE DEF n
<1>17. Nested(locks, frames')
  <2>1. Placed(locks, frames')
    BY <1>13, <1>16 DEF Inv, Nested, Placed
  <2>2. Counted(locks, frames')
    <3>1. ASSUME NEW i \in 1..n
          PROVE  /\ frames'[i].start \in 0..Len(locks)
                 /\ \A j \in 1..Len(locks) : locks[j].frame < i <=> j <= frames'[i].start
      <4>1. i \in 1..Len(frames) /\ frames'[i] = frames[i]
        BY <1>3, <1>13
      <4>2. QED
        BY <4>1 DEF Inv, Nested, Counted
    <3>2. QED
      BY <1>13, <3>1 DEF Counted
  <2>3. QED
    BY <2>1, <2>2 DEF Inv, Nested
<1>18. Covered(locks, frames') /\ QuietOuts(frames')
  <2>1. \A i \in 1..n : i \in 1..Len(frames)
    BY <1>3
  <2>2. QED
    BY <1>13, <2>1 DEF Inv, Covered, QuietOuts
<1>19. ASSUME NEW i \in 1..Len(calls') PROVE CallFits(calls'[i])
  <2>1. CASE i = n
    BY <2>1, <1>10, <1>11
  <2>2. CASE i # n
    <3>1. i \in 1..Len(calls) /\ calls'[i] = calls[i]
      BY <1>3, <1>11, <2>2
    <3>2. QED
      BY <3>1 DEF Inv
  <2>3. QED
    BY <2>1, <2>2
<1>20. Unlocked(locks, calls') /\ Known(locks, calls', macros)
  <2>1. Unlocked(locks, calls')
    BY <1>3, <1>11, <1>12 DEF Inv, Unlocked
  <2>2. Known(locks, calls', macros)
    BY <1>3, <1>11, <1>12 DEF Inv, Known
  <2>3. QED
    BY <2>1, <2>2
<1>21. ~(Len(calls') = Top' - 1)
  BY <1>3, <1>11, <1>14
<1>22. QED
  BY <1>2, <1>15, <1>17, <1>18, <1>19, <1>20, <1>21 DEF Inv

-----------------------------------------------------------------------------
(* The specification.                                                      *)

LEMMA InitInv == Init => Inv
<1>1. SUFFICES ASSUME Init PROVE Inv
  OBVIOUS
<1>2. PICK p \in Programs :
        /\ macros = p.macros
        /\ frames = << [kind |-> p.kind, out |-> <<>>, start |-> 0, eof |-> Len(p.input) + 1,
                        tokens |-> [i \in 1..Len(p.input) |-> NewToken(p.input[i], Source, i, NULL)]] >>
        /\ made = Len(p.input) + 1
  BY <1>1 DEF Init
<1>3. /\ p.kind \in {"root", "cond"} /\ p.input \in Seq(STRING)
      /\ \A i \in 1..Len(p.input) : p.input[i] # "<source>" /\ p.input[i] \in STRING
  BY ProgramsAreText
<1>4. calls = <<>> /\ locks = <<>> /\ status = "run"
  BY <1>1 DEF Init
<1> DEFINE n == Len(p.input)
           ts == [i \in 1..n |-> NewToken(p.input[i], Source, i, NULL)]
           f == [kind |-> p.kind, out |-> <<>>, start |-> 0, eof |-> n + 1, tokens |-> ts]
<1>5. n \in Nat
  BY <1>3
<1>6. ts \in Seq(Token) /\ Len(ts) = n /\ \A i \in 1..n : ~Own(ts[i])
  <2>1. ASSUME NEW i \in 1..n, NEW t, t = NewToken(p.input[i], Source, i, NULL) PROVE t \in Token /\ ~Own(t)
    BY <1>3, <1>5, <2>1 DEF NewToken, Token, Texts, Own, NULL, Source
  <2> HIDE DEF n
  <2>2. QED
    BY <1>5, <2>1
<1> HIDE DEF ts
<1>7. f \in Frame /\ f.tokens = ts /\ f.out = <<>> /\ f.start = 0
  <2> HIDE DEF n
  <2>1. QED
    BY <1>3, <1>5, <1>6 DEF Frame
<1>8. frames = <<f>>
  BY <1>2 DEF ts
<1> HIDE DEF f
<1>9. frames \in Seq(Frame) /\ Len(frames) = 1 /\ frames[1] = f /\ frames # <<>> /\ Top = 1
  BY <1>7, <1>8 DEF Top
<1>10. Types
  <2>1. <<>> \in Seq(Lock) /\ <<>> \in Seq(CallOf({})) /\ Len(<<>>) = 0
    OBVIOUS
  <2>2. made \in Nat
    BY <1>2, <1>5
  <2>3. \E ends : calls \in Seq(CallOf(ends))
    BY <1>4, <2>1
  <2>4. QED
    BY <1>2, <1>4, <1>9, <2>1, <2>2, <2>3 DEF Types
<1>11. Len(locks) = 0 /\ Len(calls) = 0
  BY <1>4
<1>12. Nested(locks, frames) /\ Ahead(locks, frames)
  BY <1>7, <1>9, <1>11 DEF Nested, Sorted, Placed, Counted, Ahead
<1>13. Covered(locks, frames) /\ QuietOuts(frames)
  BY <1>6, <1>7, <1>9 DEF Covered, CoveredIn, QuietOuts, Quiet
<1>14. /\ Unlocked(locks, calls) /\ Known(locks, calls, macros)
       /\ \A i \in 1..Len(calls) : CallFits(calls[i])
  BY <1>11 DEF Unlocked, Known
<1>15. QED
  BY <1>10, <1>12, <1>13, <1>14 DEF Inv

LEMMA NextInv == Inv /\ DefinedIsWhole /\ [Next]_vars => Inv'
<1>1. SUFFICES ASSUME Inv, DefinedIsWhole, [Next]_vars PROVE Inv'
  OBVIOUS
<1>2. CASE Keep
  BY <1>1, <1>2, KeepStep
<1>3. CASE Defined
  BY <1>1, <1>3, DefinedStep
<1>4. CASE HasOperator
  BY <1>1, <1>4, HasOperatorStep
<1>5. CASE BeginObjectLike
  BY <1>1, <1>5, BeginObjectLikeStep
<1>6. CASE BeginFunctionLike
  BY <1>1, <1>6, BeginFunctionLikeStep
<1>7. CASE ExpandArg
  BY <1>1, <1>7, ExpandArgStep
<1>8. CASE UseArg
  BY <1>1, <1>8, UseArgStep
<1>9. CASE UseOther
  BY <1>1, <1>9, UseOtherStep
<1>10. CASE PasteMarker
  BY <1>1, <1>10, PasteMarkerStep
<1>11. CASE Paste
  BY <1>1, <1>11, PasteStep
<1>12. CASE EndCall
  BY <1>1, <1>12, EndCallStep
<1>13. CASE EndArg
  BY <1>1, <1>13, EndArgStep
<1>14. CASE Finish
  BY <1>1, <1>14, FinishStep
<1>15. CASE UNCHANGED vars
  <2>1. status' \in {"run", "done", "error"}
    BY <1>1, <1>15 DEF Inv, Types, vars
  <2>2. QED
    BY <1>1, <1>15, <2>1, Stopped DEF vars
<1>16. QED
  BY <1>1, <1>2, <1>3, <1>4, <1>5, <1>6, <1>7, <1>8, <1>9, <1>10, <1>11, <1>12, <1>13, <1>14, <1>15
  DEF Next, Scan, Subst, End

LEMMA Invariance == Spec /\ []DefinedIsWhole => []Inv
<1>1. QED
  BY InitInv, NextInv, PTL DEF Spec

\* In every state the loops, the calls and the locks have their types, there
\* is a call for each loop but, at times, the innermost, and the program has
\* not met an internal error.
THEOREM MacroTypes == Spec /\ []DefinedIsWhole => []Types
<1>1. Inv => Types
  BY DEF Inv
<1>2. QED
  BY <1>1, Invariance, PTL

LEMMA BalancedFollows == Inv => LocksBalanced
<1>1. SUFFICES ASSUME Inv PROVE LocksBalanced
  OBVIOUS
<1>2. status # "internal"
  BY <1>1 DEF Inv, Types
<1>3. LocksNest
  BY <1>1 DEF Inv, Nested, Sorted, Placed, LocksNest
<1>4. QED
  BY <1>2, <1>3 DEF LocksBalanced

\* preprocess2, expand_tok and read_const_expr end with the locks they began
\* with, whatever they expand: their assertion never fails.  Meanwhile the
\* locks nest, so it is enough that pop_macro_lock looks at the latest, and no
\* stop token is passed.
THEOREM LocksAreBalanced == Spec /\ []DefinedIsWhole => []LocksBalanced
<1>1. QED
  BY BalancedFollows, Invariance, PTL

LEMMA QuietIsInert ==
  ASSUME NEW ts, Quiet(ts), NEW t \in ToSet(ts), t.by = t.text, DOMAIN ts = 1..Len(ts)
  PROVE  t.dont_expand
  BY DEF Quiet, Own, ToSet

LEMMA InertFollows == Inv => OwnNameIsInert
<1>1. SUFFICES ASSUME Inv, NEW t \in InPlay, t.by = t.text, ~t.dont_expand
              PROVE  t.text \in Locked(locks)
  BY DEF OwnNameIsInert
<1>2. Own(t) /\ Types
  BY <1>1 DEF Own, Inv
<1>3. CASE t \in InLoops
  <2>1. PICK i \in 1..Top : t \in ToSet(frames[i].tokens) \/ t \in ToSet(frames[i].out)
    BY <1>3 DEF InLoops
  <2>2. frames[i].tokens \in Seq(Token) /\ frames[i].out \in Seq(Token) /\ i \in 1..Len(frames)
    <3>1. i \in 1..Len(frames) /\ frames \in Seq(Frame)
      BY <1>2, <2>1 DEF Types, Top
    <3>2. frames[i] \in Frame
      BY <3>1
    <3>3. QED
      BY <3>1, <3>2 DEF Frame
  <2> DEFINE ts == frames[i].tokens
             out == frames[i].out
  <2>3. CoveredIn(locks, i, ts) /\ Quiet(out)
    BY <1>1, <2>2 DEF Inv, Covered, QuietOuts
  <2>4. ts \in Seq(Token) /\ out \in Seq(Token) /\ (t \in ToSet(ts) \/ t \in ToSet(out))
    BY <2>1, <2>2
  <2> HIDE DEF ts, out
  <2>5. t \notin ToSet(out)
    BY <1>1, <2>3, <2>4, QuietIsInert
  <2>6. PICK k \in 1..Len(ts) : t = ts[k]
    BY <2>4, <2>5 DEF ToSet
  <2>7. PICK j \in 1..Len(locks) : locks[j].macro = t.text
    BY <1>2, <2>3, <2>6 DEF CoveredIn
  <2>8. QED
    BY <2>7 DEF Locked
<1>4. CASE t \in InCalls
  <2>1. PICK i \in 1..Len(calls) : t \in Pending(i)
    BY <1>4 DEF InCalls
  <2>2. PICK ends : calls \in Seq(CallOf(ends))
    BY <1>2 DEF Types
  <2> DEFINE c == calls[i]
             C == CallOf(ends)
  <2>3. c \in C
    <3>1. calls \in Seq(C)
      BY <2>2
    <3> HIDE DEF C
    <3>2. QED
      BY <3>1
  <2>4. CallFits(c)
    BY <1>1 DEF Inv
  <2>5. \/ t \in ToSet(c.out) /\ t.by # c.macro
        \/ t \in ToSet(c.arg)
        \/ \E ts \in ToSet(c.expanded) : t \in ToSet(ts)
    BY <2>1 DEF Pending
  <2> HIDE DEF c
  <2>6. /\ c.out \in Seq(Token) /\ c.arg \in Seq(Token) /\ c.expanded \in Seq(Seq(Token))
    BY <2>3 DEF CallOf
  <2>7. CASE t \in ToSet(c.out) /\ t.by # c.macro
    <3> DEFINE co == c.out
    <3>1. co \in Seq(Token) /\ t \in ToSet(co)
      BY <2>6, <2>7
    <3>2. \A k \in 1..Len(co) : Own(co[k]) => co[k].by = c.macro
      BY <2>4 DEF CallFits
    <3> HIDE DEF co
    <3>3. PICK k \in 1..Len(co) : t = co[k]
      BY <3>1 DEF ToSet
    <3>4. QED
      BY <1>2, <2>7, <3>2, <3>3
  <2>8. CASE t \in ToSet(c.arg)
    <3>1. Quiet(c.arg)
      BY <2>4 DEF CallFits
    <3>2. QED
      BY <1>1, <2>6, <2>8, <3>1, QuietIsInert
  <2>9. CASE \E ts \in ToSet(c.expanded) : t \in ToSet(ts)
    <3>1. PICK k \in 1..Len(c.expanded) : t \in ToSet(c.expanded[k])
      <4> DEFINE T == Seq(Token)
                 ex == c.expanded
      <4>1. ex \in Seq(T) /\ \E ts \in ToSet(ex) : t \in ToSet(ts)
        BY <2>6, <2>9
      <4> HIDE DEF T, ex
      <4>2. DOMAIN ex = 1..Len(ex) /\ ToSet(ex) = {ex[k] : k \in DOMAIN ex}
        BY <4>1 DEF ToSet
      <4>3. QED
        BY <4>1, <4>2 DEF ex
    <3> DEFINE ts == c.expanded[k]
    <3>2. Quiet(ts) /\ t \in ToSet(ts)
      BY <2>4, <3>1 DEF CallFits
    <3>3. ts \in Seq(Token)
      <4> DEFINE T == Seq(Token)
      <4>1. c.expanded \in Seq(T)
        BY <2>6
      <4> HIDE DEF T
      <4>2. ts \in T
        BY <3>1, <4>1
      <4>3. QED
        BY <4>2 DEF T
    <3> HIDE DEF ts
    <3>4. QED
      BY <1>1, <3>2, <3>3, QuietIsInert
  <2>10. QED
    BY <2>5, <2>7, <2>8, <2>9
<1>5. QED
  BY <1>1, <1>3, <1>4 DEF InPlay

\* Wherever a token that a macro's body gave is carried, as an argument, past
\* its lock or as the name of a call, the macro is not applied to it again: it
\* is marked, or the macro is locked.
THEOREM OwnNamesAreInert == Spec /\ []DefinedIsWhole => []OwnNameIsInert
<1>1. QED
  BY InertFollows, Invariance, PTL

-----------------------------------------------------------------------------
(* What is allocated.  Tokens get rising ids, and what a call gives back   *)
(* when it ends are those after its free_alloc_end.  So what is not inside *)
(* the call refers to nothing after it (Upto), and what is inside it was   *)
(* made after it.  Before that, the text gives back the tokens of a call   *)
(* that it read: none of the text's stands for one of these.               *)
IdsOf(ts) == {ts[k].id : k \in 1..Len(ts)}
OriginsOf(ts) == {ts[k].origin : k \in 1..Len(ts)}
Apart(a, b) == IdsOf(a) \cap IdsOf(b) = {}

\* The tokens of a list are different ones, after lo, and live, as what they
\* stand for.
Listed(ts, lo, live) ==
  /\ Distinct(ts)
  /\ \A k \in 1..Len(ts) : ts[k].id \in live /\ lo < ts[k].id /\ ts[k].origin \in live \cup {NULL}

Rising(ch) == \A k \in 1..Len(ch) : \A j \in 1..(k - 1) : ch[j] < ch[k]
Live(ch) == {ch[k] : k \in 1..Len(ch)}

Lo(cs, i) == IF i = 1 THEN 0 ELSE cs[i - 1].free_alloc_end
Upto(cs, live, i) == IF i <= Len(cs) THEN {t \in live : t <= cs[i].free_alloc_end} ELSE live

FrameFits(f, lo, live) ==
  /\ Listed(f.tokens, lo, live) /\ Listed(f.out, lo, live)
  /\ Apart(f.tokens, f.out)

Expanded(c) == IF c.expanded = <<>> THEN <<>> ELSE c.expanded[1]
CallLives(c, live) ==
  /\ Len(c.expanded) <= 1
  /\ Listed(c.arg, c.free_alloc_end, live) /\ Listed(Expanded(c), c.free_alloc_end, live)
  /\ Listed(c.out, c.free_alloc_end, live)
  /\ Apart(c.arg, Expanded(c)) /\ Apart(c.arg, c.out) /\ Apart(Expanded(c), c.out)
  /\ c.orig \in live /\ c.free_alloc_end \in live /\ c.orig <= c.free_alloc_end
ApartFrom(out, c) == Apart(out, c.arg) /\ Apart(out, Expanded(c)) /\ Apart(out, c.out)

Frames(fs, cs, live) == \A i \in 1..Len(fs) : FrameFits(fs[i], Lo(cs, i), Upto(cs, live, i))
Calls(cs, live) ==
  /\ \A i \in 1..Len(cs) : CallLives(cs[i], Upto(cs, live, i + 1))
  /\ \A i, j \in 1..Len(cs) : i <= j => cs[i].free_alloc_end <= cs[j].free_alloc_end
Between(fs, cs) == \A i \in 1..Len(cs) : i < Len(fs) => ApartFrom(fs[i + 1].out, cs[i])
Text(fs, cs) ==
  /\ \A i \in 2..Len(fs) : fs[i].kind = "arg"
  /\ IdsOf(fs[1].tokens) \cap (OriginsOf(fs[1].tokens) \cup OriginsOf(fs[1].out)) = {}
  /\ cs # <<>> => cs[1].orig \notin IdsOf(fs[1].tokens)
Allocated(ch, n) == ch \in Seq(1..n) /\ Rising(ch)

Alloc ==
  /\ Allocated(chain, made)
  /\ Frames(frames, calls, Live(chain)) /\ Calls(calls, Live(chain))
  /\ Between(frames, calls) /\ Text(frames, calls)

-----------------------------------------------------------------------------
(* Lists of tokens.                                                        *)

LEMMA JoinIds ==
  ASSUME NEW a \in Seq(Token), NEW b \in Seq(Token)
  PROVE  /\ a \o b \in Seq(Token)
         /\ IdsOf(a \o b) = IdsOf(a) \cup IdsOf(b) /\ OriginsOf(a \o b) = OriginsOf(a) \cup OriginsOf(b)
<1> DEFINE c == a \o b
<1>1. /\ c \in Seq(Token) /\ Len(c) = Len(a) + Len(b)
      /\ \A k \in 1..Len(a) : c[k] = a[k]
      /\ \A k \in 1..Len(b) : c[Len(a) + k] = b[k]
  OBVIOUS
<1> HIDE DEF c
<1>2. /\ \A k \in 1..Len(c) : k \in 1..Len(a) \/ \E j \in 1..Len(b) : k = Len(a) + j
      /\ \A k \in 1..Len(a) : k \in 1..Len(c)
      /\ \A k \in 1..Len(b) : Len(a) + k \in 1..Len(c)
  <2>1. \A k \in 1..Len(c) : k \in 1..Len(a) \/ (k - Len(a) \in 1..Len(b) /\ k = Len(a) + (k - Len(a)))
    BY <1>1
  <2>2. \A k \in 1..Len(c) : k \in 1..Len(a) \/ \E j \in 1..Len(b) : k = Len(a) + j
    BY <2>1
  <2>3. (\A k \in 1..Len(a) : k \in 1..Len(c)) /\ \A k \in 1..Len(b) : Len(a) + k \in 1..Len(c)
    BY <1>1
  <2>4. QED
    BY <2>2, <2>3
<1>3. IdsOf(c) = IdsOf(a) \cup IdsOf(b)
  <2>1. ASSUME NEW x \in IdsOf(c) PROVE x \in IdsOf(a) \cup IdsOf(b)
    <3>1. PICK k \in 1..Len(c) : x = c[k].id
      BY DEF IdsOf
    <3>2. CASE k \in 1..Len(a)
      <4>1. x = a[k].id
        BY <1>1, <3>1, <3>2
      <4>2. QED
        BY <3>2, <4>1 DEF IdsOf
    <3>3. CASE \E j \in 1..Len(b) : k = Len(a) + j
      <4>1. PICK j \in 1..Len(b) : k = Len(a) + j
        BY <3>3
      <4>2. x = b[j].id
        BY <1>1, <3>1, <4>1
      <4>3. QED
        BY <4>2 DEF IdsOf
    <3>4. QED
      BY <1>2, <3>2, <3>3
  <2>2. ASSUME NEW x \in IdsOf(a) PROVE x \in IdsOf(c)
    BY <1>1, <1>2 DEF IdsOf
  <2>3. ASSUME NEW x \in IdsOf(b) PROVE x \in IdsOf(c)
    <3>1. PICK k \in 1..Len(b) : x = b[k].id
      BY DEF IdsOf
    <3>2. x = c[Len(a) + k].id /\ Len(a) + k \in 1..Len(c)
      BY <1>1, <1>2, <3>1
    <3>3. QED
      BY <3>2 DEF IdsOf
  <2>4. QED
    BY <2>1, <2>2, <2>3
<1>4. OriginsOf(c) = OriginsOf(a) \cup OriginsOf(b)
  <2>1. ASSUME NEW x \in OriginsOf(c) PROVE x \in OriginsOf(a) \cup OriginsOf(b)
    <3>1. PICK k \in 1..Len(c) : x = c[k].origin
      BY DEF OriginsOf
    <3>2. CASE k \in 1..Len(a)
      <4>1. x = a[k].origin
        BY <1>1, <3>1, <3>2
      <4>2. QED
        BY <3>2, <4>1 DEF OriginsOf
    <3>3. CASE \E j \in 1..Len(b) : k = Len(a) + j
      <4>1. PICK j \in 1..Len(b) : k = Len(a) + j
        BY <3>3
      <4>2. x = b[j].origin
        BY <1>1, <3>1, <4>1
      <4>3. QED
        BY <4>2 DEF OriginsOf
    <3>4. QED
      BY <1>2, <3>2, <3>3
  <2>2. ASSUME NEW x \in OriginsOf(a) PROVE x \in OriginsOf(c)
    BY <1>1, <1>2 DEF OriginsOf
  <2>3. ASSUME NEW x \in OriginsOf(b) PROVE x \in OriginsOf(c)
    <3>1. PICK k \in 1..Len(b) : x = b[k].origin
      BY DEF OriginsOf
    <3>2. x = c[Len(a) + k].origin /\ Len(a) + k \in 1..Len(c)
      BY <1>1, <1>2, <3>1
    <3>3. QED
      BY <3>2 DEF OriginsOf
  <2>4. QED
    BY <2>1, <2>2, <2>3
<1>5. QED
  BY <1>1, <1>3, <1>4 DEF c

LEMMA JoinLists ==
  ASSUME NEW a \in Seq(Token), NEW b \in Seq(Token), NEW lo, NEW live,
         Listed(a, lo, live), Listed(b, lo, live), Apart(a, b)
  PROVE  Listed(a \o b, lo, live)
<1> DEFINE c == a \o b
<1>1. /\ c \in Seq(Token) /\ Len(c) = Len(a) + Len(b)
      /\ \A k \in 1..Len(a) : c[k] = a[k]
      /\ \A k \in 1..Len(b) : c[Len(a) + k] = b[k]
  OBVIOUS
<1> HIDE DEF c
<1>2. \A k \in 1..Len(c) : k \in 1..Len(a) \/ \E j \in 1..Len(b) : k = Len(a) + j
  <2>1. \A k \in 1..Len(c) : k \in 1..Len(a) \/ (k - Len(a) \in 1..Len(b) /\ k = Len(a) + (k - Len(a)))
    BY <1>1
  <2>2. QED
    BY <2>1
<1>3. \A k \in 1..Len(c) : (k \in 1..Len(a) /\ c[k] = a[k]) \/ (\E j \in 1..Len(b) : k = Len(a) + j /\ c[k] = b[j])
  BY <1>1, <1>2
<1>4. \A j \in 1..Len(a), k \in 1..Len(b) : a[j].id # b[k].id
  BY DEF Apart, IdsOf
<1>5. ASSUME NEW j \in 1..Len(c), NEW k \in 1..Len(c), j # k PROVE c[j].id # c[k].id
  <2>1. CASE j \in 1..Len(a) /\ c[j] = a[j]
    BY <1>3, <1>4, <1>5, <2>1 DEF Listed, Distinct
  <2>2. CASE \E i \in 1..Len(b) : j = Len(a) + i /\ c[j] = b[i]
    <3>1. PICK i \in 1..Len(b) : j = Len(a) + i /\ c[j] = b[i]
      BY <2>2
    <3>2. CASE k \in 1..Len(a) /\ c[k] = a[k]
      BY <1>4, <3>1, <3>2
    <3>3. CASE \E h \in 1..Len(b) : k = Len(a) + h /\ c[k] = b[h]
      BY <1>5, <3>1, <3>3 DEF Listed, Distinct
    <3>4. QED
      BY <1>3, <3>2, <3>3
  <2>3. QED
    BY <1>3, <2>1, <2>2
<1>6. \A k \in 1..Len(c) : c[k].id \in live /\ lo < c[k].id /\ c[k].origin \in live \cup {NULL}
  BY <1>3 DEF Listed
<1>7. QED
  BY <1>5, <1>6 DEF c, Listed, Distinct

LEMMA PartOfList ==
  ASSUME NEW all \in Seq(Token), NEW ts, Suffix(ts, all)
  PROVE  /\ ts \in Seq(Token) /\ IdsOf(ts) \subseteq IdsOf(all) /\ OriginsOf(ts) \subseteq OriginsOf(all)
         /\ \A lo, live : Listed(all, lo, live) => Listed(ts, lo, live)
<1> DEFINE d == Len(all) - Len(ts)
<1>1. /\ ts \in Seq(Token) /\ d \in Nat
      /\ \A k \in 1..Len(ts) : d + k \in 1..Len(all) /\ ts[k] = all[d + k]
  BY DEF Suffix
<1> HIDE DEF d
<1>2. IdsOf(ts) \subseteq IdsOf(all) /\ OriginsOf(ts) \subseteq OriginsOf(all)
  BY <1>1 DEF IdsOf, OriginsOf
<1>3. ASSUME NEW lo, NEW live, Listed(all, lo, live) PROVE Listed(ts, lo, live)
  <2>1. ASSUME NEW j \in 1..Len(ts), NEW k \in 1..Len(ts), j # k PROVE ts[j].id # ts[k].id
    <3>1. d + j # d + k
      BY <1>1, <2>1
    <3>2. QED
      BY <1>1, <1>3, <3>1 DEF Listed, Distinct
  <2>2. \A k \in 1..Len(ts) : ts[k].id \in live /\ lo < ts[k].id /\ ts[k].origin \in live \cup {NULL}
    BY <1>1, <1>3 DEF Listed
  <2>3. QED
    BY <2>1, <2>2 DEF Listed, Distinct
<1>4. QED
  BY <1>1, <1>2, <1>3

LEMMA WiderList ==
  ASSUME NEW ts, NEW lo, NEW live, NEW more, Listed(ts, lo, live), live \subseteq more
  PROVE  Listed(ts, lo, more)
  BY DEF Listed

LEMMA EmptyList ==
  ASSUME NEW lo, NEW live
  PROVE  Listed(<<>>, lo, live) /\ IdsOf(<<>>) = {} /\ OriginsOf(<<>>) = {}
  BY DEF Listed, Distinct, IdsOf, OriginsOf

LEMMA OneToken ==
  ASSUME NEW t
  PROVE  /\ IdsOf(<<t>>) = {t.id} /\ OriginsOf(<<t>>) = {t.origin}
         /\ \A lo, live : t.id \in live /\ lo < t.id /\ t.origin \in live \cup {NULL} => Listed(<<t>>, lo, live)
  BY DEF Listed, Distinct, IdsOf, OriginsOf

LEMMA ListedIds ==
  ASSUME NEW ts, NEW lo, NEW live, Listed(ts, lo, live)
  PROVE  /\ \A x \in IdsOf(ts) : x \in live /\ lo < x
         /\ OriginsOf(ts) \subseteq live \cup {NULL}
  BY DEF Listed, IdsOf, OriginsOf

LEMMA CopiesListed ==
  ASSUME NEW ts \in Seq(Token), made \in Nat, NEW lo \in Int, lo <= made,
         NEW live, OriginsOf(ts) \subseteq live \cup {NULL}, (made + 1)..(made + Len(ts)) \subseteq live
  PROVE  /\ Listed(Copies(ts), lo, live) /\ IdsOf(Copies(ts)) = (made + 1)..(made + Len(ts))
         /\ OriginsOf(Copies(ts)) = OriginsOf(ts)
<1> DEFINE c == Copies(ts)
           n == Len(ts)
<1>1. /\ n \in Nat /\ Len(c) = n
      /\ \A i \in 1..n : c[i].id = made + i /\ c[i].origin = ts[i].origin
  <2>1. ASSUME NEW i \in 1..n, NEW t, t = [ts[i] EXCEPT !.id = made + i]
        PROVE  t.id = made + i /\ t.origin = ts[i].origin
    <3>1. ts[i] \in Token
      OBVIOUS
    <3>2. QED
      BY <2>1, <3>1 DEF Token
  <2>2. c = [i \in 1..n |-> [ts[i] EXCEPT !.id = made + i]]
    BY DEF Copies
  <2>3. Len(c) = n /\ n \in Nat
    BY CopyFacts
  <2> HIDE DEF n, c
  <2>4. QED
    BY <2>1, <2>2, <2>3 DEF n
<1>2. (made + 1)..(made + n) \subseteq live /\ \A i \in 1..n : ts[i].origin \in live \cup {NULL}
  BY DEF OriginsOf
<1>3. IdsOf(c) = (made + 1)..(made + n)
  <2> HIDE DEF c, n
  <2>1. ASSUME NEW x \in IdsOf(c) PROVE x \in (made + 1)..(made + n)
    BY <1>1 DEF IdsOf
  <2>2. ASSUME NEW x \in (made + 1)..(made + n) PROVE x \in IdsOf(c)
    <3>1. x - made \in 1..n /\ c[x - made].id = x
      BY <1>1
    <3>2. QED
      BY <1>1, <3>1 DEF IdsOf
  <2>3. QED
    BY <2>1, <2>2
<1>4. OriginsOf(c) = OriginsOf(ts)
  BY <1>1 DEF OriginsOf
<1>5. Listed(c, lo, live)
  <2> HIDE DEF c, n
  <2>1. Distinct(c)
    BY <1>1 DEF Distinct
  <2>2. ASSUME NEW k \in 1..n PROVE c[k].id \in live /\ lo < c[k].id /\ c[k].origin \in live \cup {NULL}
    <3>1. made + k \in (made + 1)..(made + n) /\ lo < made + k
      BY <1>1
    <3>2. c[k].id = made + k /\ c[k].origin = ts[k].origin
      BY <1>1
    <3>3. QED
      BY <1>2, <3>1, <3>2
  <2>3. QED
    BY <1>1, <2>1, <2>2 DEF Listed
<1>6. QED
  BY <1>3, <1>4, <1>5

-----------------------------------------------------------------------------
(* The list of what was allocated.                                         *)

LEMMA LiveFacts ==
  ASSUME NEW ch, NEW n \in Nat, Allocated(ch, n)
  PROVE  Live(ch) \subseteq 1..n /\ \A t \in Live(ch) : t \in Nat /\ t > 0 /\ t <= n
  BY DEF Allocated, Live

LEMMA AppendedRising ==
  ASSUME NEW ch, NEW m \in Nat, Allocated(ch, m), NEW n \in Nat
  PROVE  LET more == ch \o [i \in 1..n |-> m + i]
         IN  Allocated(more, m + n) /\ Live(more) = Live(ch) \cup ((m + 1)..(m + n))
<1> DEFINE new == [i \in 1..n |-> m + i]
           more == ch \o new
<1>1. new \in Seq(1..(m + n)) /\ Len(new) = n /\ \A i \in 1..n : new[i] = m + i
  OBVIOUS
<1>2. ch \in Seq(1..(m + n)) /\ Rising(ch) /\ \A k \in 1..Len(ch) : ch[k] \in 1..m
  BY DEF Allocated
<1> HIDE DEF new
<1>3. /\ more \in Seq(1..(m + n)) /\ Len(more) = Len(ch) + n
      /\ \A k \in 1..Len(ch) : more[k] = ch[k]
      /\ \A k \in 1..n : more[Len(ch) + k] = m + k
  <2> DEFINE S == 1..(m + n)
  <2>1. new \in Seq(S) /\ ch \in Seq(S)
    BY <1>1, <1>2
  <2> HIDE DEF S
  <2>2. /\ more \in Seq(S) /\ Len(more) = Len(ch) + Len(new)
        /\ \A k \in 1..Len(ch) : more[k] = ch[k]
        /\ \A k \in 1..Len(new) : more[Len(ch) + k] = new[k]
    BY <2>1
  <2> HIDE DEF more
  <2>3. QED
    BY <1>1, <2>2 DEF S
<1> HIDE DEF more
<1>4. Len(ch) \in Nat
  BY <1>2
<1>5. \A k \in 1..Len(more) : k \in 1..Len(ch) \/ (k - Len(ch) \in 1..n /\ more[k] = m + (k - Len(ch)))
  <2>1. ASSUME NEW k \in 1..Len(more), ~(k \in 1..Len(ch))
        PROVE  k - Len(ch) \in 1..n /\ more[k] = m + (k - Len(ch))
    <3>1. k - Len(ch) \in 1..n /\ Len(ch) + (k - Len(ch)) = k
      BY <1>3, <1>4, <2>1
    <3>2. QED
      BY <1>3, <3>1
  <2>2. QED
    BY <2>1
<1>6. Rising(more)
  <2>1. ASSUME NEW k \in 1..Len(more), NEW j \in 1..(k - 1) PROVE more[j] < more[k]
    <3>1. j \in 1..Len(more)
      BY <1>3, <1>4
    <3>2. CASE k \in 1..Len(ch)
      <4>1. j \in 1..Len(ch)
        BY <1>4, <3>2
      <4>2. QED
        BY <1>2, <1>3, <3>2, <4>1 DEF Rising
    <3>3. CASE k \notin 1..Len(ch)
      <4>1. k - Len(ch) \in 1..n /\ more[k] = m + (k - Len(ch))
        BY <1>5, <3>3
      <4>2. CASE j \in 1..Len(ch)
        <5>1. more[j] \in 1..m
          BY <1>2, <1>3, <4>2
        <5>2. QED
          BY <1>4, <4>1, <5>1
      <4>3. CASE j \notin 1..Len(ch)
        BY <1>4, <1>5, <3>1, <4>1, <4>3
      <4>4. QED
        BY <4>2, <4>3
    <3>4. QED
      BY <3>2, <3>3
  <2>2. QED
    BY <2>1 DEF Rising
<1>7. Live(more) = Live(ch) \cup ((m + 1)..(m + n))
  <2>1. ASSUME NEW t \in Live(more) PROVE t \in Live(ch) \cup ((m + 1)..(m + n))
    <3>1. PICK k \in 1..Len(more) : t = more[k]
      BY DEF Live
    <3>2. CASE k \in 1..Len(ch)
      BY <1>3, <3>1, <3>2 DEF Live
    <3>3. CASE k \notin 1..Len(ch)
      BY <1>4, <1>5, <3>1, <3>3
    <3>4. QED
      BY <3>2, <3>3
  <2>2. ASSUME NEW t \in Live(ch) PROVE t \in Live(more)
    <3>1. PICK k \in 1..Len(ch) : t = ch[k]
      BY DEF Live
    <3>2. k \in 1..Len(more) /\ t = more[k]
      BY <1>3, <1>4, <3>1
    <3>3. QED
      BY <3>2 DEF Live
  <2>3. ASSUME NEW t \in (m + 1)..(m + n) PROVE t \in Live(more)
    <3>1. t - m \in 1..n /\ Len(ch) + (t - m) \in 1..Len(more)
      BY <1>3, <1>4
    <3>2. more[Len(ch) + (t - m)] = t
      <4>1. more[Len(ch) + (t - m)] = m + (t - m)
        BY <1>3, <3>1
      <4>2. QED
        BY <4>1
    <3>3. QED
      BY <3>1, <3>2 DEF Live
  <2>4. QED
    BY <2>1, <2>2, <2>3
<1>8. Allocated(more, m + n)
  BY <1>3, <1>6 DEF Allocated
<1>9. QED
  BY <1>7, <1>8 DEF more, new

LEMMA Grows ==
  ASSUME NEW n \in Nat, made \in Nat, Allocated(chain, made), Allocate(n)
  PROVE  /\ made' = made + n /\ Allocated(chain', made')
         /\ Live(chain') = Live(chain) \cup ((made + 1)..(made + n))
  BY AppendedRising DEF Allocate

LEMMA LatestAllocated ==
  ASSUME NEW ch, NEW n \in Nat, Allocated(ch, n), Live(ch) # {}
  PROVE  Last(ch) \in Live(ch) /\ \A t \in Live(ch) : t <= Last(ch)
<1>1. /\ ch \in Seq(1..n) /\ Rising(ch) /\ Len(ch) \in Nat /\ Len(ch) > 0
  BY DEF Allocated, Live
<1>2. Last(ch) = ch[Len(ch)] /\ Len(ch) \in 1..Len(ch)
  BY <1>1 DEF Last
<1>3. ASSUME NEW k \in 1..Len(ch) PROVE ch[k] <= ch[Len(ch)]
  <2>1. k = Len(ch) \/ k \in 1..(Len(ch) - 1)
    BY <1>1
  <2>2. ch[k] \in Nat /\ ch[Len(ch)] \in Nat
    BY <1>1, <1>2
  <2>3. QED
    BY <1>1, <1>2, <2>1, <2>2 DEF Rising
<1>4. QED
  BY <1>2, <1>3 DEF Live

LEMMA OnlyFacts ==
  ASSUME NEW S, NEW ch \in Seq(S), NEW ids, S \subseteq Int, Rising(ch)
  PROVE  Only(ch, ids) \in Seq(S) /\ Rising(Only(ch, ids)) /\ Live(Only(ch, ids)) = Live(ch) \cap ids
<1> DEFINE n == Len(ch)
           From(f) == [i \in 0..n |-> IF i = 0 THEN <<>>
                                      ELSE IF ch[i] \in ids THEN Append(f[i - 1], ch[i]) ELSE f[i - 1]]
           F == CHOOSE f : f = From(f)
<1>1. Only(ch, ids) = F[n]
  BY DEF Only
<1>2. n \in Nat
  OBVIOUS
<1> HIDE DEF n
<1>3. F = From(F)
  <2> DEFINE h == [i \in 1..n |-> [s \in Seq(S) |-> IF ch[i] \in ids THEN Append(s, ch[i]) ELSE s]]
  <2>1. \A i \in 1..n : ch[i] \in S
    BY DEF n
  <2>2. h \in [1..n -> [Seq(S) -> Seq(S)]] /\ <<>> \in Seq(S)
    BY <2>1
  <2>3. \A i \in 1..n, s \in Seq(S) : h[i][s] = IF ch[i] \in ids THEN Append(s, ch[i]) ELSE s
    OBVIOUS
  <2> DEFINE none == <<>>
             All == Seq(S)
  <2> HIDE DEF h, none, All
  <2>4. PICK f \in [0..n -> All] : Follows(f, n, none, h)
    <3>1. n \in Nat /\ h \in [1..n -> [All -> All]] /\ none \in All
      BY <1>2, <2>2 DEF All, none
    <3>2. QED
      BY <3>1, Recursion
  <2>5. \A i \in 0..n : f[i] = From(f)[i]
    <3>1. ASSUME NEW i \in 1..n PROVE f[i] = From(f)[i]
      <4>1. f[i - 1] \in Seq(S)
        BY <1>2 DEF All
      <4>2. f[i] = IF ch[i] \in ids THEN Append(f[i - 1], ch[i]) ELSE f[i - 1]
        BY <2>3, <2>4, <4>1 DEF Follows
      <4>3. QED
        BY <4>2
    <3>2. f[0] = From(f)[0]
      BY <1>2, <2>4 DEF none, Follows
    <3>3. \A i \in 0..n : i = 0 \/ i \in 1..n
      BY <1>2
    <3> HIDE DEF From
    <3>4. QED
      BY <3>1, <3>2, <3>3
  <2>6. f = From(f)
    BY <2>5
  <2> HIDE DEF From
  <2>7. QED
    BY <2>6
<1> HIDE DEF F
<1>4. /\ F[0] = <<>>
      /\ \A i \in 1..n : F[i] = IF ch[i] \in ids THEN Append(F[i - 1], ch[i]) ELSE F[i - 1]
  <2> DEFINE g == From(F)
  <2>1. g[0] = <<>>
    BY <1>2
  <2>2. \A i \in 1..n : g[i] = IF ch[i] \in ids THEN Append(F[i - 1], ch[i]) ELSE F[i - 1]
    BY <1>2
  <2>3. F = g
    BY <1>3
  <2> HIDE DEF g
  <2>4. QED
    BY <2>1, <2>2, <2>3
<1> DEFINE Drawn(i, s) == s \in Seq(S) /\ Rising(s) /\ Live(s) = {ch[j] : j \in 1..i} \cap ids
           G == {i \in 0..n : Drawn(i, F[i])}
<1>5. 0 \in G
  <2>1. Drawn(0, <<>>)
    BY DEF Rising, Live
  <2> HIDE DEF Drawn
  <2>2. QED
    BY <1>2, <1>4, <2>1
<1>6. ASSUME NEW i \in 1..n, Drawn(i - 1, F[i - 1]) PROVE Drawn(i, F[i])
  <2> DEFINE s == F[i - 1]
             x == ch[i]
  <2>1. s \in Seq(S) /\ Rising(s) /\ Live(s) = {ch[j] : j \in 1..(i - 1)} \cap ids
    BY <1>6
  <2>2. i \in 1..Len(ch) /\ x \in S /\ x \in Int
    <3>1. i \in 1..Len(ch)
      BY DEF n
    <3>2. ch[i] \in S
      BY <3>1
    <3>3. QED
      BY <3>1, <3>2
  <2>3. {ch[j] : j \in 1..i} = {ch[j] : j \in 1..(i - 1)} \cup {x}
    <3>1. 1..i = 1..(i - 1) \cup {i}
      BY <2>2
    <3>2. QED
      BY <3>1
  <2>4. CASE x \notin ids
    <3>1. F[i] = s
      BY <1>4, <2>4
    <3> HIDE DEF s, x
    <3>2. QED
      BY <2>1, <2>3, <2>4, <3>1
  <2>5. CASE x \in ids
    <3> DEFINE more == Append(s, x)
    <3>1. F[i] = more
      BY <1>4, <2>5
    <3>2. \A k \in 1..Len(s) : s[k] < x
      <4>1. \A j \in 1..(i - 1) : ch[j] < ch[i]
        BY <2>2 DEF Rising
      <4>2. \A k \in 1..Len(s) : s[k] \in Live(s)
        BY DEF Live
      <4> HIDE DEF s, x
      <4>3. QED
        BY <2>1, <4>1, <4>2 DEF x
    <3> HIDE DEF s, x
    <3>3. /\ more \in Seq(S) /\ Len(more) = Len(s) + 1 /\ more[Len(s) + 1] = x
          /\ \A k \in 1..Len(s) : more[k] = s[k]
      BY <2>1, <2>2
    <3> HIDE DEF more
    <3>4. /\ \A k \in 1..Len(more) : k = Len(s) + 1 \/ k \in 1..Len(s)
          /\ \A k \in 1..Len(s) : k \in 1..Len(more)
          /\ Len(s) + 1 \in 1..Len(more)
      BY <2>1, <3>3
    <3>5. Rising(more)
      <4>1. ASSUME NEW k \in 1..Len(more), NEW j \in 1..(k - 1) PROVE more[j] < more[k]
        <5>1. j \in 1..Len(s)
          BY <2>1, <3>3
        <5>2. CASE k \in 1..Len(s)
          BY <2>1, <3>3, <5>1, <5>2 DEF Rising
        <5>3. CASE k = Len(s) + 1
          BY <3>2, <3>3, <5>1, <5>3
        <5>4. QED
          BY <3>4, <5>2, <5>3
      <4>2. QED
        BY <4>1 DEF Rising
    <3>6. Live(more) = Live(s) \cup {x}
      BY <3>3, <3>4 DEF Live
    <3>7. Live(more) = {ch[j] : j \in 1..i} \cap ids
      BY <2>1, <2>3, <2>5, <3>6
    <3>8. QED
      BY <3>1, <3>3, <3>5, <3>7
  <2>6. QED
    BY <2>4, <2>5
<1> HIDE DEF Drawn
<1>7. \A i \in 1..n : i - 1 \in G => i \in G
  BY <1>6
<1> HIDE DEF G
<1>8. \A i \in 0..n : i \in G
  BY <1>2, <1>5, <1>7, Induct, Zenon
<1>9. Drawn(n, F[n])
  BY <1>2, <1>8 DEF G
<1>10. QED
  BY <1>1, <1>9 DEF Drawn, n, Live

\* One rising list after another.
LEMMA JoinRising ==
  ASSUME NEW S, S \subseteq Int, NEW a \in Seq(S), NEW b \in Seq(S), Rising(a), Rising(b),
         \A x \in Live(a), y \in Live(b) : x < y
  PROVE  a \o b \in Seq(S) /\ Rising(a \o b) /\ Live(a \o b) = Live(a) \cup Live(b)
<1> DEFINE c == a \o b
<1>1. /\ c \in Seq(S) /\ Len(c) = Len(a) + Len(b) /\ Len(a) \in Nat /\ Len(b) \in Nat
      /\ \A k \in 1..Len(a) : c[k] = a[k]
      /\ \A k \in 1..Len(b) : c[Len(a) + k] = b[k]
  OBVIOUS
<1> HIDE DEF c
<1>2. \A k \in 1..Len(c) : (k \in 1..Len(a) /\ c[k] = a[k])
                           \/ (k - Len(a) \in 1..Len(b) /\ c[k] = b[k - Len(a)])
  <2>1. ASSUME NEW k \in 1..Len(c), ~(k \in 1..Len(a))
        PROVE  k - Len(a) \in 1..Len(b) /\ c[k] = b[k - Len(a)]
    <3>1. k - Len(a) \in 1..Len(b) /\ Len(a) + (k - Len(a)) = k
      BY <1>1, <2>1
    <3>2. QED
      BY <1>1, <3>1
  <2>2. QED
    BY <1>1, <2>1
<1>3. (\A k \in 1..Len(a) : k \in 1..Len(c)) /\ \A k \in 1..Len(b) : Len(a) + k \in 1..Len(c)
  BY <1>1
<1>4. Live(c) = Live(a) \cup Live(b)
  <2>1. ASSUME NEW x \in Live(c) PROVE x \in Live(a) \cup Live(b)
    <3>1. PICK k \in 1..Len(c) : x = c[k]
      BY DEF Live
    <3>2. QED
      BY <1>2, <3>1 DEF Live
  <2>2. ASSUME NEW x \in Live(a) PROVE x \in Live(c)
    BY <1>1, <1>3 DEF Live
  <2>3. ASSUME NEW x \in Live(b) PROVE x \in Live(c)
    <3>1. PICK k \in 1..Len(b) : x = b[k]
      BY DEF Live
    <3>2. x = c[Len(a) + k] /\ Len(a) + k \in 1..Len(c)
      BY <1>1, <1>3, <3>1
    <3>3. QED
      BY <3>2 DEF Live
  <2>4. QED
    BY <2>1, <2>2, <2>3
<1>5. ASSUME NEW k \in 1..Len(c), NEW j \in 1..(k - 1) PROVE c[j] < c[k]
  <2>1. j \in 1..Len(c)
    BY <1>1
  <2>2. CASE k \in 1..Len(a) /\ c[k] = a[k]
    <3>1. j \in 1..Len(a) /\ j \in 1..(k - 1)
      BY <1>1, <2>2
    <3>2. QED
      BY <1>1, <2>2, <3>1 DEF Rising
  <2>3. CASE k - Len(a) \in 1..Len(b) /\ c[k] = b[k - Len(a)]
    <3>1. CASE j \in 1..Len(a) /\ c[j] = a[j]
      BY <2>3, <3>1 DEF Live
    <3>2. CASE j - Len(a) \in 1..Len(b) /\ c[j] = b[j - Len(a)]
      <4>1. j - Len(a) \in 1..((k - Len(a)) - 1)
        BY <1>1, <2>1, <3>2
      <4>2. QED
        BY <2>3, <3>2, <4>1 DEF Rising
    <3>3. QED
      BY <1>2, <2>1, <3>1, <3>2
  <2>4. QED
    BY <1>2, <2>2, <2>3
<1>6. QED
  BY <1>1, <1>4, <1>5 DEF Rising, c

\* The tokens that stay when a call ends.
LEMMA Stays ==
  ASSUME made \in Nat, Allocated(chain, made), NEW new,
         NEW e, e = Call.free_alloc_end, e \in Live(chain)
  PROVE  /\ Allocated(Remaining(new), made)
         /\ Live(Remaining(new)) =
              {t \in Live(chain) : t <= e} \cup {t \in Live(chain) : t > e /\ t \in ToSet(Ids(new))}
<1> DEFINE n == Len(chain)
           Ends == {0} \cup {k \in DOMAIN chain : chain[k] = e}
           end == Max(Ends)
           ids == ToSet(Ids(new))
           S == 1..made
<1>1. /\ chain \in Seq(S) /\ S \subseteq Int /\ n \in Nat /\ DOMAIN chain = 1..n /\ Rising(chain)
      /\ \A k \in 1..n : chain[k] \in Int
  BY DEF Allocated
<1>2. PICK p \in 1..n : chain[p] = e
  BY DEF Live
<1>3. \A k \in 1..n : (k < p => chain[k] < e) /\ (k > p => chain[k] > e)
  <2>1. ASSUME NEW k \in 1..n, k < p PROVE chain[k] < e
    <3>1. k \in 1..(p - 1)
      BY <2>1
    <3>2. QED
      BY <1>1, <1>2, <3>1 DEF Rising
  <2>2. ASSUME NEW k \in 1..n, k > p PROVE chain[k] > e
    <3>1. p \in 1..(k - 1)
      BY <2>2
    <3>2. chain[p] < chain[k]
      BY <1>1, <3>1 DEF Rising
    <3>3. QED
      BY <1>1, <1>2, <3>2
  <2>3. QED
    BY <2>1, <2>2
<1>4. end = p
  <2>1. Ends = {0, p}
    <3>1. ASSUME NEW k \in 1..n, chain[k] = e PROVE k = p
      BY <1>1, <1>2, <1>3, <3>1
    <3>2. QED
      BY <1>1, <1>2, <3>1
  <2> HIDE DEF Ends
  <2>2. Max(Ends) \in Ends /\ \A y \in Ends : y <= Max(Ends)
    <3>1. Ends \subseteq 0..n /\ Ends # {}
      BY <1>1, <1>2, <2>1
    <3>2. QED
      BY <1>1, <3>1, Greatest
  <2>3. QED
    BY <1>1, <1>2, <2>1, <2>2
<1> DEFINE a == SubSeq(chain, 1, p)
           rest == SubSeq(chain, p + 1, n)
           b == Only(rest, ids)
<1>5. Remaining(new) = a \o b
  BY <1>4 DEF Remaining
<1> HIDE DEF end, Ends, ids, S
<1>6. /\ a \in Seq(S) /\ Len(a) = p /\ \A k \in 1..p : a[k] = chain[k]
  <2>1. p \in 0..Len(chain)
    BY <1>2
  <2> HIDE DEF n
  <2>2. QED
    BY <1>1, <2>1
<1>7. /\ rest \in Seq(S) /\ Len(rest) = n - p /\ \A k \in 1..(n - p) : rest[k] = chain[p + k]
  <2>1. p + 1 \in 1..(n + 1) /\ (p + 1) + 1 - 1 = p + 1
    BY <1>1, <1>2
  <2> DEFINE q == p + 1
  <2>2. q \in 1..(n + 1) /\ \A k \in 1..(n - p) : q + k - 1 = p + k
    BY <1>1, <1>2
  <2>3. SubSeq(chain, q, n) \in Seq(S) /\ Len(SubSeq(chain, q, n)) = (IF q <= n THEN n - q + 1 ELSE 0)
        /\ \A k \in 1..(n - q + 1) : SubSeq(chain, q, n)[k] = chain[q + k - 1]
    <3> HIDE DEF q
    <3>1. chain \in Seq(S) /\ n = Len(chain)
      BY <1>1
    <3>2. QED
      BY <1>1, <2>2, <3>1, SubSeqProperties
  <2>4. n - q + 1 = n - p
    BY <1>1, <1>2
  <2> HIDE DEF n
  <2>5. QED
    BY <1>1, <1>2, <2>2, <2>3, <2>4
<1> HIDE DEF a, rest
<1>8. Rising(a) /\ Live(a) = {t \in Live(chain) : t <= e}
  <2>1. Rising(a)
    <3>1. \A k \in 1..p : k \in 1..n /\ \A j \in 1..(k - 1) : j \in 1..p
      BY <1>1, <1>2
    <3>2. QED
      BY <1>1, <1>6, <3>1 DEF Rising
  <2>2. ASSUME NEW t \in Live(a) PROVE t \in Live(chain) /\ t <= e
    <3>1. PICK k \in 1..p : t = chain[k]
      BY <1>6 DEF Live
    <3>2. k \in 1..n /\ (k = p \/ k < p)
      BY <1>1, <1>2
    <3>3. QED
      BY <1>1, <1>2, <1>3, <3>1, <3>2 DEF Live
  <2>3. ASSUME NEW t \in Live(chain), t <= e PROVE t \in Live(a)
    <3>1. PICK k \in 1..n : t = chain[k]
      BY DEF Live
    <3>2. ~(k > p)
      BY <1>1, <1>2, <1>3, <2>3, <3>1
    <3>3. k \in 1..p
      BY <1>1, <1>2, <3>2
    <3>4. QED
      BY <1>6, <3>1, <3>3 DEF Live
  <2>4. QED
    BY <2>1, <2>2, <2>3
<1>9. Rising(rest) /\ Live(rest) = {t \in Live(chain) : t > e}
  <2>1. Rising(rest)
    <3>1. ASSUME NEW k \in 1..(n - p), NEW j \in 1..(k - 1) PROVE rest[j] < rest[k]
      <4>1. j \in 1..(n - p) /\ p + k \in 1..n /\ p + j \in 1..((p + k) - 1)
        BY <1>1, <1>2
      <4>2. chain[p + j] < chain[p + k]
        BY <1>1, <4>1 DEF Rising
      <4>3. QED
        BY <1>7, <4>1, <4>2
    <3>2. QED
      BY <1>7, <3>1 DEF Rising
  <2>2. ASSUME NEW t \in Live(rest) PROVE t \in Live(chain) /\ t > e
    <3>1. PICK k \in 1..(n - p) : t = chain[p + k]
      BY <1>7 DEF Live
    <3>2. p + k \in 1..n /\ p + k > p
      BY <1>1, <1>2
    <3>3. QED
      BY <1>3, <3>1, <3>2 DEF Live
  <2>3. ASSUME NEW t \in Live(chain), t > e PROVE t \in Live(rest)
    <3>1. PICK k \in 1..n : t = chain[k]
      BY DEF Live
    <3>2. k > p
      BY <1>1, <1>2, <1>3, <2>3, <3>1
    <3>3. k - p \in 1..(n - p) /\ p + (k - p) = k
      BY <1>1, <1>2, <3>2
    <3>4. rest[k - p] = t
      BY <1>7, <3>1, <3>3
    <3>5. QED
      BY <1>7, <3>3, <3>4 DEF Live
  <2>4. QED
    BY <2>1, <2>2, <2>3
<1>10. b \in Seq(S) /\ Rising(b) /\ Live(b) = Live(rest) \cap ids
  BY <1>1, <1>7, <1>9, OnlyFacts
<1> HIDE DEF b
<1>11. \A x \in Live(a), y \in Live(b) : x < y
  <2>1. e \in Int /\ \A t \in Live(chain) : t \in Int
    BY <1>1, <1>2 DEF Live
  <2>2. QED
    BY <2>1, <1>8, <1>9, <1>10
<1>12. a \o b \in Seq(S) /\ Rising(a \o b) /\ Live(a \o b) = Live(a) \cup Live(b)
  BY <1>1, <1>6, <1>8, <1>10, <1>11, JoinRising
<1>13. QED
  BY <1>5, <1>8, <1>9, <1>10, <1>12 DEF Allocated, S, ids

-----------------------------------------------------------------------------
(* What was live stays live.                                               *)

LEMMA UptoFacts ==
  ASSUME NEW cs, NEW i, NEW live, NEW more, live \subseteq more
  PROVE  Upto(cs, live, i) \subseteq Upto(cs, more, i) /\ Upto(cs, live, i) \subseteq live
  BY DEF Upto

LEMMA WiderCall ==
  ASSUME NEW c, NEW live, NEW more, live \subseteq more, CallLives(c, live)
  PROVE  CallLives(c, more)
  BY WiderList DEF CallLives

LEMMA WiderFrame ==
  ASSUME NEW f, NEW lo, NEW live, NEW more, live \subseteq more, FrameFits(f, lo, live)
  PROVE  FrameFits(f, lo, more)
  BY WiderList DEF FrameFits

LEMMA WiderCalls ==
  ASSUME NEW cs, NEW live, NEW more, live \subseteq more, Calls(cs, live)
  PROVE  Calls(cs, more)
  BY UptoFacts, WiderCall DEF Calls

LEMMA WiderFrames ==
  ASSUME NEW fs, NEW cs, NEW live, NEW more, live \subseteq more, Frames(fs, cs, live)
  PROVE  Frames(fs, cs, more)
  BY UptoFacts, WiderFrame DEF Frames

-----------------------------------------------------------------------------
(* The steps of a loop.                                                    *)

LEMMA Newest ==
  ASSUME Inv, Alloc
  PROVE  /\ made \in Nat /\ Allocated(chain, made) /\ 0 \notin Live(chain)
         /\ \A t \in Live(chain) : t \in Nat /\ t > 0 /\ t <= made
<1>1. made \in Nat
  BY DEF Inv, Types
<1>2. QED
  BY <1>1, LiveFacts DEF Alloc

\* The innermost loop, when it is not inside a call.
LEMMA LoopFacts ==
  ASSUME Inv, Alloc, Len(calls) = Top - 1, NEW lo, lo = Lo(calls, Top)
  PROVE  /\ Listed(Current.tokens, lo, Live(chain)) /\ Listed(Current.out, lo, Live(chain))
         /\ Apart(Current.tokens, Current.out)
         /\ lo \in Nat /\ lo <= made
         /\ Top > 1 => /\ Top - 1 \in 1..Len(calls) /\ Current.kind = "arg"
                       /\ ApartFrom(Current.out, calls[Top - 1])
                       /\ CallLives(calls[Top - 1], Live(chain))
                       /\ lo = calls[Top - 1].free_alloc_end /\ lo \in Live(chain)
         /\ Top = 1 => /\ lo = 0
                       /\ IdsOf(Current.tokens) \cap (OriginsOf(Current.tokens) \cup OriginsOf(Current.out)) = {}
<1>1. Top \in Nat \ {0} /\ Top = Len(frames) /\ Current = frames[Top] /\ Top \in 1..Len(frames)
  BY TopFacts DEF Inv, Top, Current
<1>2. FrameFits(Current, lo, Live(chain))
  <2>1. FrameFits(frames[Top], Lo(calls, Top), Upto(calls, Live(chain), Top))
    BY <1>1 DEF Alloc, Frames
  <2>2. ~(Top <= Len(calls))
    BY <1>1
  <2>3. QED
    BY <1>1, <2>1, <2>2 DEF Upto
<1>3. ASSUME Top > 1
      PROVE  /\ Top - 1 \in 1..Len(calls) /\ Current.kind = "arg"
             /\ ApartFrom(Current.out, calls[Top - 1])
             /\ CallLives(calls[Top - 1], Live(chain))
             /\ lo = calls[Top - 1].free_alloc_end /\ lo \in Live(chain)
  <2>1. Top - 1 \in 1..Len(calls) /\ Top \in 2..Len(frames) /\ (Top - 1) + 1 = Top /\ ~(Top <= Len(calls))
    BY <1>1, <1>3
  <2>2. ApartFrom(Current.out, calls[Top - 1])
    BY <1>1, <2>1 DEF Alloc, Between
  <2>3. CallLives(calls[Top - 1], Live(chain))
    <3>1. CallLives(calls[Top - 1], Upto(calls, Live(chain), (Top - 1) + 1))
      BY <2>1 DEF Alloc, Calls
    <3>2. QED
      BY <2>1, <3>1 DEF Upto
  <2>4. lo = calls[Top - 1].free_alloc_end
    BY <1>1, <1>3 DEF Lo
  <2>5. QED
    BY <1>1, <2>1, <2>2, <2>3, <2>4 DEF Alloc, Text, CallLives
<1>4. ASSUME Top = 1
      PROVE  /\ lo = 0
             /\ IdsOf(Current.tokens) \cap (OriginsOf(Current.tokens) \cup OriginsOf(Current.out)) = {}
  BY <1>1, <1>4 DEF Alloc, Text, Lo
<1>5. lo \in Nat /\ lo <= made
  BY <1>1, <1>3, <1>4, Newest
<1>6. QED
  BY <1>2, <1>3, <1>4, <1>5 DEF FrameFits

LEMMA LoopStep ==
  ASSUME Inv, Alloc, Len(calls) = Top - 1, NEW ts, NEW out, Updated(frames', ts, out), UNCHANGED calls,
         NEW live, live = Live(chain'), NEW lo, lo = Lo(calls, Top),
         Allocated(chain', made'), Live(chain) \subseteq live,
         Listed(ts, lo, live), Listed(out, lo, live), Apart(ts, out),
         Top > 1 => ApartFrom(out, calls[Top - 1]),
         Top = 1 => IdsOf(ts) \cap (OriginsOf(ts) \cup OriginsOf(out)) = {}
  PROVE  Alloc'
<1>1. Top \in Nat \ {0} /\ Top = Len(frames) /\ Len(frames') = Top
      /\ frames'[Top].tokens = ts /\ frames'[Top].out = out
      /\ \A i \in 1..Top : frames'[i].kind = frames[i].kind /\ (i # Top => frames'[i] = frames[i])
  <2>1. Top \in Nat \ {0} /\ Top = Len(frames)
    BY TopFacts DEF Inv, Top
  <2>2. \A i \in 1..Top : i # Top => i < Top
    BY <2>1
  <2>3. QED
    BY <2>1, <2>2 DEF Updated
<1>2. Frames(frames', calls, live)
  <2>1. Frames(frames, calls, live)
    BY WiderFrames DEF Alloc
  <2>2. FrameFits(frames'[Top], lo, live)
    BY <1>1 DEF FrameFits
  <2>3. Upto(calls, live, Top) = live
    BY <1>1 DEF Upto
  <2>4. ASSUME NEW i \in 1..Len(frames') PROVE FrameFits(frames'[i], Lo(calls, i), Upto(calls, live, i))
    <3>1. CASE i = Top
      BY <2>2, <2>3, <3>1
    <3>2. CASE i # Top
      <4>1. i \in 1..Len(frames) /\ frames'[i] = frames[i]
        BY <1>1, <3>2
      <4>2. QED
        BY <2>1, <4>1 DEF Frames
    <3>3. QED
      BY <3>1, <3>2
  <2>5. QED
    BY <2>4 DEF Frames
<1>3. Calls(calls, live)
  BY WiderCalls DEF Alloc
<1>4. Between(frames', calls)
  <2>1. ASSUME NEW i \in 1..Len(calls), i < Len(frames') PROVE ApartFrom(frames'[i + 1].out, calls[i])
    <3>1. CASE i + 1 = Top
      <4>1. i = Top - 1 /\ Top > 1
        BY <1>1, <3>1
      <4>2. QED
        BY <1>1, <3>1, <4>1
    <3>2. CASE i + 1 # Top
      <4>1. i + 1 \in 1..Top /\ i < Len(frames)
        BY <1>1, <2>1
      <4>2. frames'[i + 1] = frames[i + 1]
        BY <1>1, <3>2, <4>1
      <4>3. QED
        BY <4>1, <4>2 DEF Alloc, Between
    <3>3. QED
      BY <3>1, <3>2
  <2>2. QED
    BY <2>1 DEF Between
<1>5. Text(frames', calls)
  <2>1. \A i \in 2..Len(frames') : frames'[i].kind = "arg"
    <3>1. \A i \in 2..Len(frames') : i \in 1..Top /\ i \in 2..Len(frames)
      BY <1>1
    <3>2. QED
      BY <1>1, <3>1 DEF Alloc, Text
  <2>2. CASE Top = 1
    <3>1. calls = <<>>
      <4>1. Len(calls) = 0 /\ \E e : calls \in Seq(CallOf(e))
        BY <2>2 DEF Inv, Types
      <4>2. QED
        BY <4>1
    <3>2. QED
      BY <1>1, <2>1, <2>2, <3>1 DEF Text
  <2>3. CASE Top # 1
    <3>1. frames'[1] = frames[1]
      BY <1>1, <2>3
    <3>2. QED
      BY <2>1, <3>1 DEF Alloc, Text
  <2>4. QED
    BY <2>2, <2>3
<1>6. QED
  BY <1>2, <1>3, <1>4, <1>5 DEF Alloc

\* The head of a list and the rest.
LEMMA HeadApart ==
  ASSUME Inv, Scanning, Alloc, NEW lo, lo = Lo(calls, Top)
  PROVE  /\ tok.id \in IdsOf(Current.tokens) /\ tok.id \notin IdsOf(Rest)
         /\ tok.id \in Live(chain) /\ lo < tok.id /\ tok.origin \in Live(chain) \cup {NULL}
         /\ tok.origin \in OriginsOf(Current.tokens)
         /\ Listed(Rest, lo, Live(chain)) /\ IdsOf(Rest) \subseteq IdsOf(Current.tokens)
         /\ OriginsOf(Rest) \subseteq OriginsOf(Current.tokens)
         /\ Origin(tok) \in Live(chain)
         /\ Top = 1 => Origin(tok) \notin IdsOf(Rest)
<1> DEFINE all == Current.tokens
           n == Len(Rest)
<1>1. /\ all \in Seq(Token) /\ tok = all[1] /\ Rest \in Seq(Token) /\ Len(Rest) \in Nat
      /\ Len(all) = n + 1 /\ Suffix(Rest, all)
      /\ Listed(all, lo, Live(chain)) /\ (Top = 1 => IdsOf(all) \cap OriginsOf(all) = {})
  BY ScanFacts, TopFacts, LoopFacts DEF Inv
<1> HIDE DEF all
<1>2. 1 \in 1..Len(all) /\ \A k \in 1..n : k + 1 \in 1..Len(all) /\ k + 1 # 1 /\ Rest[k] = all[k + 1]
  <2>1. \A k \in 1..n : k + 1 \in 1..Len(all) /\ k + 1 # 1 /\ Len(all) - n + k = k + 1
    BY <1>1
  <2>2. QED
    BY <1>1, <2>1 DEF Suffix
<1>3. tok.id \in IdsOf(all) /\ tok.origin \in OriginsOf(all)
  BY <1>1, <1>2 DEF IdsOf, OriginsOf
<1>4. tok.id \notin IdsOf(Rest)
  BY <1>1, <1>2 DEF IdsOf, Listed, Distinct
<1>5. tok.id \in Live(chain) /\ lo < tok.id /\ tok.origin \in Live(chain) \cup {NULL}
  BY <1>1, <1>2 DEF Listed
<1>6. /\ Listed(Rest, lo, Live(chain)) /\ IdsOf(Rest) \subseteq IdsOf(all)
      /\ OriginsOf(Rest) \subseteq OriginsOf(all)
  BY <1>1, PartOfList
<1>7. Origin(tok) \in Live(chain) /\ (Top = 1 => Origin(tok) \notin IdsOf(Rest))
  BY <1>1, <1>3, <1>4, <1>5, <1>6 DEF Origin
<1>8. QED
  BY <1>3, <1>4, <1>5, <1>6, <1>7 DEF all

\* What is made is not in a list.
LEMMA NotYet ==
  ASSUME Inv, Alloc, NEW ts, NEW lo, Listed(ts, lo, Live(chain))
  PROVE  /\ \A x \in IdsOf(ts) : x \in Nat /\ x <= made
         /\ \A x \in OriginsOf(ts) : x \in Nat /\ x <= made
<1>1. \A t \in Live(chain) : t \in Nat /\ t <= made
  BY Newest
<1>2. made \in Nat
  BY Newest
<1>3. QED
  BY <1>1, <1>2, ListedIds DEF NULL

\* A loop passes a token and keeps one, t or what it is copied to.
LEMMA Passes ==
  ASSUME Inv, Alloc, Scanning, NEW ts, Suffix(ts, Rest), NEW kept \in Seq(Token), NEW ls,
         Continue(ts, kept, ls), UNCHANGED calls, Allocated(chain', made'), Live(chain) \subseteq Live(chain'),
         NEW lo, lo = Lo(calls, Top), Listed(kept, lo, Live(chain')),
         \A x \in IdsOf(kept) : x = tok.id \/ x > made,
         OriginsOf(kept) \subseteq OriginsOf(Current.tokens),
         Top > 1 => \A x \in IdsOf(kept) : x > made
  PROVE  Alloc'
<1> DEFINE out == Current.out \o kept
           live == Live(chain')
<1>1. /\ Types /\ Top \in Nat \ {0} /\ Rest \in Seq(Token) /\ ts \in Seq(Token) /\ Current.out \in Seq(Token)
      /\ Len(calls) = Top - 1
  BY ScanFacts, TopFacts DEF Inv, Suffix
<1>2. Updated(frames', ts, out)
  BY <1>1, UpdateBoth DEF Continue
<1>3. /\ Listed(ts, lo, Live(chain)) /\ IdsOf(ts) \subseteq IdsOf(Rest) /\ OriginsOf(ts) \subseteq OriginsOf(Rest)
  BY <1>1, HeadApart, PartOfList
<1>4. IdsOf(ts) \subseteq IdsOf(Current.tokens) /\ OriginsOf(ts) \subseteq OriginsOf(Current.tokens)
      /\ tok.id \notin IdsOf(ts) /\ tok.id \in IdsOf(Current.tokens)
  BY <1>3, HeadApart
<1>5. IdsOf(out) = IdsOf(Current.out) \cup IdsOf(kept) /\ OriginsOf(out) = OriginsOf(Current.out) \cup OriginsOf(kept)
  BY <1>1, JoinIds
<1>6. /\ Listed(Current.tokens, lo, Live(chain)) /\ Listed(Current.out, lo, Live(chain))
      /\ Apart(Current.tokens, Current.out)
  BY <1>1, LoopFacts
<1>7. made \in Nat /\ \A x \in IdsOf(Current.tokens) \cup IdsOf(Current.out) : x \in Nat /\ x <= made
  BY <1>6, Newest, NotYet
<1>8. Apart(Current.out, kept)
  BY <1>4, <1>6, <1>7 DEF Apart
<1>9. Listed(out, lo, live)
  BY <1>1, <1>6, <1>8, JoinLists, WiderList
<1>10. Listed(ts, lo, live)
  BY <1>3, WiderList
<1> HIDE DEF out
<1>11. Apart(ts, out)
  BY <1>4, <1>5, <1>6, <1>7 DEF Apart
<1>12. ASSUME Top > 1 PROVE ApartFrom(out, calls[Top - 1])
  <2> DEFINE c == calls[Top - 1]
  <2>1. ApartFrom(Current.out, c) /\ CallLives(c, Live(chain))
    BY <1>1, <1>12, LoopFacts
  <2> HIDE DEF c
  <2>2. \A x \in IdsOf(c.arg) \cup IdsOf(Expanded(c)) \cup IdsOf(c.out) : x \in Nat /\ x <= made
    <3>1. /\ Listed(c.arg, c.free_alloc_end, Live(chain)) /\ Listed(Expanded(c), c.free_alloc_end, Live(chain))
          /\ Listed(c.out, c.free_alloc_end, Live(chain))
      BY <2>1 DEF CallLives
    <3>2. QED
      BY <3>1, NotYet
  <2>3. \A x \in IdsOf(kept) : x > made
    BY <1>12
  <2>4. QED
    BY <1>5, <1>7, <2>1, <2>2, <2>3 DEF ApartFrom, Apart, c
<1>13. ASSUME Top = 1 PROVE IdsOf(ts) \cap (OriginsOf(ts) \cup OriginsOf(out)) = {}
  <2>1. IdsOf(Current.tokens) \cap (OriginsOf(Current.tokens) \cup OriginsOf(Current.out)) = {}
    BY <1>1, <1>13, LoopFacts
  <2>2. QED
    BY <2>1, <1>4, <1>5
<1>14. QED
  BY <1>1, <1>2, <1>9, <1>10, <1>11, <1>12, <1>13, LoopStep

LEMMA SameMemory ==
  ASSUME Alloc, UNCHANGED memory
  PROVE  Allocated(chain', made') /\ Live(chain') = Live(chain)
  BY DEF Alloc, memory

LEMMA RestIsRest ==
  ASSUME Inv, Scanning
  PROVE  Suffix(Rest, Rest)
  BY ScanFacts DEF Suffix

LEMMA KeepAlloc == ASSUME Inv, Alloc, Keep PROVE Alloc'
<1> DEFINE t == [tok EXCEPT !.dont_expand = @ \/ (Named /\ ~Expandable)]
           one == <<t>>
           lo == Lo(calls, Top)
<1>1. Scanning /\ UNCHANGED <<macros, calls, status>>
  BY DEF Keep
<1>2. tok \in Token /\ t \in Token /\ t.id = tok.id /\ t.origin = tok.origin
  <2>1. tok \in Token
    BY <1>1, ScanFacts
  <2>2. QED
    BY <2>1 DEF Token
<1>3. /\ (Current.kind = "arg" => Continue(Rest, Copies(one), locks) /\ Allocate(1))
      /\ (Current.kind # "arg" => Continue(Rest, one, locks) /\ UNCHANGED memory)
  BY DEF Keep
<1> HIDE DEF t
<1>4. one \in Seq(Token) /\ IdsOf(one) = {tok.id} /\ OriginsOf(one) = {tok.origin} /\ Len(one) = 1
  BY <1>2, OneToken
<1>5. \A live : tok.id \in live /\ lo < tok.id /\ tok.origin \in live \cup {NULL} => Listed(one, lo, live)
  BY <1>2, OneToken
<1>6. /\ tok.id \in Live(chain) /\ lo < tok.id /\ tok.origin \in Live(chain) \cup {NULL}
      /\ tok.origin \in OriginsOf(Current.tokens)
  BY <1>1, HeadApart
<1>7. /\ lo \in Nat /\ lo <= made /\ (Top > 1 => Current.kind = "arg") /\ Len(calls) = Top - 1
      /\ made \in Nat /\ Allocated(chain, made)
  BY <1>1, ScanFacts, LoopFacts, Newest
<1> HIDE DEF one
<1>8. CASE Current.kind = "arg"
  <2> DEFINE kept == Copies(one)
  <2>1. Continue(Rest, kept, locks) /\ Allocate(1)
    BY <1>3, <1>8
  <2>2. made' = made + 1 /\ Allocated(chain', made') /\ Live(chain') = Live(chain) \cup ((made + 1)..(made + 1))
    BY <1>7, <2>1, Grows
  <2>3. kept \in Seq(Token)
    BY <1>4, <1>7, CopyFacts
  <2>4. Listed(kept, lo, Live(chain')) /\ IdsOf(kept) = (made + 1)..(made + 1) /\ OriginsOf(kept) = {tok.origin}
    <3>1. OriginsOf(one) \subseteq Live(chain') \cup {NULL} /\ (made + 1)..(made + Len(one)) \subseteq Live(chain')
      BY <1>4, <1>6, <2>2
    <3> DEFINE live == Live(chain')
    <3>2. lo \in Int /\ lo <= made /\ made \in Nat /\ one \in Seq(Token)
          /\ OriginsOf(one) \subseteq live \cup {NULL} /\ (made + 1)..(made + Len(one)) \subseteq live
      BY <1>4, <1>7, <3>1
    <3> HIDE DEF live, lo
    <3>3. /\ Listed(Copies(one), lo, live) /\ IdsOf(Copies(one)) = (made + 1)..(made + Len(one))
          /\ OriginsOf(Copies(one)) = OriginsOf(one)
      BY <3>2, CopiesListed
    <3>4. QED
      BY <1>4, <3>3 DEF live
  <2> HIDE DEF kept, lo
  <2>5. \A x \in IdsOf(kept) : x > made
    BY <1>7, <2>4
  <2>6. QED
    BY <1>1, <1>6, <2>1, <2>2, <2>3, <2>4, <2>5, RestIsRest, Passes DEF lo
<1>9. CASE Current.kind # "arg"
  <2>1. Continue(Rest, one, locks) /\ UNCHANGED memory /\ ~(Top > 1)
    BY <1>3, <1>7, <1>9
  <2>2. Allocated(chain', made') /\ Live(chain') = Live(chain)
    BY <2>1, SameMemory
  <2>3. Listed(one, lo, Live(chain'))
    BY <1>5, <1>6, <2>2
  <2> HIDE DEF lo
  <2>4. QED
    BY <1>1, <1>4, <1>6, <2>1, <2>2, <2>3, RestIsRest, Passes DEF lo
<1>10. QED
  BY <1>8, <1>9

LEMMA Nothing ==
  ASSUME Alloc, UNCHANGED <<frames, calls, chain, made>>
  PROVE  Alloc'
  BY DEF Alloc

LEMMA FailAlloc == ASSUME Alloc, Fail PROVE Alloc'
  BY Nothing DEF Fail, memory

LEMMA DefinedAlloc == ASSUME Inv, Alloc, Defined PROVE Alloc'
<1>1. CASE NoOperand
  BY <1>1, FailAlloc DEF Defined
<1>2. CASE ~NoOperand
  <2> DEFINE t == [tok EXCEPT !.text = "1", !.by = Source]
             one == <<t>>
             lo == Lo(calls, Top)
  <2>1. Scanning /\ UNCHANGED calls /\ UNCHANGED memory /\ Continue(AfterOperand, one, locks)
        /\ Current.kind = "cond"
    BY <1>2 DEF Defined
  <2>2. t \in Token /\ t.id = tok.id /\ t.origin = tok.origin
    <3>1. tok \in Token /\ Source \in Texts /\ "1" \in Texts
      BY <2>1, ScanFacts DEF Texts
    <3>2. QED
      BY <3>1 DEF Token
  <2> HIDE DEF t
  <2>3. one \in Seq(Token) /\ IdsOf(one) = {tok.id} /\ OriginsOf(one) = {tok.origin}
    BY <2>2, OneToken
  <2>4. /\ tok.id \in Live(chain) /\ lo < tok.id /\ tok.origin \in Live(chain) \cup {NULL}
        /\ tok.origin \in OriginsOf(Current.tokens)
    BY <2>1, HeadApart
  <2>5. ~(Top > 1)
    BY <2>1, ScanFacts, LoopFacts
  <2>6. Allocated(chain', made') /\ Live(chain') = Live(chain)
    BY <2>1, SameMemory
  <2>7. Listed(one, lo, Live(chain'))
    BY <2>2, <2>4, <2>6, OneToken
  <2>8. Suffix(AfterOperand, Rest)
    BY <1>2, <2>1, OperandFacts
  <2> HIDE DEF lo, one
  <2>9. QED
    BY <2>1, <2>3, <2>4, <2>5, <2>6, <2>7, <2>8, Passes DEF lo
<1>3. QED
  BY <1>1, <1>2

LEMMA HasOperatorAlloc == ASSUME Inv, Alloc, HasOperator PROVE Alloc'
<1> DEFINE ill == ~CalledNext \/ Len(Rest) < 3 \/ ~Identifier(Rest[2]) \/ Rest[3].text # ")"
<1>1. CASE ill
  BY <1>1, FailAlloc DEF HasOperator
<1>2. CASE ~ill
  <2> DEFINE number == NewToken("1", Source, made + 1, Origin(tok))
             one == <<number>>
             all == Rest
             suf == SubSeq(all, 4, Len(all))
             ts == one \o suf
             lo == Lo(calls, Top)
             live == Live(chain')
  <2>1. Scanning /\ frames' = [frames EXCEPT ![Top].tokens = ts] /\ Allocate(1) /\ UNCHANGED calls
    BY <1>2 DEF HasOperator
  <2>2. /\ Types /\ made \in Nat /\ Rest \in Seq(Token) /\ tok \in Token /\ Len(calls) = Top - 1
        /\ Allocated(chain, made) /\ Len(Rest) >= 3 /\ Current.out \in Seq(Token)
    BY <1>2, <2>1, ScanFacts, TopFacts, Newest DEF Inv
  <2>3. made' = made + 1 /\ Allocated(chain', made') /\ live = Live(chain) \cup ((made + 1)..(made + 1))
    BY <2>1, <2>2, Grows
  <2>4. Origin(tok) \in Live(chain) /\ Origin(tok) \in Nat /\ Origin(tok) <= made
        /\ (Top = 1 => Origin(tok) \notin IdsOf(Rest))
    BY <2>1, HeadApart, Newest
  <2>5. number \in Token /\ number.id = made + 1 /\ number.origin = Origin(tok)
    BY <2>2, <2>4 DEF NewToken, Token, Texts
  <2>6. Suffix(suf, Rest) /\ suf \in Seq(Token)
    <3> HIDE DEF all
    <3>1. all \in Seq(Token) /\ 4 \in 1..(Len(all) + 1)
      BY <2>2 DEF all
    <3>2. Suffix(suf, all) /\ suf \in Seq(Token)
      BY <3>1, SuffixSub
    <3>3. QED
      BY <3>2 DEF all
  <2>7. /\ Listed(Rest, lo, Live(chain)) /\ IdsOf(Rest) \subseteq IdsOf(Current.tokens)
        /\ OriginsOf(Rest) \subseteq OriginsOf(Current.tokens)
    BY <2>1, HeadApart
  <2>8. /\ Listed(suf, lo, Live(chain)) /\ IdsOf(suf) \subseteq IdsOf(Rest) /\ OriginsOf(suf) \subseteq OriginsOf(Rest)
    BY <2>2, <2>6, <2>7, PartOfList
  <2>9. /\ Listed(Current.tokens, lo, Live(chain)) /\ Listed(Current.out, lo, Live(chain))
        /\ Apart(Current.tokens, Current.out) /\ lo \in Nat /\ lo <= made
        /\ Top > 1 => ApartFrom(Current.out, calls[Top - 1])
        /\ Top = 1 => IdsOf(Current.tokens) \cap (OriginsOf(Current.tokens) \cup OriginsOf(Current.out)) = {}
    BY <2>2, LoopFacts
  <2>10. /\ \A x \in IdsOf(Current.tokens) \cup IdsOf(Current.out) : x # made + 1
         /\ \A x \in OriginsOf(Current.tokens) \cup OriginsOf(Current.out) : x # made + 1
    BY <2>2, <2>9, NotYet
  <2> HIDE DEF number, suf, all, lo
  <2>11. one \in Seq(Token) /\ IdsOf(one) = {made + 1} /\ OriginsOf(one) = {Origin(tok)} /\ Listed(one, lo, live)
    <3>1. made + 1 \in live /\ lo < made + 1 /\ Origin(tok) \in live
      BY <2>2, <2>3, <2>4, <2>9
    <3>2. QED
      BY <2>5, <3>1, OneToken
  <2> HIDE DEF one
  <2>12. /\ ts \in Seq(Token) /\ IdsOf(ts) = {made + 1} \cup IdsOf(suf)
         /\ OriginsOf(ts) = {Origin(tok)} \cup OriginsOf(suf)
    BY <2>6, <2>11, JoinIds
  <2>13. Listed(ts, lo, live)
    <3>1. Apart(one, suf)
      BY <2>7, <2>8, <2>10, <2>11 DEF Apart
    <3>2. Listed(suf, lo, live)
      BY <2>3, <2>8, WiderList
    <3>3. QED
      BY <2>6, <2>11, <3>1, <3>2, JoinLists
  <2>14. Updated(frames', ts, Current.out)
    BY <2>1, <2>2, <2>12, UpdateTokens
  <2> HIDE DEF ts
  <2>15. Listed(Current.out, lo, live)
    BY <2>3, <2>9, WiderList
  <2>16. Apart(ts, Current.out)
    BY <2>7, <2>8, <2>9, <2>10, <2>12 DEF Apart
  <2>17. ASSUME Top = 1 PROVE IdsOf(ts) \cap (OriginsOf(ts) \cup OriginsOf(Current.out)) = {}
    <3>1. made + 1 # Origin(tok)
      BY <2>2, <2>4
    <3>2. QED
      BY <2>4, <2>7, <2>8, <2>9, <2>10, <2>12, <2>17, <3>1
  <2>18. QED
    BY <2>1, <2>2, <2>3, <2>9, <2>13, <2>14, <2>15, <2>16, <2>17, LoopStep DEF lo
<1>3. QED
  BY <1>1, <1>2

-----------------------------------------------------------------------------
(* The beginning of a call.                                                *)

LEMMA CallBegins ==
  ASSUME Inv, Alloc, Scanning, NEW args, NEW ts, Suffix(ts, Rest),
         calls' = Calling(args), frames' = [frames EXCEPT ![Top].tokens = ts],
         NEW e, e = Last(chain), NEW live, live = Live(chain'), Allocated(chain', made'),
         NEW lo, lo = Lo(calls, Top),
         Listed(args, e, live), e \in live, Origin(tok) \in live,
         Listed(ts, lo, live), Listed(Current.out, lo, live),
         Top > 1 => Live(chain) \subseteq live
  PROVE  Alloc'
<1>1. /\ Types /\ Top \in Nat \ {0} /\ Top = Len(frames) /\ Len(calls) = Top - 1 /\ Rest \in Seq(Token)
      /\ ts \in Seq(Token) /\ Current = frames[Top]
  BY ScanFacts, TopFacts DEF Inv, Suffix, Top, Current
<1>2. \A t \in Live(chain) : t <= e
  BY HeadApart, LatestAllocated, Newest
<1> DEFINE c == [macro |-> tok.text, orig |-> Origin(tok), free_alloc_end |-> e,
                 arg |-> args, expanded |-> <<>>, body |-> macros[tok.text].body, out |-> <<>>]
           cs == Append(calls, c)
           fs == frames'
<1>3. calls' = cs
  BY DEF Calling
<1>4. Len(cs) = Top /\ cs[Top] = c /\ (\A i \in 1..(Top - 1) : cs[i] = calls[i]) /\ cs # <<>>
  <2>1. \E ends : calls \in Seq(CallOf(ends))
    BY <1>1 DEF Types
  <2> HIDE DEF c
  <2>2. QED
    BY <1>1, <2>1
<1>5. /\ c.orig = Origin(tok) /\ c.free_alloc_end = e /\ c.arg = args /\ c.expanded = <<>> /\ c.out = <<>>
  OBVIOUS
<1> HIDE DEF c, cs
<1>6. /\ Len(fs) = Top /\ fs[Top].tokens = ts /\ fs[Top].out = Current.out
      /\ \A i \in 1..Top : fs[i].kind = frames[i].kind /\ (i # Top => fs[i] = frames[i])
  <2>1. Updated(fs, ts, Current.out)
    BY <1>1, UpdateTokens
  <2>2. \A i \in 1..Top : i # Top => i < Top
    BY <1>1
  <2> HIDE DEF fs
  <2>3. QED
    BY <2>1, <2>2 DEF Updated
<1> HIDE DEF fs
<1>7. ASSUME Top > 1, NEW i \in 1..Top PROVE Upto(calls, Live(chain), i) \subseteq Upto(cs, live, i)
  <2>1. CASE i = Top
    <3>1. Upto(cs, live, i) = {t \in live : t <= e} /\ Upto(calls, Live(chain), i) = Live(chain)
      <4>1. i <= Len(cs) /\ ~(i <= Len(calls)) /\ cs[i].free_alloc_end = e
        BY <1>1, <1>4, <1>5, <2>1
      <4>2. QED
        BY <4>1 DEF Upto
    <3>2. QED
      BY <1>2, <1>7, <3>1
  <2>2. CASE i # Top
    <3>1. i <= Len(calls) /\ i <= Len(cs) /\ cs[i] = calls[i]
      BY <1>1, <1>4, <2>2
    <3>2. QED
      BY <1>7, <3>1 DEF Upto
  <2>3. QED
    BY <2>1, <2>2
<1>8. \A i \in 1..Top : Lo(cs, i) = Lo(calls, i)
  <2>1. \A i \in 1..Top : i = 1 \/ i - 1 \in 1..(Top - 1)
    BY <1>1
  <2>2. QED
    BY <1>4, <2>1 DEF Lo
<1>9. Frames(fs, cs, live)
  <2>1. ASSUME NEW i \in 1..Top PROVE FrameFits(fs[i], Lo(cs, i), Upto(cs, live, i))
    <3>1. CASE i = Top
      <4>1. Upto(cs, live, Top) = {t \in live : t <= e}
        <5>1. Top <= Len(cs) /\ cs[Top].free_alloc_end = e
          BY <1>1, <1>4, <1>5
        <5>2. QED
          BY <5>1 DEF Upto
      <4>2. Apart(ts, Current.out)
        <5>1. Apart(Current.tokens, Current.out)
          BY <1>1, LoopFacts
        <5>2. IdsOf(ts) \subseteq IdsOf(Current.tokens)
          BY <1>1, HeadApart, PartOfList
        <5>3. QED
          BY <5>1, <5>2 DEF Apart
      <4>3. Listed(ts, lo, Live(chain)) /\ Listed(Current.out, lo, Live(chain))
        BY <1>1, HeadApart, LoopFacts, PartOfList
      <4>4. NULL <= e /\ \A t \in Live(chain) \cup {NULL} : t <= e
        <5>1. tok.id \in Live(chain) /\ tok.id \in Nat /\ e \in Nat
          BY <1>1, HeadApart, Newest, LatestAllocated
        <5>2. QED
          BY <1>2, <5>1 DEF NULL
      <4>5. Listed(ts, lo, {t \in live : t <= e}) /\ Listed(Current.out, lo, {t \in live : t <= e})
        BY <4>3, <4>4 DEF Listed
      <4>6. Lo(cs, Top) = lo
        BY <1>1, <1>8
      <4>7. QED
        BY <1>6, <3>1, <4>1, <4>2, <4>5, <4>6 DEF FrameFits
    <3>2. CASE i # Top
      <4>1. Top > 1 /\ i \in 1..Len(frames) /\ fs[i] = frames[i]
        BY <1>1, <1>6, <3>2
      <4>2. FrameFits(frames[i], Lo(calls, i), Upto(calls, Live(chain), i))
        BY <4>1 DEF Alloc, Frames
      <4>3. QED
        BY <1>7, <1>8, <4>1, <4>2, WiderFrame
    <3>3. QED
      BY <3>1, <3>2
  <2>2. QED
    BY <2>1, <1>6 DEF Frames
<1>10. Calls(cs, live)
  <2>1. ASSUME NEW i \in 1..Top PROVE CallLives(cs[i], Upto(cs, live, i + 1))
    <3>1. CASE i = Top
      <4>1. Upto(cs, live, Top + 1) = live
        <5>1. ~(Top + 1 <= Len(cs))
          BY <1>1, <1>4
        <5>2. QED
          BY <5>1 DEF Upto
      <4>2. Origin(tok) <= e
        BY <1>2, HeadApart
      <4>3. Expanded(c) = <<>> /\ Len(c.expanded) <= 1
        BY <1>5 DEF Expanded
      <4>4. CallLives(c, live)
        BY <1>5, <4>2, <4>3, EmptyList DEF CallLives, Apart
      <4>5. QED
        BY <1>4, <3>1, <4>1, <4>4
    <3>2. CASE i # Top
      <4>1. Top > 1 /\ i \in 1..Len(calls) /\ cs[i] = calls[i] /\ i + 1 \in 1..Top
        BY <1>1, <1>4, <3>2
      <4>2. CallLives(calls[i], Upto(calls, Live(chain), i + 1))
        BY <4>1 DEF Alloc, Calls
      <4>3. QED
        BY <1>7, <4>1, <4>2, WiderCall
    <3>3. QED
      BY <3>1, <3>2
  <2>2. ASSUME NEW i \in 1..Top, NEW j \in 1..Top, i <= j PROVE cs[i].free_alloc_end <= cs[j].free_alloc_end
    <3>1. CASE j # Top
      <4>1. i \in 1..Len(calls) /\ j \in 1..Len(calls) /\ cs[i] = calls[i] /\ cs[j] = calls[j]
        BY <1>1, <1>4, <2>2, <3>1
      <4>2. QED
        BY <2>2, <4>1 DEF Alloc, Calls
    <3>2. CASE j = Top /\ i # Top
      <4>1. i \in 1..Len(calls) /\ cs[i] = calls[i]
        BY <1>1, <1>4, <3>2
      <4>2. calls[i].free_alloc_end \in Live(chain)
        <5>1. CallLives(calls[i], Upto(calls, Live(chain), i + 1))
          BY <4>1 DEF Alloc, Calls
        <5>2. QED
          BY <5>1, UptoFacts DEF CallLives
      <4>3. QED
        BY <1>2, <1>4, <1>5, <3>2, <4>1, <4>2
    <3>3. CASE j = Top /\ i = Top
      <4>1. e \in Nat
        BY HeadApart, Newest, LatestAllocated
      <4>2. QED
        BY <1>4, <1>5, <3>3, <4>1
    <3>4. QED
      BY <3>1, <3>2, <3>3
  <2>3. QED
    BY <1>4, <2>1, <2>2 DEF Calls
<1>11. Between(fs, cs)
  <2>1. ASSUME NEW i \in 1..Top, i < Top PROVE ApartFrom(fs[i + 1].out, cs[i])
    <3>1. i \in 1..Len(calls) /\ cs[i] = calls[i] /\ i < Len(frames) /\ i + 1 \in 1..Top
      BY <1>1, <1>4, <2>1
    <3>2. ApartFrom(frames[i + 1].out, calls[i])
      BY <3>1 DEF Alloc, Between
    <3>3. fs[i + 1].out = frames[i + 1].out
      BY <1>1, <1>6, <3>1
    <3>4. QED
      BY <3>1, <3>2, <3>3
  <2>2. QED
    BY <1>4, <1>6, <2>1 DEF Between
<1>12. Text(fs, cs)
  <2>1. \A i \in 2..Len(fs) : fs[i].kind = "arg"
    <3>1. \A i \in 2..Len(fs) : i \in 1..Top /\ i \in 2..Len(frames)
      BY <1>1, <1>6
    <3>2. QED
      BY <1>6, <3>1 DEF Alloc, Text
  <2>2. CASE Top = 1
    <3>1. IdsOf(ts) \subseteq IdsOf(Rest) /\ OriginsOf(ts) \subseteq OriginsOf(Rest)
      BY <1>1, PartOfList
    <3>2. /\ IdsOf(Rest) \subseteq IdsOf(Current.tokens) /\ OriginsOf(Rest) \subseteq OriginsOf(Current.tokens)
          /\ Origin(tok) \notin IdsOf(Rest)
      BY <2>2, HeadApart
    <3>3. IdsOf(Current.tokens) \cap (OriginsOf(Current.tokens) \cup OriginsOf(Current.out)) = {}
      BY <1>1, <2>2, LoopFacts
    <3>4. fs[1].tokens = ts /\ fs[1].out = Current.out /\ cs[1].orig = Origin(tok)
      BY <1>4, <1>5, <1>6, <2>2
    <3>5. QED
      BY <2>1, <3>1, <3>2, <3>3, <3>4 DEF Text
  <2>3. CASE Top # 1
    <3>1. fs[1] = frames[1] /\ cs[1] = calls[1] /\ calls # <<>>
      BY <1>1, <1>4, <1>6, <2>3
    <3>2. QED
      BY <2>1, <3>1 DEF Alloc, Text
  <2>4. QED
    BY <2>2, <2>3
<1>13. QED
  BY <1>3, <1>9, <1>10, <1>11, <1>12 DEF Alloc, fs

LEMMA BeginObjectLikeAlloc == ASSUME Inv, Alloc, BeginObjectLike PROVE Alloc'
<1> DEFINE args == <<>>
           lo == Lo(calls, Top)
           e == Last(chain)
<1>1. /\ Scanning /\ calls' = Calling(args) /\ frames' = [frames EXCEPT ![Top].tokens = Rest]
      /\ UNCHANGED memory
  BY DEF BeginObjectLike
<1>2. Allocated(chain', made') /\ Live(chain') = Live(chain)
  BY <1>1, SameMemory
<1>3. Listed(args, e, Live(chain'))
  BY EmptyList
<1> HIDE DEF args
<1>4. /\ e \in Live(chain) /\ Origin(tok) \in Live(chain) /\ Listed(Rest, lo, Live(chain))
  BY <1>1, HeadApart, Newest, LatestAllocated
<1>5. Listed(Current.out, lo, Live(chain))
  BY <1>1, ScanFacts, LoopFacts
<1> HIDE DEF lo, e
<1>6. QED
  BY <1>1, <1>2, <1>3, <1>4, <1>5, RestIsRest, CallBegins DEF lo, e

\* The latest token is not given back with a call: nothing was allocated after it.
LEMMA FreedFacts ==
  ASSUME NEW ts \in Seq(Token), NEW stop_tok, made \in Nat, Allocated(chain, made)
  PROVE  /\ free_funclike_args(ts, stop_tok) \subseteq IdsOf(ts)
         /\ chain # <<>> => Last(chain) \notin free_funclike_args(ts, stop_tok)
<1> DEFINE After(i) == IF i = Len(ts) THEN stop_tok ELSE ts[i + 1].id
<1>1. ASSUME NEW x \in free_funclike_args(ts, stop_tok)
      PROVE  \E i \in 1..Len(ts) : x = ts[i].id /\ \E k \in 2..Len(chain) : chain[k - 1] = x
  <2>1. PICK i \in DOMAIN ts : /\ x = ts[i].id
                               /\ \E k \in 2..Len(chain) : chain[k - 1] = ts[i].id /\ chain[k] = After(i)
    BY DEF free_funclike_args
  <2>2. QED
    BY <2>1
<1>2. free_funclike_args(ts, stop_tok) \subseteq IdsOf(ts)
  BY <1>1 DEF IdsOf
<1>3. ASSUME chain # <<>>, Last(chain) \in free_funclike_args(ts, stop_tok) PROVE FALSE
  <2>1. PICK k \in 2..Len(chain) : chain[k - 1] = Last(chain)
    BY <1>1, <1>3
  <2>2. chain \in Seq(1..made) /\ Rising(chain) /\ Last(chain) = chain[Len(chain)] /\ Len(chain) \in Nat
    BY DEF Allocated, Last
  <2>3. k - 1 \in 1..(Len(chain) - 1) /\ Len(chain) \in 1..Len(chain) /\ k - 1 \in 1..Len(chain)
    BY <2>2
  <2>4. chain[k - 1] < chain[Len(chain)]
    BY <2>2, <2>3 DEF Rising
  <2>5. chain[k - 1] \in Nat
    BY <2>2, <2>3
  <2>6. QED
    BY <2>1, <2>2, <2>4, <2>5
<1>4. QED
  BY <1>2, <1>3

LEMMA ArgumentOrigins ==
  ASSUME NEW ts \in Seq(Token), NEW ls, NEW args, args = prepare_funclike_args(ts, ls),
         Closing(ts) \in 1..Len(ts), NEW inner, inner = SubSeq(args, 2, Len(args) - 1), args \in Seq(Token)
  PROVE  Len(args) = Closing(ts) /\ OriginsOf(inner) \subseteq OriginsOf(ts)
<1> DEFINE n == Closing(ts)
           LocksAt(i) == pop_macro_lock_until(ls, Len(ts), i)
           Paint(i) == [ts[i] EXCEPT !.dont_expand = @ \/ ts[i].text \in Locked(LocksAt(i))]
<1>1. args = [i \in 1..n |-> Paint(i)] /\ n \in 1..Len(ts)
  BY DEF prepare_funclike_args
<1>2. ASSUME NEW i \in 1..n PROVE args[i].origin = ts[i].origin /\ i \in 1..Len(ts)
  <2>1. args[i] = Paint(i) /\ ts[i] \in Token /\ i \in 1..Len(ts)
    BY <1>1
  <2>2. Paint(i).origin = ts[i].origin
    BY <2>1 DEF Token
  <2>3. QED
    BY <2>1, <2>2
<1>3. Len(args) = n /\ n \in Nat
  BY <1>1
<1> HIDE DEF n
<1>4. \A i \in 1..Len(inner) : i + 1 \in 1..n /\ inner[i] = args[i + 1]
  BY <1>3
<1>5. \A i \in 1..Len(inner) : i + 1 \in 1..Len(ts) /\ inner[i].origin = ts[i + 1].origin
  BY <1>2, <1>4
<1>6. OriginsOf(inner) \subseteq OriginsOf(ts)
  <2>1. ASSUME NEW x \in OriginsOf(inner) PROVE x \in OriginsOf(ts)
    <3>1. PICK i \in 1..Len(inner) : x = inner[i].origin
      BY DEF OriginsOf
    <3>2. x = ts[i + 1].origin /\ i + 1 \in 1..Len(ts)
      BY <1>5, <3>1
    <3>3. QED
      BY <3>2 DEF OriginsOf
  <2>2. QED
    BY <2>1
<1>7. QED
  BY <1>3, <1>6 DEF n

LEMMA BeginFunctionLikeAlloc == ASSUME Inv, Alloc, BeginFunctionLike PROVE Alloc'
<1>1. CASE Closings(Rest) = {}
  BY <1>1, FailAlloc DEF BeginFunctionLike
<1>2. CASE Closings(Rest) # {}
  <2> DEFINE args == prepare_funclike_args(Rest, locks)
             close == Len(args)
             inner == SubSeq(args, 2, close - 1)
             copies == Copies(inner)
             call == SubSeq(Rest, 1, close)
             ts == SubSeq(Rest, close + 1, Len(Rest))
             stop_tok == IF close = Len(Rest) THEN Current.eof ELSE Rest[close + 1].id
             freed == IF Current.kind = "root" THEN free_funclike_args(call, stop_tok) ELSE {}
             left == Only(chain, ToSet(chain) \ freed)
             lo == Lo(calls, Top)
             e == Last(chain)
             live == Live(chain')
  <2>1. /\ Scanning /\ calls' = Calling(copies) /\ chain' = left \o Ids(copies)
        /\ made' = made + Len(copies)
        /\ frames' = [frames EXCEPT ![Top].tokens = ts]
    BY <1>2 DEF BeginFunctionLike
  <2>2. /\ Rest \in Seq(Token) /\ Len(Rest) \in Nat /\ Len(calls) = Top - 1 /\ Top \in Nat \ {0}
        /\ made \in Nat /\ Allocated(chain, made) /\ Current.out \in Seq(Token)
    BY <2>1, ScanFacts, TopFacts, Newest DEF Inv
  <2>3. args \in Seq(Token) /\ close \in 1..Len(Rest) /\ OriginsOf(inner) \subseteq OriginsOf(Rest)
    <3>1. args \in Seq(Token) /\ Len(args) = Closing(Rest)
      BY <1>2, <2>1, ArgumentsAreQuiet
    <3>2. Closing(Rest) \in 1..Len(Rest)
      BY <1>2, <2>2, ClosingFacts
    <3> HIDE DEF args
    <3>3. OriginsOf(inner) \subseteq OriginsOf(Rest)
      BY <2>2, <3>1, <3>2, ArgumentOrigins DEF args
    <3>4. QED
      BY <3>1, <3>2, <3>3
  <2> HIDE DEF args
  <2>4. inner \in Seq(Token) /\ copies \in Seq(Token) /\ Len(copies) = Len(inner) /\ Len(inner) \in Nat
    <3>1. inner \in Seq(Token)
      BY <2>3
    <3> HIDE DEF inner
    <3>2. QED
      BY <2>2, <3>1, CopyFacts
  <2>5. /\ Suffix(ts, Rest) /\ ts \in Seq(Token) /\ call \in Seq(Token)
        /\ Len(call) = close /\ Len(ts) = Len(Rest) - close
        /\ \A k \in 1..close : call[k] = Rest[k]
        /\ \A k \in 1..Len(ts) : ts[k] = Rest[close + k]
    <3> DEFINE m == close + 1
    <3>1. m \in 1..(Len(Rest) + 1) /\ Len(Rest) - m + 1 = Len(Rest) - close
      BY <2>2, <2>3
    <3> HIDE DEF m
    <3>2. Suffix(SubSeq(Rest, m, Len(Rest)), Rest) /\ SubSeq(Rest, m, Len(Rest)) \in Seq(Token)
          /\ Len(SubSeq(Rest, m, Len(Rest))) = Len(Rest) - close
      BY <2>2, <3>1, SuffixSub
    <3>3. call \in Seq(Token) /\ Len(call) = close /\ \A k \in 1..close : call[k] = Rest[k]
      <4> HIDE DEF close
      <4>1. QED
        BY <2>2, <2>3
    <3>4. Suffix(ts, Rest) /\ ts \in Seq(Token) /\ Len(ts) = Len(Rest) - close
      BY <3>2 DEF m
    <3> HIDE DEF ts, call, close
    <3>5. Len(Rest) - Len(ts) = close
      BY <2>2, <2>3, <3>4
    <3>6. \A k \in 1..Len(ts) : ts[k] = Rest[close + k]
      BY <3>4, <3>5 DEF Suffix
    <3>7. QED
      BY <3>3, <3>4, <3>6
  <2> HIDE DEF call, ts, close, inner
  <2>6. /\ tok.id \in Live(chain) /\ tok.id \in IdsOf(Current.tokens) /\ tok.id \notin IdsOf(Rest)
        /\ Origin(tok) \in Live(chain) /\ (Top = 1 => Origin(tok) \notin IdsOf(Rest))
        /\ Listed(Rest, lo, Live(chain)) /\ IdsOf(Rest) \subseteq IdsOf(Current.tokens)
        /\ OriginsOf(Rest) \subseteq OriginsOf(Current.tokens)
    BY <2>1, HeadApart
  <2>7. /\ Listed(Current.out, lo, Live(chain)) /\ Apart(Current.tokens, Current.out)
        /\ Listed(Current.tokens, lo, Live(chain))
        /\ Top = 1 => IdsOf(Current.tokens) \cap (OriginsOf(Current.tokens) \cup OriginsOf(Current.out)) = {}
        /\ Top > 1 => Current.kind = "arg"
    BY <2>2, LoopFacts
  <2>8. e \in Live(chain) /\ (\A t \in Live(chain) : t \in Nat /\ t <= e /\ t > 0) /\ e <= made /\ chain # <<>>
    <3>1. Live(chain) # {} => chain # <<>>
      BY DEF Live
    <3>2. QED
      BY <2>6, <3>1, Newest, LatestAllocated
  <2>9. freed \subseteq IdsOf(call) /\ e \notin freed /\ (Top > 1 => freed = {})
    BY <2>2, <2>5, <2>7, <2>8, FreedFacts
  <2>10. Listed(ts, lo, Live(chain)) /\ IdsOf(ts) \subseteq IdsOf(Rest) /\ OriginsOf(ts) \subseteq OriginsOf(Rest)
    BY <2>2, <2>5, <2>6, PartOfList
  <2>11. IdsOf(call) \subseteq IdsOf(Rest) /\ Apart(call, ts)
    <3>1. \A k \in 1..close : k \in 1..Len(Rest) /\ call[k] = Rest[k]
      BY <2>2, <2>3, <2>5
    <3>2. \A k \in 1..Len(ts) : close + k \in 1..Len(Rest) /\ ts[k] = Rest[close + k]
      BY <2>2, <2>3, <2>5
    <3>3. \A j \in 1..close, k \in 1..Len(ts) : j # close + k
      BY <2>2, <2>3
    <3>4. \A j \in 1..close, k \in 1..Len(ts) : call[j].id # ts[k].id
      BY <2>6, <3>1, <3>2, <3>3 DEF Listed, Distinct
    <3>5. IdsOf(call) \subseteq IdsOf(Rest)
      BY <2>5, <3>1 DEF IdsOf
    <3>6. Apart(call, ts)
      <4>1. \A x \in IdsOf(call) : \E j \in 1..close : x = call[j].id
        BY <2>5 DEF IdsOf
      <4>2. \A x \in IdsOf(ts) : \E k \in 1..Len(ts) : x = ts[k].id
        BY DEF IdsOf
      <4>3. QED
        BY <3>4, <4>1, <4>2 DEF Apart
    <3>7. QED
      BY <3>5, <3>6
  <2> HIDE DEF freed
  <2>12. Allocated(left, made) /\ Live(left) = Live(chain) \ freed
    <3> DEFINE S == 1..made
               ids == ToSet(chain) \ freed
    <3>1. chain \in Seq(S) /\ S \subseteq Int /\ Rising(chain) /\ DOMAIN chain = 1..Len(chain)
      BY <2>2 DEF Allocated
    <3>2. Live(chain) \cap ids = Live(chain) \ freed
      BY <3>1 DEF Live, ToSet
    <3> HIDE DEF S, ids
    <3>3. Only(chain, ids) \in Seq(S) /\ Rising(Only(chain, ids)) /\ Live(Only(chain, ids)) = Live(chain) \cap ids
      BY <3>1, OnlyFacts
    <3>4. QED
      BY <3>2, <3>3 DEF Allocated, S, ids
  <2>13. Allocated(chain', made') /\ live = (Live(chain) \ freed) \cup ((made + 1)..(made + Len(copies)))
    <3> DEFINE n == Len(copies)
               new == [i \in 1..n |-> made + i]
    <3>1. Ids(copies) = new
      <4>1. \A i \in 1..n : copies[i].id = made + i
        <5>1. ASSUME NEW i \in 1..Len(inner), NEW t, t = [inner[i] EXCEPT !.id = made + i] PROVE t.id = made + i
          <6>1. inner[i] \in Token
            BY <2>4
          <6>2. QED
            BY <5>1, <6>1 DEF Token
        <5>2. copies = [i \in 1..Len(inner) |-> [inner[i] EXCEPT !.id = made + i]]
          BY DEF Copies
        <5>3. QED
          BY <2>4, <5>1, <5>2
      <4>2. DOMAIN copies = 1..n
        BY <2>4
      <4> HIDE DEF copies
      <4>3. QED
        BY <4>1, <4>2 DEF Ids
    <3>2. n \in Nat
      BY <2>4
    <3> HIDE DEF n, left
    <3>3. LET more == left \o [i \in 1..n |-> made + i]
          IN  Allocated(more, made + n) /\ Live(more) = Live(left) \cup ((made + 1)..(made + n))
      BY <2>2, <2>12, <3>2, AppendedRising
    <3>4. chain' = left \o [i \in 1..n |-> made + i] /\ made' = made + n
      BY <2>1, <3>1 DEF n
    <3>5. QED
      BY <2>12, <3>3, <3>4 DEF n
  <2>14. Listed(copies, e, live)
    <3>1. OriginsOf(inner) \subseteq live \cup {NULL}
      <4>1. OriginsOf(inner) \subseteq OriginsOf(Current.tokens)
        BY <2>3, <2>6
      <4>2. OriginsOf(Current.tokens) \subseteq Live(chain) \cup {NULL}
        BY <2>7, ListedIds
      <4>3. freed \cap OriginsOf(Current.tokens) = {}
        BY <2>2, <2>6, <2>7, <2>9, <2>11
      <4>4. QED
        BY <2>13, <4>1, <4>2, <4>3
    <3>2. (made + 1)..(made + Len(inner)) \subseteq live /\ e \in Int /\ e <= made
      <4>1. Len(inner) = Len(copies)
        BY <2>4
      <4>2. QED
        BY <2>8, <2>13, <4>1
    <3> HIDE DEF live, e
    <3>3. QED
      BY <2>2, <2>4, <3>1, <3>2, CopiesListed
  <2>15. Listed(ts, lo, live)
    <3>1. freed \cap (IdsOf(ts) \cup OriginsOf(ts)) = {}
      <4>1. CASE Top > 1
        BY <2>9, <4>1
      <4>2. CASE Top = 1
        BY <4>2, <2>6, <2>7, <2>9, <2>10, <2>11 DEF Apart
      <4>3. QED
        BY <2>2, <4>1, <4>2
    <3>2. ASSUME NEW k \in 1..Len(ts)
          PROVE  ts[k].id \in live /\ lo < ts[k].id /\ ts[k].origin \in live \cup {NULL}
      <4>1. ts[k].id \in Live(chain) /\ lo < ts[k].id /\ ts[k].origin \in Live(chain) \cup {NULL}
        BY <2>10 DEF Listed
      <4>2. ts[k].id \in IdsOf(ts) /\ ts[k].origin \in OriginsOf(ts)
        BY DEF IdsOf, OriginsOf
      <4>3. QED
        BY <2>13, <3>1, <4>1, <4>2
    <3>3. QED
      BY <2>10, <3>2 DEF Listed
  <2>16. Listed(Current.out, lo, live)
    <3> DEFINE out == Current.out
    <3>1. freed \cap (IdsOf(out) \cup OriginsOf(out)) = {}
      <4>1. CASE Top > 1
        BY <2>9, <4>1
      <4>2. CASE Top = 1
        BY <4>2, <2>6, <2>7, <2>9, <2>11 DEF Apart
      <4>3. QED
        BY <2>2, <4>1, <4>2
    <3>2. Listed(out, lo, Live(chain))
      BY <2>7
    <3> HIDE DEF out
    <3>3. ASSUME NEW k \in 1..Len(out)
          PROVE  out[k].id \in live /\ lo < out[k].id /\ out[k].origin \in live \cup {NULL}
      <4>1. out[k].id \in Live(chain) /\ lo < out[k].id /\ out[k].origin \in Live(chain) \cup {NULL}
        BY <3>2 DEF Listed
      <4>2. out[k].id \in IdsOf(out) /\ out[k].origin \in OriginsOf(out)
        BY DEF IdsOf, OriginsOf
      <4>3. QED
        BY <2>13, <3>1, <4>1, <4>2
    <3>4. Listed(out, lo, live)
      BY <3>2, <3>3 DEF Listed
    <3>5. QED
      BY <3>4 DEF out
  <2>17. e \in live /\ Origin(tok) \in live /\ (Top > 1 => Live(chain) \subseteq live)
    <3>1. Origin(tok) \notin freed
      BY <2>2, <2>6, <2>9, <2>11
    <3>2. QED
      BY <2>6, <2>8, <2>9, <2>13, <3>1
  <2> HIDE DEF copies, lo, e, live
  <2>18. QED
    BY <2>1, <2>5, <2>13, <2>14, <2>15, <2>16, <2>17, CallBegins DEF lo, e, live
<1>3. QED
  BY <1>1, <1>2

-----------------------------------------------------------------------------
(* The steps of a call.                                                    *)

LEMMA InCall ==
  ASSUME Inv, Alloc, Substituting, NEW e, e = Call.free_alloc_end
  PROVE  /\ CallLives(Call, Live(chain)) /\ e \in Live(chain) /\ e \in Nat /\ e <= made
         /\ \A i \in 1..Top : calls[i].free_alloc_end <= e /\ calls[i].free_alloc_end \in Live(chain)
         /\ \A x \in IdsOf(Call.arg) \cup IdsOf(Expanded(Call)) \cup IdsOf(Call.out) : x \in Nat /\ e < x /\ x <= made
<1>1. Len(calls) = Top /\ Top \in Nat \ {0} /\ Call = calls[Top] /\ Top \in 1..Len(calls)
  BY CallFacts DEF Call
<1>2. CallLives(Call, Live(chain))
  <2>1. CallLives(Call, Upto(calls, Live(chain), Top + 1)) /\ ~(Top + 1 <= Len(calls))
    BY <1>1 DEF Alloc, Calls
  <2>2. QED
    BY <2>1 DEF Upto
<1>3. e \in Live(chain)
  BY <1>2 DEF CallLives
<1>4. ASSUME NEW i \in 1..Top
      PROVE  calls[i].free_alloc_end <= e /\ calls[i].free_alloc_end \in Live(chain)
  <2>1. calls[i].free_alloc_end <= e
    BY <1>1 DEF Alloc, Calls
  <2>2. CallLives(calls[i], Upto(calls, Live(chain), i + 1))
    BY <1>1 DEF Alloc, Calls
  <2>3. QED
    BY <2>1, <2>2, UptoFacts DEF CallLives
<1>5. \A x \in IdsOf(Call.arg) \cup IdsOf(Expanded(Call)) \cup IdsOf(Call.out) : x \in Nat /\ e < x /\ x <= made
  <2>1. /\ Listed(Call.arg, e, Live(chain)) /\ Listed(Expanded(Call), e, Live(chain))
        /\ Listed(Call.out, e, Live(chain))
    BY <1>2 DEF CallLives
  <2>2. QED
    BY <2>1, NotYet, ListedIds
<1>6. QED
  BY <1>2, <1>3, <1>4, <1>5, Newest

LEMMA CallStep ==
  ASSUME Inv, Alloc, Substituting, NEW rest, NEW out, Substitute(rest, out),
         Allocated(chain', made'), NEW live, live = Live(chain'), Live(chain) \subseteq live,
         Listed(out, Call.free_alloc_end, live), Apart(Call.arg, out), Apart(Expanded(Call), out)
  PROVE  Alloc'
<1>1. Len(calls) = Top /\ Top \in Nat \ {0} /\ Call = calls[Top] /\ Top = Len(frames)
  BY CallFacts DEF Call, Top
<1>2. PICK ends : calls \in Seq(CallOf(ends))
  BY DEF Inv, Types
<1> DEFINE C == CallOf(ends)
           c == [calls[Top] EXCEPT !.body = rest, !.out = out]
           cs == [calls EXCEPT ![Top] = c]
<1>3. calls[Top] \in C
  <2>1. calls \in Seq(C)
    BY <1>2
  <2> HIDE DEF C
  <2>2. QED
    BY <1>1, <2>1
<1>4. calls' = cs /\ frames' = frames
  <2>1. Top \in DOMAIN calls
    BY <1>1, <1>2
  <2>2. QED
    BY <1>3, <2>1 DEF Substitute, CallOf
<1>5. /\ c.orig = Call.orig /\ c.free_alloc_end = Call.free_alloc_end /\ c.arg = Call.arg
      /\ c.expanded = Call.expanded /\ c.out = out
  BY <1>1, <1>3 DEF CallOf
<1> HIDE DEF c
<1>6. Len(cs) = Top /\ cs[Top] = c /\ (\A i \in 1..Top : i # Top => cs[i] = calls[i])
      /\ (cs # <<>> <=> calls # <<>>)
  BY <1>1, <1>2
<1> HIDE DEF cs
<1>7. \A i \in 1..Top : cs[i].free_alloc_end = calls[i].free_alloc_end /\ cs[i].orig = calls[i].orig
  BY <1>1, <1>5, <1>6
<1>8. /\ \A i \in 1..(Top + 1) : Lo(cs, i) = Lo(calls, i)
      /\ \A i \in 1..(Top + 1) : Upto(cs, live, i) = Upto(calls, live, i)
  <2>1. \A i \in 1..(Top + 1) : (i = 1 \/ i - 1 \in 1..Top) /\ (i <= Top => i \in 1..Top)
    BY <1>1
  <2>2. QED
    BY <1>1, <1>6, <1>7, <2>1 DEF Lo, Upto
<1>9. Frames(frames, cs, live)
  <2>1. Frames(frames, calls, live)
    BY WiderFrames DEF Alloc
  <2>2. \A i \in 1..Len(frames) : i \in 1..(Top + 1)
    BY <1>1
  <2>3. QED
    BY <1>8, <2>1, <2>2 DEF Frames
<1>10. Calls(cs, live)
  <2>1. Calls(calls, live)
    BY WiderCalls DEF Alloc
  <2>2. ASSUME NEW i \in 1..Top PROVE CallLives(cs[i], Upto(cs, live, i + 1))
    <3>1. i + 1 \in 1..(Top + 1) /\ CallLives(calls[i], Upto(cs, live, i + 1))
      BY <1>1, <1>8, <2>1 DEF Calls
    <3>2. CASE i = Top
      <4>1. Upto(cs, live, Top + 1) = live
        <5>1. ~(Top + 1 <= Len(cs))
          BY <1>1, <1>6
        <5>2. QED
          BY <5>1 DEF Upto
      <4>2. Expanded(c) = Expanded(Call)
        BY <1>5 DEF Expanded
      <4>3. CallLives(Call, live)
        BY <1>1, <3>1, <3>2, <4>1
      <4>4. CallLives(c, live)
        BY <1>5, <4>2, <4>3 DEF CallLives
      <4>5. QED
        BY <1>6, <3>2, <4>1, <4>4
    <3>3. CASE i # Top
      BY <1>6, <3>1, <3>3
    <3>4. QED
      BY <3>2, <3>3
  <2>3. \A i, j \in 1..Top : i <= j => cs[i].free_alloc_end <= cs[j].free_alloc_end
    BY <1>1, <1>7, <2>1 DEF Calls
  <2>4. QED
    BY <1>6, <2>2, <2>3 DEF Calls
<1>11. Between(frames, cs)
  <2>1. ASSUME NEW i \in 1..Top, i < Len(frames) PROVE ApartFrom(frames[i + 1].out, cs[i])
    <3>1. i # Top /\ cs[i] = calls[i] /\ i \in 1..Len(calls)
      BY <1>1, <1>6, <2>1
    <3>2. QED
      BY <2>1, <3>1 DEF Alloc, Between
  <2>2. QED
    BY <1>6, <2>1 DEF Between
<1>12. Text(frames, cs)
  <2>1. cs # <<>> /\ calls # <<>> /\ cs[1].orig = calls[1].orig
    BY <1>1, <1>2, <1>6, <1>7
  <2>2. QED
    BY <2>1 DEF Alloc, Text
<1>13. QED
  BY <1>4, <1>9, <1>10, <1>11, <1>12 DEF Alloc

\* What is made is added to the result of the call.
LEMMA OutGrows ==
  ASSUME Inv, Alloc, Substituting, NEW rest, NEW used \in Seq(Token), Substitute(rest, Call.out \o used),
         Allocated(chain', made'), NEW live, live = Live(chain'), Live(chain) \subseteq live,
         Listed(used, Call.free_alloc_end, live), \A x \in IdsOf(used) : x > made
  PROVE  Alloc'
<1> DEFINE e == Call.free_alloc_end
           out == Call.out \o used
<1>1. /\ Call.out \in Seq(Token) /\ made \in Nat /\ CallLives(Call, Live(chain))
      /\ \A x \in IdsOf(Call.arg) \cup IdsOf(Expanded(Call)) \cup IdsOf(Call.out) : x \in Nat /\ x <= made
  BY CallFacts, InCall
<1>2. Listed(Call.out, e, live) /\ Apart(Call.arg, Call.out) /\ Apart(Expanded(Call), Call.out)
  BY <1>1, WiderList DEF CallLives
<1>3. IdsOf(out) = IdsOf(Call.out) \cup IdsOf(used)
  BY <1>1, JoinIds
<1>4. Apart(Call.out, used) /\ Apart(Call.arg, out) /\ Apart(Expanded(Call), out)
  BY <1>1, <1>2, <1>3 DEF Apart
<1>5. Listed(out, e, live)
  BY <1>1, <1>2, <1>4, JoinLists
<1> HIDE DEF out
<1>6. Substitute(rest, out)
  BY DEF out
<1>7. QED
  BY <1>4, <1>5, <1>6, CallStep

LEMMA UseArgAlloc == ASSUME Inv, Alloc, UseArg PROVE Alloc'
<1>1. Substituting /\ AtParam(1)
  BY DEF UseArg
<1>2. PICK ts \in IF AtPaste(2) THEN {Call.arg} ELSE ToSet(Call.expanded) :
        /\ Substitute(Tail(Body), Call.out \o Copies(IF ts = <<>> THEN Marker ELSE ts))
        /\ Allocate(Len(Copies(IF ts = <<>> THEN Marker ELSE ts)))
  BY DEF UseArg
<1>3. /\ made \in Nat /\ Call.arg \in Seq(Token) /\ Call.expanded \in Seq(Seq(Token)) /\ Allocated(chain, made)
      /\ CallLives(Call, Live(chain))
  BY <1>1, CallFacts, InCall, Newest
<1>4. ts \in Seq(Token) /\ OriginsOf(ts) \subseteq Live(chain) \cup {NULL}
  <2>1. CASE AtPaste(2)
    BY <1>2, <1>3, <2>1, ListedIds DEF CallLives
  <2>2. CASE ~AtPaste(2)
    <3>1. PICK k \in 1..Len(Call.expanded) : ts = Call.expanded[k]
      <4> DEFINE T == Seq(Token)
                 ex == Call.expanded
      <4>1. ex \in Seq(T) /\ ts \in ToSet(ex)
        BY <1>2, <1>3, <2>2
      <4> HIDE DEF T, ex
      <4>2. DOMAIN ex = 1..Len(ex) /\ ToSet(ex) = {ex[k] : k \in DOMAIN ex}
        BY <4>1 DEF ToSet
      <4>3. QED
        BY <4>1, <4>2 DEF ex
    <3>2. Len(Call.expanded) <= 1
      BY <1>3 DEF CallLives
    <3> DEFINE T == Seq(Token)
               ex == Call.expanded
    <3>3. ex \in Seq(T)
      BY <1>3
    <3> HIDE DEF T, ex
    <3>4. ex[k] \in T /\ k = 1 /\ ex # <<>>
      BY <3>1, <3>2, <3>3 DEF ex
    <3>5. ts = Expanded(Call)
      BY <3>1, <3>4 DEF Expanded, ex
    <3>6. QED
      BY <1>3, <3>1, <3>4, <3>5, ListedIds DEF CallLives, T, ex
  <2>3. QED
    BY <2>1, <2>2
<1> DEFINE given == IF ts = <<>> THEN Marker ELSE ts
           used == Copies(given)
           n == Len(given)
           live == Live(chain')
           e == Call.free_alloc_end
<1>5. given \in Seq(Token) /\ OriginsOf(given) \subseteq Live(chain) \cup {NULL}
  <2> DEFINE t == NewToken(PMark, Source, NULL, NULL)
  <2>1. t \in Token /\ t.origin = NULL
    BY DEF NewToken, Token, Texts, NULL
  <2> HIDE DEF t
  <2>2. <<t>> \in Seq(Token) /\ OriginsOf(<<t>>) = {NULL}
    BY <2>1, OneToken
  <2>3. Marker \in Seq(Token) /\ OriginsOf(Marker) = {NULL}
    BY <2>2 DEF Marker, t
  <2>4. QED
    BY <1>4, <2>3
<1>6. Substitute(Tail(Body), Call.out \o used) /\ Allocate(Len(used))
  BY <1>2
<1> HIDE DEF given
<1>7. used \in Seq(Token) /\ Len(used) = n /\ n \in Nat
  BY <1>3, <1>5, CopyFacts
<1>8. made' = made + n /\ Allocated(chain', made') /\ live = Live(chain) \cup ((made + 1)..(made + n))
  <2>1. Allocate(n)
    BY <1>6, <1>7
  <2> HIDE DEF n
  <2>2. QED
    BY <1>3, <1>7, <2>1, Grows
<1>9. e \in Nat /\ e <= made
  BY <1>1, InCall
<1>10. Listed(used, e, live) /\ IdsOf(used) = (made + 1)..(made + n)
  <2>1. OriginsOf(given) \subseteq live \cup {NULL} /\ (made + 1)..(made + Len(given)) \subseteq live /\ e \in Int
    BY <1>5, <1>8, <1>9
  <2> HIDE DEF live, e
  <2>2. QED
    BY <1>3, <1>5, <1>9, <2>1, CopiesListed
<1> HIDE DEF used, n
<1>11. \A x \in IdsOf(used) : x > made
  BY <1>3, <1>7, <1>10
<1> HIDE DEF live, e
<1>12. Live(chain) \subseteq live /\ live = Live(chain')
  BY <1>8 DEF live
<1>13. QED
  BY <1>1, <1>6, <1>7, <1>8, <1>10, <1>11, <1>12, OutGrows DEF e

LEMMA UseOtherAlloc == ASSUME Inv, Alloc, UseOther PROVE Alloc'
<1> DEFINE t == NewToken(Body[1], Call.macro, made + 1, NULL)
           used == <<t>>
           live == Live(chain')
           e == Call.free_alloc_end
<1>1. Substituting /\ Body # <<>> /\ Substitute(Tail(Body), Append(Call.out, t)) /\ Allocate(1)
  BY DEF UseOther
<1>2. /\ made \in Nat /\ Call.body \in Seq(Texts) /\ Call.out \in Seq(Token) /\ Call.macro \in Texts
      /\ Allocated(chain, made) /\ e \in Nat /\ e <= made
  BY <1>1, CallFacts, InCall, Newest
<1>3. t \in Token /\ t.id = made + 1 /\ t.origin = NULL
  <2>1. Body[1] \in Texts
    BY <1>1, <1>2 DEF Body
  <2>2. QED
    BY <1>2, <2>1 DEF NewToken, Token, NULL
<1> HIDE DEF t
<1>4. Append(Call.out, t) = Call.out \o used /\ used \in Seq(Token)
  BY <1>2, <1>3
<1>5. made' = made + 1 /\ Allocated(chain', made') /\ live = Live(chain) \cup ((made + 1)..(made + 1))
  BY <1>1, <1>2, Grows
<1>6. IdsOf(used) = {made + 1} /\ Listed(used, e, live)
  <2>1. made + 1 \in live /\ e < made + 1
    BY <1>2, <1>5
  <2> HIDE DEF e, live
  <2>2. QED
    BY <1>3, <2>1, OneToken
<1> HIDE DEF used, live, e
<1>7. \A x \in IdsOf(used) : x > made
  BY <1>2, <1>6
<1>8. Substitute(Tail(Body), Call.out \o used) /\ live = Live(chain') /\ Live(chain) \subseteq live
  BY <1>1, <1>4, <1>5 DEF live
<1>9. QED
  BY <1>1, <1>4, <1>5, <1>6, <1>7, <1>8, OutGrows DEF e

LEMMA PasteMarkerAlloc == ASSUME Inv, Alloc, PasteMarker PROVE Alloc'
<1>1. Substituting /\ Substitute(Tail(Body), Call.out) /\ UNCHANGED memory
  BY DEF PasteMarker
<1>2. Allocated(chain', made') /\ Live(chain') = Live(chain)
  BY <1>1, SameMemory
<1>3. Listed(Call.out, Call.free_alloc_end, Live(chain)) /\ Apart(Call.arg, Call.out) /\ Apart(Expanded(Call), Call.out)
  BY <1>1, InCall DEF CallLives
<1>4. QED
  BY <1>1, <1>2, <1>3, CallStep

\* The pasted token is made in place of the last one.
LEMMA InPlaceOfLast ==
  ASSUME NEW co \in Seq(Token), co # <<>>, NEW e, NEW live, Listed(co, e, live), NEW t \in Token,
         t.id = Last(co).id, t.origin \in live \cup {NULL}, NEW head, head = Append(Front(co), t)
  PROVE  head \in Seq(Token) /\ Listed(head, e, live) /\ IdsOf(head) \subseteq IdsOf(co)
<1> DEFINE m == Len(co) - 1
           f == Front(co)
<1>1. m \in Nat /\ f = SubSeq(co, 1, m) /\ m + 1 = Len(co) /\ t.id = co[m + 1].id /\ m + 1 \in 1..Len(co)
      /\ \A k \in 1..m : k \in 1..Len(co) /\ k # m + 1
  BY DEF Front, Last
<1> HIDE DEF m, f
<1>2. f \in Seq(Token) /\ Len(f) = m /\ \A k \in 1..m : f[k] = co[k]
  BY <1>1
<1>3. head \in Seq(Token) /\ Len(head) = m + 1 /\ head[m + 1] = t /\ \A k \in 1..m : head[k] = co[k]
  BY <1>1, <1>2 DEF f
<1>4. \A k \in 1..Len(head) : k = m + 1 \/ k \in 1..m
  BY <1>1, <1>3
<1>5. \A k \in 1..Len(head) : head[k].id = co[k].id /\ k \in 1..Len(co)
  BY <1>1, <1>3, <1>4
<1>6. IdsOf(head) \subseteq IdsOf(co)
  <2>1. ASSUME NEW x \in IdsOf(head) PROVE x \in IdsOf(co)
    <3>1. PICK k \in 1..Len(head) : x = head[k].id
      BY DEF IdsOf
    <3>2. x = co[k].id /\ k \in 1..Len(co)
      BY <1>5, <3>1
    <3>3. QED
      BY <3>2 DEF IdsOf
  <2>2. QED
    BY <2>1
<1>7. Distinct(head)
  BY <1>5 DEF Listed, Distinct
<1>8. \A k \in 1..Len(head) : head[k].id \in live /\ e < head[k].id /\ head[k].origin \in live \cup {NULL}
  BY <1>3, <1>4, <1>5 DEF Listed
<1>9. QED
  BY <1>3, <1>6, <1>7, <1>8 DEF Listed

LEMMA PasteAlloc == ASSUME Inv, Alloc, Paste PROVE Alloc'
<1> DEFINE ts == IF AtParam(2) THEN Call.arg ELSE <<NewToken(Body[2], Call.macro, NULL, NULL)>>
           rest == SubSeq(Body, 3, Len(Body))
           n == Len(ts)
           tail == [i \in 1..(n - 1) |-> [ts[i + 1] EXCEPT !.id = made + 1 + i]]
           co == Call.out
           e == Call.free_alloc_end
           live == Live(chain')
<1>1. Substituting /\ AtPaste(1)
  BY DEF Paste
<1>2. /\ made \in Nat /\ CallFits(Call) /\ Call.body \in Seq(Texts) /\ co \in Seq(Token)
      /\ Call.macro \in Texts /\ Call.arg \in Seq(Token) /\ Allocated(chain, made)
      /\ e \in Nat /\ e <= made /\ CallLives(Call, Live(chain))
  BY <1>1, CallFacts, InCall, Newest
<1>3. CASE ts = <<>>
  <2>1. Substitute(rest, co) /\ UNCHANGED memory
    BY <1>3 DEF Paste
  <2>2. Allocated(chain', made') /\ Live(chain') = Live(chain)
    BY <2>1, SameMemory
  <2>3. Listed(co, e, Live(chain)) /\ Apart(Call.arg, co) /\ Apart(Expanded(Call), co)
    BY <1>2 DEF CallLives
  <2> HIDE DEF rest
  <2>4. QED
    BY <1>1, <2>1, <2>2, <2>3, CallStep
<1>4. CASE ts # <<>> /\ Spelled(ts) \notin DOMAIN Glue
  <2>1. Fail
    BY <1>4 DEF Paste
  <2>2. QED
    BY <2>1, FailAlloc
<1>5. CASE ts # <<>> /\ Spelled(ts) \in DOMAIN Glue
  <2>1. Substitute(rest, Pasted(ts) \o tail) /\ Allocate(n)
    BY <1>5 DEF Paste
  <2>2. co # <<>> /\ Body \in Seq(Texts) /\ 2 \in 1..Len(Body)
    <3>1. Body \in Seq(Texts) /\ Operands(Body, Call.out) /\ Body # <<>> /\ Body[1] = "##"
      BY <1>1, <1>2 DEF Body, CallFits, AtPaste
    <3>2. Len(Body) # 1
      BY <3>1 DEF Operands
    <3>3. QED
      BY <3>1, <3>2 DEF Operands
  <2>3. ts \in Seq(Token) /\ OriginsOf(ts) \subseteq Live(chain) \cup {NULL} /\ n \in Nat /\ n > 0
    <3> DEFINE t == NewToken(Body[2], Call.macro, NULL, NULL)
    <3>1. t \in Token /\ t.origin = NULL
      <4>1. Body[2] \in Texts
        BY <2>2
      <4>2. QED
        BY <1>2, <4>1 DEF NewToken, Token, NULL
    <3> HIDE DEF t
    <3>2. <<t>> \in Seq(Token) /\ OriginsOf(<<t>>) = {NULL}
      BY <3>1, OneToken
    <3>3. OriginsOf(Call.arg) \subseteq Live(chain) \cup {NULL}
      BY <1>2, ListedIds DEF CallLives
    <3>4. ts \in Seq(Token) /\ OriginsOf(ts) \subseteq Live(chain) \cup {NULL}
      BY <1>2, <3>2, <3>3 DEF t
    <3> HIDE DEF ts
    <3>5. Len(ts) > 0 /\ Len(ts) \in Nat
      BY <1>5, <3>4
    <3>6. QED
      BY <3>4, <3>5
  <2> HIDE DEF ts
  <2>4. made' = made + n /\ Allocated(chain', made') /\ live = Live(chain) \cup ((made + 1)..(made + n))
    <3> HIDE DEF n
    <3>1. QED
      BY <1>2, <2>1, <2>3, Grows
  <2> DEFINE origin == IF Lhs.origin # NULL THEN Lhs.origin ELSE made + 1
             t == NewToken(Glue[Spelled(ts)], Call.macro, Lhs.id, origin)
             head == Append(Front(co), t)
  <2>5. Pasted(ts) = head
    BY DEF Pasted
  <2>6. Listed(co, e, live) /\ Lhs = Last(co) /\ Lhs \in Token /\ Lhs.origin \in Live(chain) \cup {NULL}
        /\ Apart(Call.arg, co) /\ Apart(Expanded(Call), co)
    <3>1. Len(co) \in 1..Len(co)
      BY <1>2, <2>2
    <3>2. Lhs = co[Len(co)]
      BY DEF Lhs, Last
    <3>3. Listed(co, e, Live(chain)) /\ Apart(Call.arg, co) /\ Apart(Expanded(Call), co)
      BY <1>2 DEF CallLives
    <3>4. Lhs \in Token /\ Lhs.origin \in Live(chain) \cup {NULL}
      BY <1>2, <3>1, <3>2, <3>3 DEF Listed
    <3>5. Listed(co, e, live)
      BY <2>4, <3>3, WiderList
    <3>6. QED
      BY <3>3, <3>4, <3>5 DEF Lhs
  <2>7. t \in Token /\ t.id = Lhs.id /\ t.origin \in live \cup {NULL}
    <3>1. Glue[Spelled(ts)] \in Texts
      BY <1>5, GlueIsText DEF Texts
    <3>2. Lhs.id \in Int /\ origin \in Int /\ origin \in live \cup {NULL}
      <4>1. made + 1 \in (made + 1)..(made + n)
        BY <1>2, <2>3
      <4>2. QED
        BY <1>2, <2>4, <2>6, <4>1 DEF Token
    <3> HIDE DEF origin
    <3>3. QED
      BY <1>2, <3>1, <3>2 DEF NewToken, Token
  <2> HIDE DEF t
  <2>8. head \in Seq(Token) /\ Listed(head, e, live) /\ IdsOf(head) \subseteq IdsOf(co)
    <3> HIDE DEF co, e, live
    <3>1. QED
      BY <1>2, <2>2, <2>6, <2>7, InPlaceOfLast
  <2> HIDE DEF head
  <2>9. tail \in Seq(Token) /\ Listed(tail, e, live) /\ \A x \in IdsOf(tail) : x \in Nat /\ x > made
    <3> DEFINE el(i) == [ts[i + 1] EXCEPT !.id = made + 1 + i]
               m == n - 1
    <3>1. m \in Nat
      BY <2>3
    <3>2. ASSUME NEW i \in 1..m
          PROVE  el(i) \in Token /\ el(i).id = made + 1 + i /\ el(i).origin \in live \cup {NULL}
                 /\ made + 1 + i \in live /\ e < made + 1 + i
      <4>1. i + 1 \in 1..Len(ts) /\ ts[i + 1] \in Token /\ made + 1 + i \in Int
            /\ made + 1 + i \in (made + 1)..(made + n) /\ e < made + 1 + i
        BY <1>2, <2>3
      <4>2. ts[i + 1].origin \in live \cup {NULL}
        BY <2>3, <2>4, <4>1 DEF OriginsOf
      <4>3. QED
        BY <2>4, <4>1, <4>2 DEF Token
    <3>3. tail = [i \in 1..m |-> el(i)]
      OBVIOUS
    <3> HIDE DEF m, tail, el, e, live
    <3>4. tail \in Seq(Token) /\ Len(tail) = m /\ \A i \in 1..m : tail[i] = el(i)
      <4>1. \A i \in 1..m : tail[i] = el(i)
        BY <3>3
      <4>2. tail \in [1..m -> Token]
        BY <3>2, <3>3
      <4>3. tail \in Seq(Token) /\ Len(tail) = m
        BY <3>1, <4>2
      <4>4. QED
        BY <4>1, <4>3
    <3>5. Distinct(tail)
      <4>1. \A i \in 1..m : tail[i].id = made + 1 + i
        BY <3>2, <3>4
      <4>2. QED
        BY <1>2, <3>4, <4>1 DEF Distinct
    <3>6. \A i \in 1..Len(tail) : tail[i].id \in live /\ e < tail[i].id /\ tail[i].origin \in live \cup {NULL}
      BY <3>2, <3>4
    <3>7. ASSUME NEW x \in IdsOf(tail) PROVE x \in Nat /\ x > made
      <4>1. PICK i \in 1..m : x = made + 1 + i
        BY <3>2, <3>4 DEF IdsOf
      <4>2. QED
        BY <1>2, <3>1, <4>1
    <3>8. QED
      BY <3>4, <3>5, <3>6, <3>7 DEF Listed
  <2> HIDE DEF tail, rest
  <2> DEFINE out == head \o tail
  <2>10. IdsOf(out) = IdsOf(head) \cup IdsOf(tail)
    BY <2>8, <2>9, JoinIds
  <2>11. \A x \in IdsOf(Call.arg) \cup IdsOf(Expanded(Call)) \cup IdsOf(co) : x \in Nat /\ x <= made
    BY <1>1, InCall
  <2>12. Apart(head, tail) /\ Apart(Call.arg, out) /\ Apart(Expanded(Call), out)
    <3>1. \A x \in IdsOf(tail) : ~(x <= made)
      BY <1>2, <2>9
    <3>2. QED
      BY <2>6, <2>8, <2>10, <2>11, <3>1 DEF Apart
  <2>13. Listed(out, e, live)
    BY <2>8, <2>9, <2>12, JoinLists
  <2>14. Substitute(rest, out)
    BY <2>1, <2>5
  <2> HIDE DEF out, live
  <2>15. live = Live(chain') /\ Live(chain) \subseteq live
    BY <2>4 DEF live
  <2>16. QED
    BY <1>1, <2>4, <2>12, <2>13, <2>14, <2>15, CallStep
<1>6. QED
  BY <1>3, <1>4, <1>5

LEMMA ExpandArgAlloc == ASSUME Inv, Alloc, ExpandArg PROVE Alloc'
<1> DEFINE f == Running("arg", Call.arg)
           n == Top + 1
           live == Live(chain)
<1>1. Substituting /\ frames' = Append(frames, f) /\ UNCHANGED <<calls, chain, made>>
  BY DEF ExpandArg, memory
<1>2. /\ Len(calls) = Top /\ Top \in Nat \ {0} /\ Call = calls[Top] /\ frames \in Seq(Frame) /\ Len(frames) = Top
      /\ Call.arg \in Seq(Token) /\ CallLives(Call, live) /\ locks \in Seq(Lock)
  BY <1>1, CallFacts, InCall DEF Call, Inv, Types, Top
<1>3. f \in Frame /\ f.tokens = Call.arg /\ f.out = <<>> /\ f.kind = "arg"
  BY <1>2 DEF Running, Frame, NULL
<1> HIDE DEF f
<1>4. /\ Len(frames') = n /\ frames'[n] = f /\ n \in Nat /\ n # 1 /\ n - 1 = Top /\ ~(n <= Len(calls))
      /\ \A i \in 1..Top : frames'[i] = frames[i]
      /\ \A i \in 1..n : i = n \/ i \in 1..Top
  BY <1>1, <1>2, <1>3
<1> HIDE DEF n, live
<1>5. Frames(frames', calls, live)
  <2>1. FrameFits(frames'[n], Lo(calls, n), Upto(calls, live, n))
    <3>1. Lo(calls, n) = Call.free_alloc_end /\ Upto(calls, live, n) = live
      BY <1>2, <1>4 DEF Lo, Upto
    <3>2. QED
      BY <1>2, <1>3, <1>4, <3>1, EmptyList DEF FrameFits, CallLives, Apart
  <2>2. ASSUME NEW i \in 1..Top PROVE FrameFits(frames'[i], Lo(calls, i), Upto(calls, live, i))
    BY <1>2, <1>4 DEF Alloc, Frames, live
  <2>3. QED
    BY <1>4, <2>1, <2>2 DEF Frames
<1>6. Between(frames', calls)
  <2>1. ASSUME NEW i \in 1..Len(calls) PROVE ApartFrom(frames'[i + 1].out, calls[i])
    <3>1. CASE i = Top
      <4>1. frames'[i + 1].out = <<>>
        BY <1>3, <1>4, <3>1 DEF n
      <4>2. QED
        BY <4>1, EmptyList DEF ApartFrom, Apart
    <3>2. CASE i # Top
      <4>1. i + 1 \in 1..Top /\ i < Len(frames)
        BY <1>2, <3>2
      <4>2. frames'[i + 1] = frames[i + 1]
        BY <1>4, <4>1
      <4>3. QED
        BY <4>1, <4>2 DEF Alloc, Between
    <3>3. QED
      BY <3>1, <3>2
  <2>2. QED
    BY <2>1 DEF Between
<1>7. Text(frames', calls)
  <2>1. frames'[1] = frames[1]
    BY <1>2, <1>4
  <2>2. ASSUME NEW i \in 2..Len(frames') PROVE frames'[i].kind = "arg"
    <3>1. CASE i = n
      BY <1>3, <1>4, <3>1
    <3>2. CASE i # n
      <4>1. i \in 1..n
        BY <1>4
      <4>2. i \in 1..Top /\ i \in 2..Len(frames)
        BY <1>2, <1>4, <3>2, <4>1
      <4>3. QED
        BY <1>4, <4>2 DEF Alloc, Text
    <3>3. QED
      BY <3>1, <3>2
  <2>3. QED
    BY <2>1, <2>2 DEF Alloc, Text
<1>8. QED
  BY <1>1, <1>5, <1>6, <1>7 DEF Alloc, live

LEMMA EndArgAlloc == ASSUME Inv, Alloc, EndArg PROVE Alloc'
<1> DEFINE n == Top - 1
           given == <<Current.out>>
           live == Live(chain)
           d == calls[n]
           c == [d EXCEPT !.expanded = given]
           cs == calls'
           fs == frames'
<1>1. AtEnd /\ Top > 1 /\ Balanced
  BY EndIsBalanced DEF EndArg
<1>2. fs = Front(frames) /\ cs = [calls EXCEPT ![n].expanded = given] /\ UNCHANGED <<chain, made>>
  BY <1>1 DEF EndArg, memory
<1>3. /\ n \in Nat \ {0} /\ n \in 1..Len(calls) /\ Len(calls) = n /\ Len(frames) = n + 1
      /\ Top = n + 1 /\ frames \in Seq(Frame) /\ frames # <<>> /\ Top \in Nat
  BY <1>1, TopFacts DEF Inv, Types, AtEnd, Top
<1>4. PICK ends : calls \in Seq(CallOf(ends))
  BY DEF Inv, Types
<1> DEFINE C == CallOf(ends)
<1>5. d \in C
  <2>1. calls \in Seq(C)
    BY <1>4
  <2> HIDE DEF C
  <2>2. QED
    BY <1>3, <2>1
<1>6. /\ c.expanded = given /\ c.arg = d.arg /\ c.out = d.out
      /\ c.orig = d.orig /\ c.free_alloc_end = d.free_alloc_end
  <2> HIDE DEF d
  <2>1. QED
    BY <1>5 DEF CallOf
<1>7. Expanded(c) = Current.out /\ Len(c.expanded) <= 1
  <2> DEFINE o == Current.out
  <2>1. Len(<<o>>) = 1 /\ <<o>>[1] = o /\ <<o>> # <<>>
    OBVIOUS
  <2> HIDE DEF c, o
  <2>2. QED
    BY <1>6, <2>1 DEF Expanded, o
<1> HIDE DEF cs, given
<1>8. Len(cs) = n /\ cs[n] = c /\ (\A i \in 1..n : i # n => cs[i] = calls[i]) /\ cs # <<>> /\ calls # <<>>
  <2>1. cs = [calls EXCEPT ![n] = c]
    BY <1>2, <1>3
  <2> HIDE DEF c, n
  <2>2. QED
    BY <1>3, <1>4, <2>1
<1> HIDE DEF c
<1>9. \A i \in 1..n : cs[i].free_alloc_end = calls[i].free_alloc_end /\ cs[i].orig = calls[i].orig
  BY <1>6, <1>8
<1>10. Len(fs) = n /\ \A i \in 1..n : fs[i] = frames[i]
  <2> HIDE DEF n, fs
  <2>1. Len(frames) - 1 = n
    BY <1>3
  <2>2. QED
    BY <1>2, <1>3, <2>1, FrontFacts
<1> HIDE DEF fs, n
<1>11. /\ \A i \in 1..(n + 1) : Lo(cs, i) = Lo(calls, i)
       /\ \A i \in 1..(n + 1) : Upto(cs, live, i) = Upto(calls, live, i)
  <2>1. \A i \in 1..(n + 1) : (i = 1 \/ i - 1 \in 1..n) /\ (i <= n => i \in 1..n)
    BY <1>3
  <2>2. QED
    BY <1>3, <1>8, <1>9, <2>1 DEF Lo, Upto
<1>12. Frames(fs, cs, live)
  <2>1. \A i \in 1..n : i \in 1..(n + 1) /\ i \in 1..Len(frames)
    BY <1>3
  <2>2. QED
    BY <1>10, <1>11, <2>1 DEF Alloc, Frames
<1>13. Calls(cs, live)
  <2>1. CallLives(cs[n], Upto(cs, live, n + 1))
    <3>1. Upto(cs, live, n + 1) = live
      <4>1. ~(n + 1 <= Len(cs))
        BY <1>3, <1>8
      <4>2. QED
        BY <4>1 DEF Upto
    <3>2. /\ Listed(Current.out, d.free_alloc_end, live) /\ ApartFrom(Current.out, d) /\ CallLives(d, live)
      BY <1>1, <1>3, LoopFacts DEF AtEnd, n
    <3>3. CallLives(c, live)
      BY <1>6, <1>7, <3>2 DEF CallLives, ApartFrom, Apart
    <3>4. QED
      BY <1>8, <3>1, <3>3
  <2>2. ASSUME NEW i \in 1..n, i # n PROVE CallLives(cs[i], Upto(cs, live, i + 1))
    <3>1. i + 1 \in 1..(n + 1) /\ cs[i] = calls[i] /\ i \in 1..Len(calls)
      BY <1>3, <1>8, <2>2
    <3>2. QED
      BY <1>11, <3>1 DEF Alloc, Calls
  <2>3. \A i, j \in 1..n : i <= j => cs[i].free_alloc_end <= cs[j].free_alloc_end
    BY <1>3, <1>9 DEF Alloc, Calls
  <2>4. QED
    BY <1>8, <2>1, <2>2, <2>3 DEF Calls
<1>14. Between(fs, cs)
  <2>1. ASSUME NEW i \in 1..n, i < n PROVE ApartFrom(fs[i + 1].out, cs[i])
    <3>1. i + 1 \in 1..n /\ i \in 1..Len(calls) /\ i < Len(frames) /\ cs[i] = calls[i]
      BY <1>3, <1>8, <2>1
    <3>2. QED
      BY <1>10, <3>1 DEF Alloc, Between
  <2>2. QED
    BY <1>8, <1>10, <2>1 DEF Between
<1>15. Text(fs, cs)
  <2>1. \A i \in 2..n : i \in 1..n /\ i \in 2..Len(frames)
    BY <1>3
  <2>2. fs[1] = frames[1] /\ cs[1].orig = calls[1].orig
    BY <1>3, <1>9, <1>10
  <2>3. QED
    BY <1>8, <1>10, <2>1, <2>2 DEF Alloc, Text
<1>16. QED
  BY <1>2, <1>12, <1>13, <1>14, <1>15 DEF Alloc, fs, cs, live

-----------------------------------------------------------------------------
(* The end of a call.                                                      *)

LEMMA InsertedIds ==
  ASSUME Inv, Alloc, Substituting, NEW e, e = Call.free_alloc_end
  PROVE  /\ Inserted \in Seq(Token) /\ OriginsOf(Inserted) \subseteq {Call.orig}
         /\ Listed(Inserted, e, Live(chain)) /\ ToSet(Ids(Inserted)) = IdsOf(Inserted)
<1> DEFINE co == Call.out
           kept == WithoutMarkers(co)
           n == Len(kept)
           new == Inserted
<1>1. co \in Seq(Token) /\ Listed(co, e, Live(chain)) /\ Call.orig \in Live(chain) /\ Call.orig \in Int
  BY CallFacts, InCall DEF CallLives
<1>2. new \in Seq(Token)
  BY InsertedFacts
<1>3. new = [k \in 1..n |-> [kept[k] EXCEPT !.origin = Call.orig]]
  BY DEF Inserted, Kept
<1> HIDE DEF co, new
<1>4. /\ kept \in Seq(Token) /\ (\A k \in 1..n : \E j \in 1..Len(co) : kept[k] = co[j])
      /\ Distinct(kept)
  BY <1>1, Markers DEF Listed
<1> HIDE DEF kept
<1>5. n \in Nat
  BY <1>4
<1>6. ASSUME NEW k \in 1..n PROVE new[k].id = kept[k].id /\ new[k].origin = Call.orig
  <2>1. kept[k] \in Token
    BY <1>4
  <2>2. new[k] = [kept[k] EXCEPT !.origin = Call.orig]
    BY <1>3
  <2>3. QED
    BY <2>1, <2>2 DEF Token
<1>7. Len(new) = n /\ DOMAIN new = 1..n
  BY <1>2, <1>3, <1>5
<1> HIDE DEF n
<1>8. OriginsOf(new) \subseteq {Call.orig}
  BY <1>6, <1>7 DEF OriginsOf
<1>9. Distinct(new)
  BY <1>4, <1>6, <1>7 DEF Distinct, n
<1>10. \A k \in 1..n : new[k].id \in Live(chain) /\ e < new[k].id /\ new[k].origin \in Live(chain) \cup {NULL}
  <2>1. \A k \in 1..n : \E j \in 1..Len(co) : new[k].id = co[j].id
    BY <1>4, <1>6
  <2>2. QED
    BY <1>1, <1>6, <2>1 DEF Listed
<1>11. Listed(new, e, Live(chain))
  BY <1>7, <1>9, <1>10 DEF Listed
<1>12. ToSet(Ids(new)) = IdsOf(new)
  BY <1>7 DEF ToSet, Ids, IdsOf
<1>13. QED
  BY <1>2, <1>8, <1>11, <1>12 DEF new

LEMMA EndCallAlloc == ASSUME Inv, Alloc, EndCall PROVE Alloc'
<1> DEFINE new == Inserted
           ts == new \o Current.tokens
           out == Current.out
           e == Call.free_alloc_end
           old == Live(chain)
           live == Live(chain')
           low == {t \in old : t <= e}
           cs == calls'
           fs == frames'
           lo == Lo(calls, Top)
<1>1. /\ Substituting /\ \E ls : Continue(ts, <<>>, ls)
      /\ cs = Front(calls) /\ chain' = Remaining(new) /\ made' = made
  BY DEF EndCall
<1>2. /\ Types /\ Len(calls) = Top /\ Top \in Nat \ {0} /\ Top \in 1..Len(calls) /\ Top = Len(frames)
      /\ Top \in 1..Len(frames) /\ Call = calls[Top] /\ Current = frames[Top]
      /\ Current.tokens \in Seq(Token) /\ out \in Seq(Token) /\ calls # <<>>
  <2>1. Len(calls) = Top /\ Top \in Nat \ {0}
    BY <1>1, CallFacts
  <2>2. calls # <<>>
    BY <2>1
  <2>3. QED
    BY <2>1, <2>2, TopFacts DEF Inv, Call, Current, Top
<1>3. /\ CallLives(Call, old) /\ e \in old /\ e \in Nat
      /\ \A i \in 1..Top : calls[i].free_alloc_end <= e /\ calls[i].free_alloc_end \in old
  BY <1>1, InCall
<1>4. /\ new \in Seq(Token) /\ OriginsOf(new) \subseteq {Call.orig} /\ Listed(new, e, old)
      /\ ToSet(Ids(new)) = IdsOf(new)
  BY <1>1, InsertedIds
<1>5. \A t \in old : t \in Nat /\ t > 0
  BY Newest
<1>6. Allocated(chain', made') /\ live = low \cup {t \in old : t > e /\ t \in IdsOf(new)}
  <2>1. made \in Nat /\ Allocated(chain, made)
    BY Newest
  <2> HIDE DEF new
  <2>2. /\ Allocated(Remaining(new), made)
        /\ Live(Remaining(new)) =
             {t \in Live(chain) : t <= e} \cup {t \in Live(chain) : t > e /\ t \in ToSet(Ids(new))}
    BY <1>3, <2>1, Stays
  <2>3. QED
    BY <1>1, <1>4, <2>2
<1>7. Updated(fs, ts, out)
  <2>1. PICK ls : Continue(ts, <<>>, ls)
    BY <1>1
  <2>2. ts \in Seq(Token) /\ <<>> \in Seq(Token) /\ out \o <<>> = out
    BY <1>2, <1>4
  <2> HIDE DEF ts, new
  <2>3. Updated(fs, ts, out \o <<>>)
    BY <1>2, <2>1, <2>2, UpdateBoth DEF Continue
  <2>4. QED
    BY <2>2, <2>3
<1>8. /\ Len(fs) = Top /\ fs[Top].tokens = ts /\ fs[Top].out = out
      /\ \A i \in 1..Top : fs[i].kind = frames[i].kind /\ (i # Top => fs[i] = frames[i])
      /\ \A i \in 1..Top : fs[i].out = frames[i].out
  <2>1. \A i \in 1..Top : i # Top => i < Top
    BY <1>2
  <2> HIDE DEF fs
  <2>2. QED
    BY <1>2, <1>7, <2>1 DEF Updated
<1> HIDE DEF fs
<1>9. Len(cs) = Top - 1 /\ \A i \in 1..(Top - 1) : cs[i] = calls[i]
  <2>1. PICK ends : calls \in Seq(CallOf(ends))
    BY <1>2 DEF Types
  <2> DEFINE C == CallOf(ends)
  <2>2. calls \in Seq(C)
    BY <2>1
  <2> HIDE DEF C
  <2>3. QED
    BY <1>1, <1>2, <2>2, FrontFacts
<1> HIDE DEF cs
<1>10. ASSUME NEW i \in 1..Top PROVE Upto(calls, old, i) \subseteq Upto(cs, live, i)
  <2>1. Upto(calls, old, i) = {t \in old : t <= calls[i].free_alloc_end}
    BY <1>2 DEF Upto
  <2>2. calls[i].free_alloc_end \in Nat /\ calls[i].free_alloc_end <= e
    BY <1>3, <1>5
  <2>3. \A t \in old : t <= calls[i].free_alloc_end => t \in low
    BY <1>3, <1>5, <2>2
  <2>4. Upto(cs, live, i) = live \/ Upto(cs, live, i) = {t \in live : t <= calls[i].free_alloc_end}
    <3>1. i <= Len(cs) => i \in 1..(Top - 1)
      BY <1>2, <1>9
    <3>2. QED
      BY <1>9, <3>1 DEF Upto
  <2> HIDE DEF low
  <2>5. QED
    BY <1>6, <2>1, <2>3, <2>4
<1>11. \A i \in 1..Top : Lo(cs, i) = Lo(calls, i)
  <2>1. \A i \in 1..Top : i = 1 \/ i - 1 \in 1..(Top - 1)
    BY <1>2
  <2>2. QED
    BY <1>9, <2>1 DEF Lo
<1>12. /\ Listed(Current.tokens, lo, low) /\ Listed(out, lo, low) /\ Apart(Current.tokens, out)
  <2>1. FrameFits(frames[Top], Lo(calls, Top), Upto(calls, old, Top))
    BY <1>2 DEF Alloc, Frames
  <2>2. Upto(calls, old, Top) = low
    BY <1>2 DEF Upto
  <2>3. QED
    BY <1>2, <2>1, <2>2 DEF FrameFits
<1>13. lo <= e /\ lo \in Nat
  <2>1. CASE Top = 1
    BY <1>3, <2>1 DEF Lo
  <2>2. CASE Top # 1
    <3>1. lo = calls[Top - 1].free_alloc_end /\ Top - 1 \in 1..Top
      BY <1>2, <2>2 DEF Lo
    <3>2. QED
      BY <1>3, <1>5, <3>1
  <2>3. QED
    BY <2>1, <2>2
<1>14. /\ \A x \in IdsOf(Current.tokens) \cup IdsOf(out) : x \in low /\ x <= e
       /\ \A x \in OriginsOf(Current.tokens) \cup OriginsOf(out) : x <= e
       /\ \A x \in IdsOf(new) : x \in Nat /\ ~(x <= e) /\ x > e /\ x \in old
       /\ Call.orig <= e /\ Call.orig \in low
  <2>1. /\ \A x \in IdsOf(Current.tokens) \cup IdsOf(out) : x \in low
        /\ OriginsOf(Current.tokens) \subseteq low \cup {NULL} /\ OriginsOf(out) \subseteq low \cup {NULL}
    BY <1>12, ListedIds
  <2>2. \A x \in low \cup {NULL} : x <= e
    BY <1>3 DEF NULL
  <2>3. \A x \in IdsOf(new) : x \in old /\ e < x
    BY <1>4, ListedIds
  <2>4. \A x \in IdsOf(new) : x \in Nat /\ ~(x <= e) /\ x > e
    BY <1>3, <1>5, <2>3
  <2>5. Call.orig \in old /\ Call.orig <= e
    BY <1>3 DEF CallLives
  <2> HIDE DEF new, out
  <2>6. QED
    BY <2>1, <2>2, <2>3, <2>4, <2>5
<1>15. /\ IdsOf(ts) = IdsOf(new) \cup IdsOf(Current.tokens)
       /\ OriginsOf(ts) = OriginsOf(new) \cup OriginsOf(Current.tokens)
  BY <1>2, <1>4, JoinIds
<1>16. Listed(new, lo, live)
  <2> HIDE DEF new, live, low, lo
  <2>1. ASSUME NEW k \in 1..Len(new)
        PROVE  new[k].id \in live /\ lo < new[k].id /\ new[k].origin \in live \cup {NULL}
    <3>1. new[k].id \in IdsOf(new) /\ new[k].origin \in OriginsOf(new)
      BY DEF IdsOf, OriginsOf
    <3>2. new[k].origin = Call.orig
      BY <1>4, <3>1
    <3>3. lo < new[k].id
      BY <1>3, <1>13, <1>14, <3>1
    <3>4. QED
      BY <1>6, <1>14, <3>1, <3>2, <3>3
  <2>2. QED
    BY <1>4, <2>1 DEF Listed
<1>17. Listed(ts, lo, live) /\ Listed(out, lo, live) /\ Apart(ts, out)
  <2> HIDE DEF new, live, low, lo, out
  <2>1. Listed(Current.tokens, lo, live) /\ Listed(out, lo, live)
    BY <1>6, <1>12, WiderList
  <2>2. Apart(new, Current.tokens) /\ Apart(ts, out)
    BY <1>12, <1>14, <1>15 DEF Apart
  <2>3. QED
    BY <1>2, <1>4, <1>16, <2>1, <2>2, JoinLists
<1> HIDE DEF ts, out, new, live, low, lo, e, old
<1>18. Frames(fs, cs, live)
  <2>1. FrameFits(fs[Top], Lo(cs, Top), Upto(cs, live, Top))
    <3>1. Upto(cs, live, Top) = live /\ Lo(cs, Top) = lo
      <4>1. ~(Top <= Len(cs))
        BY <1>2, <1>9
      <4>2. QED
        BY <1>2, <1>11, <4>1 DEF Upto, lo
    <3>2. QED
      BY <1>8, <1>17, <3>1 DEF FrameFits
  <2>2. ASSUME NEW i \in 1..Top, i # Top PROVE FrameFits(fs[i], Lo(cs, i), Upto(cs, live, i))
    <3>1. FrameFits(frames[i], Lo(calls, i), Upto(calls, old, i))
      BY <1>2 DEF Alloc, Frames, old
    <3>2. fs[i] = frames[i]
      BY <1>8, <2>2
    <3>3. QED
      BY <1>10, <1>11, <3>1, <3>2, WiderFrame
  <2>3. QED
    BY <1>8, <2>1, <2>2 DEF Frames
<1>19. Calls(cs, live)
  <2>1. ASSUME NEW i \in 1..(Top - 1) PROVE CallLives(cs[i], Upto(cs, live, i + 1))
    <3>1. i \in 1..Len(calls) /\ i + 1 \in 1..Top
      BY <1>2
    <3>2. CallLives(calls[i], Upto(calls, old, i + 1))
      BY <3>1 DEF Alloc, Calls, old
    <3>3. QED
      BY <1>9, <1>10, <3>1, <3>2, WiderCall
  <2>2. \A i, j \in 1..(Top - 1) : i <= j => cs[i].free_alloc_end <= cs[j].free_alloc_end
    <3>1. \A i \in 1..(Top - 1) : i \in 1..Len(calls)
      BY <1>2
    <3>2. QED
      BY <1>9, <3>1 DEF Alloc, Calls
  <2>3. QED
    BY <1>9, <2>1, <2>2 DEF Calls
<1>20. Between(fs, cs)
  <2>1. ASSUME NEW i \in 1..(Top - 1) PROVE ApartFrom(fs[i + 1].out, cs[i])
    <3>1. i \in 1..Len(calls) /\ i + 1 \in 1..Top /\ i < Len(frames)
      BY <1>2
    <3>2. fs[i + 1].out = frames[i + 1].out
      BY <1>8, <3>1
    <3>3. QED
      BY <1>9, <3>1, <3>2 DEF Alloc, Between
  <2>2. QED
    BY <1>9, <2>1 DEF Between
<1>21. Text(fs, cs)
  <2>1. \A i \in 2..Len(fs) : fs[i].kind = "arg"
    <3>1. \A i \in 2..Len(fs) : i \in 1..Top /\ i \in 2..Len(frames)
      BY <1>2, <1>8
    <3>2. QED
      BY <1>8, <3>1 DEF Alloc, Text
  <2>2. CASE Top = 1
    <3>1. /\ IdsOf(Current.tokens) \cap (OriginsOf(Current.tokens) \cup OriginsOf(out)) = {}
          /\ Call.orig \notin IdsOf(Current.tokens)
      BY <1>2, <2>2 DEF Alloc, Text, out
    <3>2. IdsOf(ts) \cap (OriginsOf(ts) \cup OriginsOf(out)) = {}
      <4>1. IdsOf(new) \cap (OriginsOf(new) \cup OriginsOf(Current.tokens) \cup OriginsOf(out)) = {}
        BY <1>4, <1>14
      <4>2. IdsOf(Current.tokens) \cap OriginsOf(new) = {}
        BY <1>4, <3>1
      <4>3. QED
        BY <1>15, <3>1, <4>1, <4>2
    <3>3. cs = <<>>
      <4>1. Len(cs) = 0
        BY <1>9, <2>2
      <4>2. \E C : cs \in Seq(C)
        <5>1. PICK ends : calls \in Seq(CallOf(ends))
          BY <1>2 DEF Types
        <5> DEFINE C == CallOf(ends)
        <5>2. calls \in Seq(C)
          BY <5>1
        <5> HIDE DEF C
        <5>3. cs \in Seq(C)
          BY <1>1, <1>2, <5>2, FrontFacts DEF cs
        <5>4. QED
          BY <5>3
      <4>3. QED
        BY <4>1, <4>2
    <3>4. QED
      BY <1>8, <2>1, <2>2, <3>2, <3>3 DEF Text
  <2>3. CASE Top # 1
    <3>1. fs[1] = frames[1] /\ cs[1] = calls[1]
      BY <1>2, <1>8, <1>9, <2>3
    <3>2. QED
      BY <1>2, <2>1, <3>1 DEF Alloc, Text
  <2>4. QED
    BY <2>2, <2>3
<1>22. QED
  BY <1>6, <1>18, <1>19, <1>20, <1>21 DEF Alloc, live, cs, fs

-----------------------------------------------------------------------------
(* The specification, with what is allocated.                              *)

LEMMA InitAlloc == Init => Alloc
<1>1. SUFFICES ASSUME Init PROVE Alloc
  OBVIOUS
<1>2. PICK p \in Programs :
        /\ frames = << [kind |-> p.kind, out |-> <<>>, start |-> 0, eof |-> Len(p.input) + 1,
                        tokens |-> [i \in 1..Len(p.input) |-> NewToken(p.input[i], Source, i, NULL)]] >>
        /\ made = Len(p.input) + 1 /\ chain = [i \in 1..made |-> i]
  BY <1>1 DEF Init
<1>3. p.input \in Seq(STRING) /\ calls = <<>>
  BY <1>1, ProgramsAreText DEF Init
<1> DEFINE n == Len(p.input)
           ts == [i \in 1..n |-> NewToken(p.input[i], Source, i, NULL)]
           f == [kind |-> p.kind, out |-> <<>>, start |-> 0, eof |-> n + 1, tokens |-> ts]
           live == Live(chain)
<1>4. n \in Nat /\ frames = <<f>> /\ f.tokens = ts /\ f.out = <<>> /\ made = n + 1
  BY <1>2, <1>3
<1> HIDE DEF f
<1>5. Len(frames) = 1 /\ frames[1] = f /\ Len(calls) = 0
  BY <1>3, <1>4
<1>6. Len(ts) = n /\ \A i \in 1..n : ts[i].id = i /\ ts[i].origin = NULL
  <2> HIDE DEF n
  <2>1. QED
    BY <1>4 DEF NewToken
<1> HIDE DEF ts, n
<1>7. Allocated(chain, made) /\ live = 1..(n + 1)
  <2>1. chain = [i \in 1..(n + 1) |-> i] /\ n + 1 \in Nat /\ made = n + 1
    BY <1>2, <1>4
  <2> DEFINE m == n + 1
  <2> HIDE DEF m
  <2>2. chain \in Seq(1..m) /\ Len(chain) = m /\ \A i \in 1..m : chain[i] = i
    BY <2>1 DEF m
  <2>3. Rising(chain)
    BY <2>1, <2>2 DEF Rising, m
  <2>4. Live(chain) = 1..m
    BY <2>2 DEF Live
  <2>5. QED
    BY <2>1, <2>2, <2>3, <2>4 DEF Allocated, m
<1> HIDE DEF live
<1>8. Listed(ts, 0, live)
  BY <1>4, <1>6, <1>7 DEF Listed, Distinct
<1>9. \A x \in IdsOf(ts) : x # NULL
  BY <1>4, <1>6 DEF IdsOf, NULL
<1>10. OriginsOf(ts) \subseteq {NULL}
  BY <1>6 DEF OriginsOf
<1>11. Frames(frames, calls, live)
  <2>1. Lo(calls, 1) = 0 /\ Upto(calls, live, 1) = live
    BY <1>5 DEF Lo, Upto
  <2>2. FrameFits(f, 0, live)
    BY <1>4, <1>8, EmptyList DEF FrameFits, Apart
  <2>3. QED
    BY <1>5, <2>1, <2>2 DEF Frames
<1>12. Calls(calls, live) /\ Between(frames, calls)
  BY <1>5 DEF Calls, Between
<1>13. Text(frames, calls)
  <2>1. IdsOf(f.tokens) \cap (OriginsOf(f.tokens) \cup OriginsOf(f.out)) = {}
    BY <1>4, <1>9, <1>10, EmptyList
  <2>2. QED
    BY <1>3, <1>5, <2>1 DEF Text
<1>14. QED
  BY <1>7, <1>11, <1>12, <1>13 DEF Alloc, live

LEMMA NextAlloc == Inv /\ Alloc /\ [Next]_vars => Alloc'
<1>1. SUFFICES ASSUME Inv, Alloc, [Next]_vars PROVE Alloc'
  OBVIOUS
<1>2. CASE Keep
  BY <1>1, <1>2, KeepAlloc
<1>3. CASE Defined
  BY <1>1, <1>3, DefinedAlloc
<1>4. CASE HasOperator
  BY <1>1, <1>4, HasOperatorAlloc
<1>5. CASE BeginObjectLike
  BY <1>1, <1>5, BeginObjectLikeAlloc
<1>6. CASE BeginFunctionLike
  BY <1>1, <1>6, BeginFunctionLikeAlloc
<1>7. CASE ExpandArg
  BY <1>1, <1>7, ExpandArgAlloc
<1>8. CASE UseArg
  BY <1>1, <1>8, UseArgAlloc
<1>9. CASE UseOther
  BY <1>1, <1>9, UseOtherAlloc
<1>10. CASE PasteMarker
  BY <1>1, <1>10, PasteMarkerAlloc
<1>11. CASE Paste
  BY <1>1, <1>11, PasteAlloc
<1>12. CASE EndCall
  BY <1>1, <1>12, EndCallAlloc
<1>13. CASE EndArg
  BY <1>1, <1>13, EndArgAlloc
<1>14. CASE Finish
  BY <1>1, <1>14, Nothing DEF Finish, memory
<1>15. CASE UNCHANGED vars
  BY <1>1, <1>15, Nothing DEF vars
<1>16. QED
  BY <1>1, <1>2, <1>3, <1>4, <1>5, <1>6, <1>7, <1>8, <1>9, <1>10, <1>11, <1>12, <1>13, <1>14, <1>15
  DEF Next, Scan, Subst, End

LEMMA AllocInvariance == Spec /\ []DefinedIsWhole => []Alloc
<1>1. Spec /\ []DefinedIsWhole => []Inv
  BY Invariance
<1>2. Spec /\ []Inv => []Alloc
  BY InitAlloc, NextAlloc, PTL DEF Spec
<1>3. QED
  BY <1>1, <1>2, PTL

-----------------------------------------------------------------------------
(* The lists taken together.                                               *)

LEMMA Flattened ==
  ASSUME NEW ss \in Seq(Seq(Token)), NEW lo, NEW live,
         \A i \in 1..Len(ss) : Listed(ss[i], lo, live),
         \A i, j \in 1..Len(ss) : i < j => Apart(ss[i], ss[j])
  PROVE  /\ FlattenSeq(ss) \in Seq(Token) /\ Listed(FlattenSeq(ss), lo, live)
         /\ \A x \in IdsOf(FlattenSeq(ss)) : \E i \in 1..Len(ss) : x \in IdsOf(ss[i])
<1> DEFINE n == Len(ss)
           T == Seq(Token)
           From(f) == [i \in 1..n |-> IF i = 1 THEN ss[i] ELSE f[i - 1] \o ss[i]]
           F == CHOOSE f : f = From(f)
<1>1. n \in Nat /\ ss \in Seq(T)
  OBVIOUS
<1>2. CASE n = 0
  <2>1. FlattenSeq(ss) = ss /\ ss = <<>>
    BY <1>1, <1>2 DEF FlattenSeq
  <2>2. <<>> \in T
    OBVIOUS
  <2>3. QED
    BY <2>1, <2>2, EmptyList
<1>3. CASE n # 0
  <2>1. FlattenSeq(ss) = F[n]
    BY <1>3 DEF FlattenSeq
  <2>2. \A i \in 1..n : ss[i] \in T
    <3> HIDE DEF T
    <3>1. QED
      BY <1>1
  <2> HIDE DEF n
  <2>3. F = From(F)
    <3> DEFINE h == [i \in 1..n |-> [s \in T |-> IF i = 1 THEN ss[i] ELSE s \o ss[i]]]
               none == <<>>
    <3>1. h \in [1..n -> [T -> T]] /\ none \in T
      BY <2>2
    <3>2. \A i \in 1..n, s \in T : h[i][s] = IF i = 1 THEN ss[i] ELSE s \o ss[i]
      OBVIOUS
    <3> HIDE DEF h, none, T
    <3>3. PICK f \in [0..n -> T] : Follows(f, n, none, h)
      BY <1>1, <3>1, Recursion
    <3> DEFINE g == [i \in 1..n |-> f[i]]
    <3>4. ASSUME NEW i \in 1..n PROVE g[i] = From(g)[i]
      <4>1. f[i - 1] \in T /\ f[i] = h[i][f[i - 1]]
        BY <1>1, <3>3 DEF Follows
      <4>2. f[i] = IF i = 1 THEN ss[i] ELSE f[i - 1] \o ss[i]
        BY <3>2, <4>1
      <4>3. i # 1 => i - 1 \in 1..n
        BY <1>1
      <4>4. QED
        BY <4>2, <4>3
    <3>5. g = From(g)
      BY <3>4
    <3> HIDE DEF From, g
    <3>6. QED
      BY <3>5
  <2> HIDE DEF F
  <2>4. \A i \in 1..n : F[i] = IF i = 1 THEN ss[i] ELSE F[i - 1] \o ss[i]
    <3> DEFINE g == From(F)
    <3>1. \A i \in 1..n : g[i] = IF i = 1 THEN ss[i] ELSE F[i - 1] \o ss[i]
      OBVIOUS
    <3>2. F = g
      BY <2>3
    <3> HIDE DEF g
    <3>3. QED
      BY <3>1, <3>2
  <2> DEFINE Good(i, s) == /\ s \in T /\ Listed(s, lo, live)
                           /\ \A x \in IdsOf(s) : \E m \in 1..i : x \in IdsOf(ss[m])
             G == {i \in 0..n : i = 0 \/ Good(i, F[i])}
  <2>5. ASSUME NEW i \in 1..n, i = 1 \/ Good(i - 1, F[i - 1]) PROVE Good(i, F[i])
    <3>1. ss[i] \in T /\ Listed(ss[i], lo, live)
      BY <2>2 DEF n
    <3>2. CASE i = 1
      <4>1. F[i] = ss[i]
        BY <2>4, <3>2
      <4>2. \A x \in IdsOf(ss[i]) : \E m \in 1..i : x \in IdsOf(ss[m])
        OBVIOUS
      <4> HIDE DEF T
      <4>3. QED
        BY <3>1, <4>1, <4>2
    <3>3. CASE i # 1
      <4> DEFINE s == F[i - 1]
      <4>1. F[i] = s \o ss[i]
        BY <2>4, <3>3
      <4>2. s \in T /\ Listed(s, lo, live) /\ \A x \in IdsOf(s) : \E m \in 1..(i - 1) : x \in IdsOf(ss[m])
        BY <2>5, <3>3
      <4> HIDE DEF s
      <4>3. Apart(s, ss[i])
        <5>1. ASSUME NEW x \in IdsOf(s) PROVE x \notin IdsOf(ss[i])
          <6>1. PICK m \in 1..(i - 1) : x \in IdsOf(ss[m])
            BY <4>2
          <6>2. m \in 1..Len(ss) /\ i \in 1..Len(ss) /\ m < i
            BY <1>1 DEF n
          <6>3. Apart(ss[m], ss[i])
            BY <6>2
          <6>4. QED
            BY <6>1, <6>3 DEF Apart
        <5>2. QED
          BY <5>1 DEF Apart
      <4>4. s \o ss[i] \in T /\ Listed(s \o ss[i], lo, live) /\ IdsOf(s \o ss[i]) = IdsOf(s) \cup IdsOf(ss[i])
        BY <3>1, <4>2, <4>3, JoinLists, JoinIds
      <4>5. \A x \in IdsOf(s \o ss[i]) : \E m \in 1..i : x \in IdsOf(ss[m])
        <5>1. \A m \in 1..(i - 1) : m \in 1..i
          OBVIOUS
        <5>2. i \in 1..i
          OBVIOUS
        <5>3. QED
          BY <4>2, <4>4, <5>1, <5>2
      <4> HIDE DEF T
      <4>6. QED
        BY <4>1, <4>4, <4>5
    <3>4. QED
      BY <3>2, <3>3
  <2> HIDE DEF Good
  <2>6. 0 \in G /\ \A i \in 1..n : i - 1 \in G => i \in G
    BY <1>1, <2>5
  <2> HIDE DEF G
  <2>7. \A i \in 0..n : i \in G
    BY <1>1, <2>6, Induct, Zenon
  <2>8. Good(n, F[n])
    BY <1>1, <1>3, <2>7 DEF G
  <2>9. QED
    BY <2>1, <2>8 DEF Good, n
<1>4. QED
  BY <1>2, <1>3

\* As many ids as tokens.
LEMMA CountIds ==
  ASSUME NEW ts \in Seq(Token), Distinct(ts)
  PROVE  Cardinality(ToSet(Ids(ts))) = Len(Ids(ts))
<1> DEFINE n == Len(ts)
           f == Ids(ts)
           S == ToSet(f)
<1>1. n \in Nat /\ DOMAIN ts = 1..n
  OBVIOUS
<1> HIDE DEF n
<1>2. f = [i \in 1..n |-> ts[i].id]
  BY <1>1 DEF Ids
<1>3. DOMAIN f = 1..n /\ \A i \in 1..n : f[i] = ts[i].id
  BY <1>2
<1>4. Len(f) = n
  <2>1. \A i \in 1..n : ts[i].id \in Int
    <3>1. \A i \in 1..n : ts[i] \in Token
      BY <1>1
    <3>2. QED
      BY <3>1 DEF Token
  <2>2. f \in Seq(Int)
    BY <1>1, <1>2, <2>1
  <2> HIDE DEF f
  <2>3. QED
    BY <1>1, <1>3, <2>2
<1>5. S = {f[i] : i \in 1..n}
  BY <1>3 DEF ToSet
<1>6. \A i, j \in 1..n : i # j => f[i] # f[j]
  BY <1>3 DEF Distinct, n
<1>7. f \in [1..n -> S]
  BY <1>2, <1>5
<1> HIDE DEF f, S
<1>8. f \in Bijection(1..n, S)
  <2>1. f \in Injection(1..n, S)
    BY <1>6, <1>7 DEF Injection, IsInjective
  <2>2. f \in Surjection(1..n, S)
    BY <1>5, <1>7 DEF Surjection
  <2>3. QED
    BY <2>1, <2>2 DEF Bijection
<1>9. IsFiniteSet(1..n) /\ Cardinality(1..n) = n
  BY <1>1, FS_Interval
<1>10. Cardinality(S) = n
  BY <1>8, <1>9, FS_Bijection DEF ExistsBijection
<1>11. QED
  BY <1>4, <1>10 DEF f, S

\* Where the lists of a loop and of a call are, among what was allocated.
LEMMA FramesList ==
  ASSUME Inv, Alloc, NEW i \in 1..Top
  PROVE  /\ OfFrame(frames[i]) \in Seq(Token) /\ Listed(OfFrame(frames[i]), 0, Live(chain))
         /\ frames[i].tokens \in Seq(Token) /\ Listed(frames[i].tokens, 0, Live(chain))
         /\ \A x \in IdsOf(OfFrame(frames[i])) :
              /\ i > 1 => calls[i - 1].free_alloc_end < x
              /\ i <= Len(calls) => x <= calls[i].free_alloc_end
<1> DEFINE f == frames[i]
           lo == Lo(calls, i)
           live == Upto(calls, Live(chain), i)
           ts == f.tokens
           out == f.out
<1>1. i \in 1..Len(frames) /\ frames \in Seq(Frame)
  BY DEF Inv, Types, Top
<1>2. ts \in Seq(Token) /\ out \in Seq(Token)
  <2>1. f \in Frame
    BY <1>1
  <2> HIDE DEF f
  <2>2. QED
    BY <2>1 DEF Frame
<1>3. Listed(ts, lo, live) /\ Listed(out, lo, live) /\ Apart(ts, out)
  BY <1>1 DEF Alloc, Frames, FrameFits
<1>4. OfFrame(f) \in {out, ts \o out}
  BY DEF OfFrame
<1> HIDE DEF f, lo, live, ts, out
<1> DEFINE all == OfFrame(f)
<1>5. all \in Seq(Token) /\ Listed(all, lo, live)
  <2>1. ts \o out \in Seq(Token) /\ Listed(ts \o out, lo, live)
    BY <1>2, <1>3, JoinLists
  <2>2. QED
    BY <1>2, <1>3, <1>4, <2>1
<1> HIDE DEF all
<1>6. /\ live \subseteq Live(chain)
      /\ i <= Len(calls) => \A x \in live : x <= calls[i].free_alloc_end
  BY DEF live, Upto
<1>7. i > 1 => lo = calls[i - 1].free_alloc_end
  BY DEF lo, Lo
<1>8. \A s : Listed(s, lo, live) => Listed(s, 0, Live(chain))
  BY <1>6, Newest DEF Listed
<1>9. \A x \in IdsOf(all) : x \in live /\ lo < x
  BY <1>5, ListedIds
<1>10. QED
  BY <1>2, <1>3, <1>5, <1>6, <1>7, <1>8, <1>9 DEF all, f, ts

LEMMA CallsList ==
  ASSUME Inv, Alloc, NEW i \in 1..Len(calls)
  PROVE  /\ OfCall(calls[i]) \in Seq(Token) /\ Listed(OfCall(calls[i]), 0, Live(chain))
         /\ \A x \in IdsOf(OfCall(calls[i])) :
              /\ calls[i].free_alloc_end < x
              /\ i < Len(calls) => x <= calls[i + 1].free_alloc_end
         /\ \A out : ApartFrom(out, calls[i]) => Apart(out, OfCall(calls[i]))
         /\ calls[i].free_alloc_end \in Live(chain)
<1>1. PICK ends : calls \in Seq(CallOf(ends))
  BY DEF Inv, Types
<1> DEFINE C == CallOf(ends)
           c == calls[i]
           live == Upto(calls, Live(chain), i + 1)
           e == c.free_alloc_end
           T == Seq(Token)
           ss == c.expanded
           flat == FlattenSeq(ss)
           two == c.arg \o flat
           all == two \o c.out
<1>2. c \in C
  <2>1. calls \in Seq(C)
    BY <1>1
  <2> HIDE DEF C
  <2>2. QED
    BY <2>1
<1>3. CallLives(c, live)
  BY DEF Alloc, Calls
<1>4. live \subseteq Live(chain) /\ (i < Len(calls) => \A x \in live : x <= calls[i + 1].free_alloc_end)
  <2>1. Len(calls) \in Nat
    BY <1>1
  <2>2. i < Len(calls) => i + 1 <= Len(calls)
    BY <2>1
  <2>3. QED
    BY <2>2 DEF Upto
<1>5. OfCall(c) = all
  BY DEF OfCall
<1> HIDE DEF c, live
<1>6. c.arg \in T /\ ss \in Seq(T) /\ c.out \in T
  BY <1>2 DEF CallOf
<1>7. /\ Listed(c.arg, e, live) /\ Listed(Expanded(c), e, live) /\ Listed(c.out, e, live)
      /\ Apart(c.arg, Expanded(c)) /\ Apart(c.arg, c.out) /\ Apart(Expanded(c), c.out)
      /\ e \in live /\ Len(ss) <= 1
  BY <1>3 DEF CallLives
<1>8. \A k \in 1..Len(ss) : k = 1 /\ ss[k] = Expanded(c)
  <2> HIDE DEF T, ss
  <2>1. \A k \in 1..Len(ss) : k = 1 /\ ss # <<>>
    BY <1>6, <1>7
  <2>2. QED
    BY <2>1 DEF Expanded, ss
<1>9. flat \in T /\ Listed(flat, e, live) /\ IdsOf(flat) \subseteq IdsOf(Expanded(c))
  <2>1. ss \in Seq(Seq(Token)) /\ \A k \in 1..Len(ss) : Listed(ss[k], e, live)
    BY <1>6, <1>7, <1>8
  <2>2. \A j, k \in 1..Len(ss) : j < k => Apart(ss[j], ss[k])
    BY <1>8
  <2> HIDE DEF ss, e
  <2>3. /\ FlattenSeq(ss) \in Seq(Token) /\ Listed(FlattenSeq(ss), e, live)
        /\ \A x \in IdsOf(FlattenSeq(ss)) : \E k \in 1..Len(ss) : x \in IdsOf(ss[k])
    BY <2>1, <2>2, Flattened
  <2>4. QED
    BY <1>8, <2>3
<1> HIDE DEF flat, ss, e
<1>10. two \in T /\ Listed(two, e, live) /\ IdsOf(two) = IdsOf(c.arg) \cup IdsOf(flat)
  <2>1. Apart(c.arg, flat)
    BY <1>7, <1>9 DEF Apart
  <2>2. QED
    BY <1>6, <1>7, <1>9, <2>1, JoinLists, JoinIds
<1> HIDE DEF two
<1>11. all \in T /\ Listed(all, e, live) /\ IdsOf(all) = IdsOf(c.arg) \cup IdsOf(flat) \cup IdsOf(c.out)
  <2>1. Apart(two, c.out)
    BY <1>7, <1>9, <1>10 DEF Apart
  <2>2. QED
    BY <1>6, <1>7, <1>10, <2>1, JoinLists, JoinIds
<1> HIDE DEF all
<1>12. Listed(all, 0, Live(chain))
  <2>1. \A x \in Live(chain) : 0 < x
    BY Newest
  <2>2. QED
    BY <1>4, <1>11, <2>1 DEF Listed
<1>13. \A x \in IdsOf(all) : e < x /\ x \in live
  BY <1>11, ListedIds
<1>14. \A out : ApartFrom(out, c) => Apart(out, all)
  BY <1>9, <1>11 DEF ApartFrom, Apart
<1>15. QED
  BY <1>4, <1>5, <1>7, <1>11, <1>12, <1>13, <1>14 DEF c, e

LEMMA TokensFollow == Inv /\ Alloc => TokensAreKept
<1>1. SUFFICES ASSUME Inv, Alloc PROVE TokensAreKept
  OBVIOUS
<1> DEFINE live == Live(chain)
           m == Len(calls)
           Stop(i) == calls[i].free_alloc_end
           fs == [i \in 1..Top |-> OfFrame(frames[i])]
           cs == [i \in 1..m |-> OfCall(calls[i])]
           T == Seq(Token)
<1>2. /\ Top \in Nat \ {0} /\ m \in Nat /\ Top - 1 <= m /\ m <= Top /\ Top = Len(frames)
      /\ DOMAIN calls = 1..m
  <2>1. Len(calls) \in {Top - 1, Top} /\ Top \in Nat \ {0} /\ Top = Len(frames)
    BY <1>1, TopFacts DEF Inv, Types, Top
  <2>2. \E ends : calls \in Seq(CallOf(ends))
    BY <1>1 DEF Inv, Types
  <2>3. QED
    BY <2>1, <2>2
<1>3. \A t \in live : t \in Nat /\ t > 0
  BY <1>1, Newest
<1>4. ASSUME NEW i \in 1..m PROVE Stop(i) \in live /\ Stop(i) \in Nat
  BY <1>1, <1>3, CallsList
<1>5. \A i, j \in 1..m : i <= j => Stop(i) <= Stop(j)
  BY <1>1 DEF Alloc, Calls
<1>6. ASSUME NEW i \in 1..Top
      PROVE  /\ fs[i] \in Seq(Token) /\ Listed(fs[i], 0, live)
             /\ \A x \in IdsOf(fs[i]) : /\ x \in Nat
                                        /\ i > 1 => Stop(i - 1) < x
                                        /\ i <= m => x <= Stop(i)
  <2>1. /\ OfFrame(frames[i]) \in Seq(Token) /\ Listed(OfFrame(frames[i]), 0, live)
        /\ \A x \in IdsOf(OfFrame(frames[i])) : /\ i > 1 => Stop(i - 1) < x
                                                /\ i <= m => x <= Stop(i)
    BY <1>1, FramesList
  <2>2. \A x \in IdsOf(OfFrame(frames[i])) : x \in Nat
    BY <1>3, <2>1, ListedIds
  <2>3. fs[i] = OfFrame(frames[i])
    OBVIOUS
  <2>4. QED
    BY <2>1, <2>2, <2>3
<1>7. ASSUME NEW i \in 1..m
      PROVE  /\ cs[i] \in Seq(Token) /\ Listed(cs[i], 0, live)
             /\ \A x \in IdsOf(cs[i]) : x \in Nat /\ Stop(i) < x /\ (i < m => x <= Stop(i + 1))
             /\ \A out : ApartFrom(out, calls[i]) => Apart(out, cs[i])
  <2>1. /\ OfCall(calls[i]) \in Seq(Token) /\ Listed(OfCall(calls[i]), 0, live)
        /\ \A x \in IdsOf(OfCall(calls[i])) : Stop(i) < x /\ (i < m => x <= Stop(i + 1))
        /\ \A out : ApartFrom(out, calls[i]) => Apart(out, OfCall(calls[i]))
    BY <1>1, CallsList
  <2>2. \A x \in IdsOf(OfCall(calls[i])) : x \in Nat
    BY <1>3, <2>1, ListedIds
  <2>3. cs[i] = OfCall(calls[i])
    OBVIOUS
  <2>4. QED
    BY <2>1, <2>2, <2>3
<1>8. /\ fs \in Seq(T) /\ Len(fs) = Top /\ cs \in Seq(T) /\ Len(cs) = m
  <2>1. (\A i \in 1..Top : OfFrame(frames[i]) \in T) /\ \A i \in 1..m : OfCall(calls[i]) \in T
    BY <1>1, FramesList, CallsList
  <2> HIDE DEF T, m
  <2>2. QED
    BY <1>2, <2>1
<1>9. ASSUME NEW j \in 1..m, NEW out, ApartFrom(out, calls[j]) PROVE Apart(out, cs[j])
  BY <1>7, <1>9
<1>10. \A j \in 1..m : j + 1 <= Top => Apart(fs[j + 1], cs[j])
  <2>1. ASSUME NEW j \in 1..m, j + 1 <= Top PROVE Apart(fs[j + 1], cs[j])
    <3>1. j + 1 \in 2..Len(frames) /\ j < Len(frames) /\ j + 1 \in 1..Top
      BY <1>2, <2>1
    <3>2. frames[j + 1].kind = "arg" /\ ApartFrom(frames[j + 1].out, calls[j])
      BY <1>1, <3>1 DEF Alloc, Text, Between
    <3>3. fs[j + 1] = frames[j + 1].out
      BY <3>1, <3>2 DEF OfFrame
    <3> HIDE DEF fs, cs
    <3>4. QED
      BY <1>9, <3>2, <3>3
  <2>2. QED
    BY <2>1
<1> HIDE DEF fs, cs, live, Stop
<1>11. ASSUME NEW i \in 1..Top, NEW j \in 1..Top, i < j PROVE Apart(fs[i], fs[j])
  <2>1. i \in 1..m /\ j - 1 \in 1..m /\ i <= j - 1 /\ j > 1 /\ i <= m
    BY <1>2, <1>11
  <2>2. Stop(i) <= Stop(j - 1) /\ Stop(i) \in Nat /\ Stop(j - 1) \in Nat
    BY <1>4, <1>5, <2>1
  <2>3. (\A x \in IdsOf(fs[i]) : x \in Nat /\ x <= Stop(i)) /\ \A x \in IdsOf(fs[j]) : x \in Nat /\ Stop(j - 1) < x
    BY <1>6, <2>1
  <2>4. \A x \in IdsOf(fs[i]), y \in IdsOf(fs[j]) : x < y
    BY <2>2, <2>3
  <2>5. \A x \in IdsOf(fs[i]) : x \in Nat
    BY <2>3
  <2>6. QED
    BY <2>4, <2>5 DEF Apart
<1>12. ASSUME NEW i \in 1..m, NEW j \in 1..m, i < j PROVE Apart(cs[i], cs[j])
  <2>1. i + 1 \in 1..m /\ i + 1 <= j /\ i < m
    BY <1>2, <1>12
  <2>2. Stop(i + 1) <= Stop(j) /\ Stop(i + 1) \in Nat /\ Stop(j) \in Nat
    BY <1>4, <1>5, <2>1
  <2>3. (\A x \in IdsOf(cs[i]) : x \in Nat /\ x <= Stop(i + 1)) /\ \A x \in IdsOf(cs[j]) : x \in Nat /\ Stop(j) < x
    BY <1>7, <2>1
  <2>4. \A x \in IdsOf(cs[i]), y \in IdsOf(cs[j]) : x < y
    BY <2>2, <2>3
  <2>5. \A x \in IdsOf(cs[i]) : x \in Nat
    BY <2>3
  <2>6. QED
    BY <2>4, <2>5 DEF Apart
<1>13. ASSUME NEW i \in 1..Top, NEW j \in 1..m PROVE Apart(fs[i], cs[j])
  <2>1. CASE i <= j
    <3>1. i \in 1..m /\ i <= m
      BY <1>2, <2>1
    <3>2. Stop(i) <= Stop(j) /\ Stop(i) \in Nat /\ Stop(j) \in Nat
      BY <1>4, <1>5, <2>1, <3>1
    <3>3. (\A x \in IdsOf(fs[i]) : x \in Nat /\ x <= Stop(i)) /\ \A x \in IdsOf(cs[j]) : x \in Nat /\ Stop(j) < x
      BY <1>6, <1>7, <3>1
    <3>4. \A x \in IdsOf(fs[i]), y \in IdsOf(cs[j]) : x < y
      BY <3>2, <3>3
    <3>5. \A x \in IdsOf(fs[i]) : x \in Nat
      BY <3>3
    <3>6. QED
      BY <3>4, <3>5 DEF Apart
  <2>2. CASE i = j + 1
    BY <1>10, <2>2
  <2>3. CASE i > j + 1
    <3>1. i - 1 \in 1..m /\ j + 1 \in 1..m /\ j + 1 <= i - 1 /\ i > 1 /\ j < m
      BY <1>2, <2>3
    <3>2. Stop(j + 1) <= Stop(i - 1) /\ Stop(j + 1) \in Nat /\ Stop(i - 1) \in Nat
      BY <1>4, <1>5, <3>1
    <3>3. /\ \A x \in IdsOf(fs[i]) : x \in Nat /\ Stop(i - 1) < x
          /\ \A x \in IdsOf(cs[j]) : x \in Nat /\ x <= Stop(j + 1)
      BY <1>6, <1>7, <3>1
    <3>4. \A x \in IdsOf(fs[i]), y \in IdsOf(cs[j]) : y < x
      BY <3>2, <3>3
    <3>5. \A x \in IdsOf(fs[i]) : x \in Nat
      BY <3>3
    <3>6. QED
      BY <3>4, <3>5 DEF Apart
  <2>4. QED
    BY <1>2, <2>1, <2>2, <2>3
<1> HIDE DEF m
<1>14. /\ FlattenSeq(fs) \in Seq(Token) /\ Listed(FlattenSeq(fs), 0, live)
       /\ \A x \in IdsOf(FlattenSeq(fs)) : \E i \in 1..Top : x \in IdsOf(fs[i])
  BY <1>6, <1>8, <1>11, Flattened
<1>15. /\ FlattenSeq(cs) \in Seq(Token) /\ Listed(FlattenSeq(cs), 0, live)
       /\ \A x \in IdsOf(FlattenSeq(cs)) : \E i \in 1..m : x \in IdsOf(cs[i])
  BY <1>7, <1>8, <1>12, Flattened
<1>16. InLists = FlattenSeq(fs) \o FlattenSeq(cs)
  BY DEF InLists, fs, cs, m
<1>17. InLists \in Seq(Token) /\ Listed(InLists, 0, live)
  <2>1. Apart(FlattenSeq(fs), FlattenSeq(cs))
    <3>1. \A i \in 1..Top, j \in 1..m : IdsOf(fs[i]) \cap IdsOf(cs[j]) = {}
      BY <1>13 DEF Apart
    <3>2. QED
      BY <1>14, <1>15, <3>1 DEF Apart
  <2> DEFINE a == FlattenSeq(fs)
             b == FlattenSeq(cs)
  <2> HIDE DEF a, b
  <2>2. a \in Seq(Token) /\ b \in Seq(Token) /\ Listed(a, 0, live) /\ Listed(b, 0, live) /\ Apart(a, b)
    BY <1>14, <1>15, <2>1 DEF a, b
  <2>3. a \o b \in Seq(Token) /\ Listed(a \o b, 0, live)
    BY <2>2, JoinLists
  <2>4. QED
    BY <1>16, <2>3 DEF a, b
<1>18. ToSet(chain) = live
  <2>1. DOMAIN chain = 1..Len(chain)
    BY <1>1 DEF Alloc, Allocated
  <2>2. QED
    BY <2>1 DEF ToSet, Live, live
<1>19. Cardinality(ToSet(Ids(InLists))) = Len(Ids(InLists))
  BY <1>17, CountIds DEF Listed
<1>20. ASSUME NEW ts \in Seq(Token), Listed(ts, 0, live), NEW t \in ToSet(ts)
       PROVE  t.id \in ToSet(chain) /\ t.origin \in ToSet(chain) \cup {NULL}
  <2>1. PICK k \in 1..Len(ts) : t = ts[k]
    BY <1>20 DEF ToSet
  <2>2. QED
    BY <1>18, <1>20, <2>1 DEF Listed
<1>21. \A t \in ToSet(InLists) \cup UNION {ToSet(frames[i].tokens) : i \in 1..Top} :
          t.id \in ToSet(chain) /\ t.origin \in ToSet(chain) \cup {NULL}
  <2>1. ASSUME NEW i \in 1..Top, NEW t \in ToSet(frames[i].tokens)
        PROVE  t.id \in ToSet(chain) /\ t.origin \in ToSet(chain) \cup {NULL}
    <3>1. frames[i].tokens \in Seq(Token) /\ Listed(frames[i].tokens, 0, live)
      BY <1>1, FramesList DEF live
    <3>2. QED
      BY <1>20, <2>1, <3>1
  <2>2. QED
    BY <1>17, <1>20, <2>1
<1>22. \A i \in DOMAIN calls : calls[i].free_alloc_end \in ToSet(chain)
  BY <1>2, <1>4, <1>18 DEF Stop, m
<1>23. QED
  BY <1>19, <1>21, <1>22 DEF TokensAreKept

\* Every list of tokens that a loop or a call under way still refers to, the
\* tokens those stand for and the ones at which the ends of the calls stop
\* giving back are allocated, whatever was given back before: by the calls that
\* ended (preprocess.c:1032) and by the text for the tokens of its calls
\* (free_funclike_args); and no token is in two of the lists.
THEOREM TokensStay == Spec /\ []DefinedIsWhole => []TokensAreKept
<1>1. QED
  BY TokensFollow, Invariance, AllocInvariance, PTL
=============================================================================
