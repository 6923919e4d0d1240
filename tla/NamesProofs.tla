---------------------------- MODULE NamesProofs ----------------------------
(***************************************************************************)
(* Proofs about Names, for every set of spellings, prefixes, paths, lists  *)
(* of captures and aliases, every depth of blocks and of prefix scopes,    *)
(* and programs of every length.                                           *)
(*                                                                         *)
(* NamesIInv says more than the properties.  Every entry of a prefix       *)
(* agrees with the file scope (Agree), and not only the one a lookup finds *)
(* first; none that a lookup finds is unset (AllSet).  A block holds what  *)
(* it declared under the name as written (BlocksHold).  Each prefix is     *)
(* where the path it was declared with leads (WrittenLeads).  All of this  *)
(* is of programs that meet none of the known faults (FaultsLeftOut); what *)
(* remains true of the others is Typed.                                    *)
(*                                                                         *)
(* One declaration makes every list of entries longer at its end only      *)
(* (Grown), and gives each new entry the full name that it binds in the    *)
(* file scope; so what was found before is found after (Stays).  A new     *)
(* prefix makes lists longer at the end too, so that every path leads      *)
(* where it led (Extends, LeadsStay).                                      *)
(*                                                                         *)
(* The searches are recursive functions, whose existence is proved by      *)
(* induction on the length of the path (Recursion, WalkIs, SeekExists) or  *)
(* on the number of the prefix, a parent having the smaller (ParentsExist).*)
(***************************************************************************)
EXTENDS Names, SequenceTheorems, WellFoundedInduction, TLAPS

Words == {_Global} \cup UNION {Range(d[1]) : d \in NpDecls}
Entry == [name : Seq(Atoms), is_tag : BOOLEAN, entity : Int \ {0}]
Np == [name : Words, parent : Nat, prefix : Seq(Atoms), entries : Seq(Entry),
       nested : Seq(Nat), written : Seq(Words)]
Tables == UNION {[D -> Nat \ {0}] : D \in SUBSET Seq(Atoms)}

(* Lists of prefixes, numbered from 1; parents come before what is in them. *)
Lists == {L \in Seq(Np) :
             /\ L # <<>> /\ L[1].prefix = <<>>
             /\ \A p \in 1..Len(L) : L[p].parent < p /\ L[p].nested \in Seq(1..Len(L))}

\* Nothing but entries differs.
Alike(L, M) ==
  /\ Len(M) = Len(L)
  /\ \A p \in 1..Len(L) : /\ M[p].name = L[p].name /\ M[p].parent = L[p].parent
                          /\ M[p].prefix = L[p].prefix /\ M[p].nested = L[p].nested
                          /\ M[p].written = L[p].written

(* The entries of a list of prefixes agree with the table t of kind b.      *)
Agree(L, t, b) ==
  \A p \in 1..Len(L) : \A i \in 1..Len(L[p].entries) :
    L[p].entries[i].is_tag = b =>
      /\ L[p].prefix \o L[p].entries[i].name \in DOMAIN t
      /\ L[p].entries[i].entity \in {Dangling, t[L[p].prefix \o L[p].entries[i].name]}
AllSet(L) ==
  \A p \in 1..Len(L) : \A i \in 1..Len(L[p].entries) :
    np_contains(L[p], L[p].entries[i].name, L[p].entries[i].is_tag) # Dangling
AllIn(L, t, b) == \A n \in DOMAIN t : np_contains(L[1], n, b) = t[n]

\* M is L with more entries, each e under the full name n.
Longer(x, es, fs, n, e, b) ==
  /\ Len(es) <= Len(fs)
  /\ \A i \in 1..Len(es) : fs[i] = es[i]
  /\ \A i \in 1..Len(fs) : i > Len(es) => fs[i].is_tag = b /\ fs[i].entity = e /\ x \o fs[i].name = n
Grown(L, M, n, e, b) ==
  /\ Alike(L, M)
  /\ \A p \in 1..Len(L) : Longer(L[p].prefix, L[p].entries, M[p].entries, n, e, b)

-----------------------------------------------------------------------------
(* Counting and recursion.                                                 *)
Less == {p \in Nat \X Nat : p[1] < p[2]}

LEMMA Least ==
  ASSUME NEW S \in SUBSET Nat, S # {}
  PROVE  \E x \in S : \A y \in S : x <= y
<1>1. IsWellFoundedOn(Less, Nat)
  <2>1. Less = OpToRel(<, Nat)
    BY DEF Less, OpToRel
  <2>2. QED
    BY <2>1, NatLessThanWellFounded
<1>2. PICK x \in S : \A y \in S : ~(<<y, x>> \in Less)
  BY <1>1, WFMin
<1>3. \A y \in Nat, z \in Nat : y < z => <<y, z>> \in Less
  BY DEF Less
<1>4. ASSUME NEW y \in S PROVE x <= y
  <2>1. x \in Nat /\ y \in Nat /\ ~(y < x)
    BY <1>2, <1>3, <1>4
  <2>2. QED
    BY <2>1
<1>5. QED
  BY <1>4

LEMMA Induct ==
  ASSUME NEW n \in Nat, NEW G, 0 \in G, \A i \in 1..n : i - 1 \in G => i \in G
  PROVE  \A i \in 0..n : i \in G
<1> DEFINE B == {i \in 0..n : i \notin G}
<1>1. SUFFICES ASSUME B # {} PROVE FALSE
  OBVIOUS
<1>2. PICK x \in B : \A y \in B : x <= y
  <2>1. B \in SUBSET Nat
    OBVIOUS
  <2> HIDE DEF B
  <2>2. QED
    BY <1>1, <2>1, Least
<1>3. x \in 1..n /\ x \notin G
  OBVIOUS
<1>4. x - 1 \notin B
  BY <1>2, <1>3
<1>5. x - 1 \in G
  BY <1>3, <1>4
<1>6. QED
  BY <1>3, <1>5

\* There is a function with a given start whose values follow from each other.
Follows(f, n, a, h) == f[0] = a /\ \A i \in 1..n : f[i] = h[i][f[i - 1]]
LEMMA Recursion ==
  ASSUME NEW n \in Nat, NEW S, NEW a \in S, NEW h \in [1..n -> [S -> S]]
  PROVE  \E f \in [0..n -> S] : Follows(f, n, a, h)
<1> DEFINE Upto(m) == \E f \in [0..m -> S] : Follows(f, m, a, h)
           G == {m \in 0..n : Upto(m)}
<1>1. Upto(0)
  <2> DEFINE g == [i \in 0..0 |-> a]
  <2>1. g \in [0..0 -> S] /\ g[0] = a
    OBVIOUS
  <2> HIDE DEF g
  <2>2. QED
    BY <2>1 DEF Follows
<1>2. ASSUME NEW m \in 1..n, Upto(m - 1) PROVE Upto(m)
  <2>1. PICK f \in [0..(m - 1) -> S] : Follows(f, m - 1, a, h)
    BY <1>2
  <2> DEFINE g == [i \in 0..m |-> IF i = m THEN h[m][f[m - 1]] ELSE f[i]]
  <2>2. g \in [0..m -> S]
    OBVIOUS
  <2>3. g[0] = a
    BY <2>1 DEF Follows
  <2>4. ASSUME NEW i \in 1..m PROVE g[i] = h[i][g[i - 1]]
    <3>1. g[i - 1] = f[i - 1]
      OBVIOUS
    <3>2. CASE i = m
      BY <3>1, <3>2
    <3>3. CASE i # m
      <4>1. i \in 1..(m - 1) /\ g[i] = f[i]
        BY <3>3
      <4>2. QED
        BY <4>1, <3>1, <2>1 DEF Follows
    <3>4. QED
      BY <3>2, <3>3
  <2> HIDE DEF g
  <2>5. QED
    BY <2>2, <2>3, <2>4 DEF Follows
<1> HIDE DEF Upto
<1>3. 0 \in G
  BY <1>1
<1>4. \A i \in 1..n : i - 1 \in G => i \in G
  BY <1>2
<1> HIDE DEF G
<1>5. \A i \in 0..n : i \in G
  BY <1>3, <1>4, Induct, Zenon
<1>6. n \in G
  BY <1>5
<1>7. QED
  BY <1>6 DEF G, Upto, Follows

-----------------------------------------------------------------------------
(* First elements.                                                         *)

LEMMA FirstIn ==
  ASSUME NEW n \in Nat, NEW S, S \subseteq 1..n, S # {}
  PROVE  Min(S) \in S /\ \A y \in S : Min(S) <= y
<1>1. S \in SUBSET Nat
  OBVIOUS
<1>2. \E x \in S : \A y \in S : x <= y
  BY <1>1, Least
<1>3. QED
  BY <1>2 DEF Min

Has(es, i, n, b) == es[i].name = n /\ es[i].is_tag = b
LEMMA ContainsIs ==
  ASSUME NEW np, np.entries \in Seq(Entry), NEW n, NEW b
  PROVE  \/ /\ np_contains(np, n, b) = None
            /\ \A i \in 1..Len(np.entries) : ~Has(np.entries, i, n, b)
         \/ \E i \in 1..Len(np.entries) :
              /\ Has(np.entries, i, n, b)
              /\ np_contains(np, n, b) = np.entries[i].entity
              /\ \A j \in 1..(i - 1) : ~Has(np.entries, j, n, b)
<1> DEFINE es == np.entries
           I == {i \in 1..Len(es) : es[i].name = n /\ es[i].is_tag = b}
<1>1. np_contains(np, n, b) = LET i == IF I # {} THEN Min(I) ELSE 0 IN IF i = 0 THEN None ELSE es[i].entity
  BY DEF np_contains, SelectInSeq
<1>2. Len(es) \in Nat /\ I \subseteq 1..Len(es)
  OBVIOUS
<1>3. CASE I = {}
  BY <1>1, <1>3 DEF Has
<1>4. CASE I # {}
  <2>1. Min(I) \in I /\ \A y \in I : Min(I) <= y
    <3> HIDE DEF I, es
    <3>1. QED
      BY <1>2, <1>4, FirstIn
  <2>2. PICK i \in 1..Len(es) : i = Min(I)
    BY <2>1
  <2>3. Has(es, i, n, b)
    BY <2>1, <2>2 DEF Has
  <2>4. np_contains(np, n, b) = es[i].entity
    <3>1. i # 0
      BY <1>2, <2>2
    <3> HIDE DEF I, es
    <3>2. (IF I # {} THEN Min(I) ELSE 0) = i
      BY <1>4, <2>2
    <3>3. QED
      BY <1>1, <3>1, <3>2
  <2>5. ASSUME NEW j \in 1..(i - 1) PROVE ~Has(es, j, n, b)
    <3>1. j \in 1..Len(es) /\ j < i
      BY <1>2
    <3>2. j \notin I
      BY <1>2, <2>1, <2>2, <3>1
    <3>3. QED
      BY <3>1, <3>2 DEF Has
  <2>6. QED
    BY <2>3, <2>4, <2>5
<1>5. QED
  BY <1>3, <1>4

Called(L, s, n) == FirstWith(s, LAMBDA c : L[c].name = n)
FoundFirst(L, s, n) ==
  \/ Called(L, s, n) = None /\ \A i \in 1..Len(s) : L[s[i]].name # n
  \/ \E i \in 1..Len(s) : /\ L[s[i]].name = n
                          /\ Called(L, s, n) = s[i]
                          /\ \A j \in 1..(i - 1) : L[s[j]].name # n
LEMMA CalledFirst ==
  ASSUME NEW L, NEW m \in Nat, NEW s \in Seq(1..m), NEW n
  PROVE  FoundFirst(L, s, n)
<1> DEFINE I == {i \in 1..Len(s) : L[s[i]].name = n}
<1>1. Called(L, s, n) = LET i == IF I # {} THEN Min(I) ELSE 0 IN IF i = 0 THEN None ELSE s[i]
  BY DEF Called, FirstWith, SelectInSeq
<1>2. Len(s) \in Nat /\ I \subseteq 1..Len(s)
  OBVIOUS
<1>3. CASE I = {}
  BY <1>1, <1>3 DEF FoundFirst
<1>4. CASE I # {}
  <2>1. Min(I) \in I /\ \A y \in I : Min(I) <= y
    <3> HIDE DEF I
    <3>1. QED
      BY <1>2, <1>4, FirstIn
  <2>2. PICK i \in 1..Len(s) : i = Min(I)
    BY <2>1
  <2>3. L[s[i]].name = n
    BY <2>1, <2>2
  <2>4. Called(L, s, n) = s[i]
    BY <1>1, <1>4, <2>2
  <2>5. \A j \in 1..(i - 1) : L[s[j]].name # n
    <3> SUFFICES ASSUME NEW j \in 1..(i - 1) PROVE L[s[j]].name # n
      OBVIOUS
    <3>1. j \in 1..Len(s) /\ ~(i <= j)
      BY <1>2
    <3>2. QED
      BY <2>1, <2>2, <3>1
  <2>6. QED
    BY <2>3, <2>4, <2>5, Zenon DEF FoundFirst
<1>5. QED
  BY <1>3, <1>4

-----------------------------------------------------------------------------
(* Entering names.                                                         *)

LEMMA ListIs ==
  ASSUME NEW L \in Lists
  PROVE  /\ L \in Seq(Np) /\ Len(L) \in Nat \ {0} /\ L[1].prefix = <<>>
         /\ \A p \in 1..Len(L) :
              /\ L[p] \in Np /\ L[p].name \in Words /\ L[p].parent \in 0..(p - 1) /\ L[p].prefix \in Seq(Atoms)
              /\ L[p].entries \in Seq(Entry) /\ Len(L[p].entries) \in Nat
              /\ L[p].nested \in Seq(1..Len(L)) /\ L[p].written \in Seq(Words)
<1>1. L \in Seq(Np) /\ L # <<>> /\ L[1].prefix = <<>>
      /\ \A p \in 1..Len(L) : L[p].parent < p /\ L[p].nested \in Seq(1..Len(L))
  BY DEF Lists
<1>2. \A p \in 1..Len(L) : L[p] \in Np
  BY <1>1
<1>3. ASSUME NEW p \in 1..Len(L)
      PROVE  /\ L[p].name \in Words /\ L[p].parent \in Nat /\ L[p].prefix \in Seq(Atoms)
             /\ L[p].entries \in Seq(Entry) /\ L[p].written \in Seq(Words)
  BY <1>2 DEF Np
<1>4. Len(L) \in Nat \ {0}
  BY <1>1
<1>5. QED
  BY <1>1, <1>2, <1>3, <1>4

LEMMA LongerSame ==
  ASSUME NEW x, NEW es, Len(es) \in Nat, NEW n, NEW e, NEW b
  PROVE  Longer(x, es, es, n, e, b)
<1>1. \A i \in 1..Len(es) : ~(i > Len(es))
  OBVIOUS
<1>2. QED
  BY <1>1 DEF Longer

LEMMA LongerTwice ==
  ASSUME NEW x, NEW ls, NEW ms, NEW ns, Len(ls) \in Nat, Len(ms) \in Nat, Len(ns) \in Nat,
         NEW n, NEW e, NEW b, Longer(x, ls, ms, n, e, b), Longer(x, ms, ns, n, e, b)
  PROVE  Longer(x, ls, ns, n, e, b)
<1>1. /\ Len(ls) <= Len(ms) /\ \A i \in 1..Len(ls) : ms[i] = ls[i]
      /\ \A i \in 1..Len(ms) : i > Len(ls) => ms[i].is_tag = b /\ ms[i].entity = e /\ x \o ms[i].name = n
  BY DEF Longer
<1>2. /\ Len(ms) <= Len(ns) /\ \A i \in 1..Len(ms) : ns[i] = ms[i]
      /\ \A i \in 1..Len(ns) : i > Len(ms) => ns[i].is_tag = b /\ ns[i].entity = e /\ x \o ns[i].name = n
  BY DEF Longer
<1>3. /\ Len(ls) <= Len(ns) /\ \A i \in 1..Len(ls) : ns[i] = ls[i]
  BY <1>1, <1>2
<1>4. ASSUME NEW i \in 1..Len(ns), i > Len(ls)
      PROVE  ns[i].is_tag = b /\ ns[i].entity = e /\ x \o ns[i].name = n
  <2>1. CASE i <= Len(ms)
    <3>1. i \in 1..Len(ms) /\ ns[i] = ms[i]
      BY <1>2, <2>1
    <3>2. QED
      BY <1>1, <1>4, <3>1
  <2>2. CASE i > Len(ms)
    BY <1>2, <2>2
  <2>3. QED
    BY <2>1, <2>2
<1>5. QED
  BY <1>3, <1>4 DEF Longer

LEMMA PushIs ==
  ASSUME NEW L \in Lists, NEW p \in 1..Len(L), NEW k \in Seq(Atoms), NEW e \in Int \ {0}, NEW b \in BOOLEAN
  PROVE  /\ Push(L, p, k, e, b) \in Lists
         /\ Grown(L, Push(L, p, k, e, b), L[p].prefix \o k, e, b)
         /\ \E i \in 1..Len(Push(L, p, k, e, b)[p].entries) : Has(Push(L, p, k, e, b)[p].entries, i, k, b)
<1> DEFINE M == Push(L, p, k, e, b)
           new == [name |-> k, is_tag |-> b, entity |-> e]
<1>1. L \in Seq(Np) /\ Len(L) \in Nat /\ p \in DOMAIN L
  BY DEF Lists
<1>2. new \in Entry
  BY DEF Entry
<1>3. L[p] \in Np
  BY <1>1
<1>4. PICK es \in Seq(Entry) : es = L[p].entries
  BY <1>3 DEF Np
<1>5. Append(es, new) \in Seq(Entry) /\ Len(Append(es, new)) = Len(es) + 1
      /\ (\A i \in 1..Len(es) : Append(es, new)[i] = es[i]) /\ Append(es, new)[Len(es) + 1] = new
  BY <1>2
<1>6. M = [L EXCEPT ![p].entries = Append(es, new)]
  BY <1>4 DEF Push
<1> HIDE DEF M, new
<1>7. PICK fs \in Seq(Entry) : fs = Append(es, new)
  BY <1>5
<1>8. M = [L EXCEPT ![p].entries = fs]
  BY <1>6, <1>7
<1>9. [L[p] EXCEPT !.entries = fs] \in Np
  BY <1>3 DEF Np
<1>10. M \in Seq(Np) /\ Len(M) = Len(L) /\ M[p] = [L[p] EXCEPT !.entries = fs]
       /\ \A q \in 1..Len(L) : q # p => M[q] = L[q]
  BY <1>1, <1>8, <1>9
<1>11. /\ M[p].entries = fs /\ M[p].name = L[p].name /\ M[p].parent = L[p].parent
       /\ M[p].prefix = L[p].prefix /\ M[p].nested = L[p].nested /\ M[p].written = L[p].written
  BY <1>3, <1>10 DEF Np
<1>12. Alike(L, M)
  BY <1>10, <1>11 DEF Alike
<1>13. M \in Lists
  <2>1. /\ L # <<>> /\ Len(L) \in Nat \ {0} /\ L[1].prefix = <<>>
        /\ \A q \in 1..Len(L) : L[q].parent < q /\ L[q].nested \in Seq(1..Len(L))
    BY <1>1 DEF Lists
  <2>2. M # <<>> /\ M[1].prefix = <<>>
    <3>1. Len(M) # 0 /\ M \in Seq(Np)
      BY <1>10, <2>1
    <3>2. 1 \in 1..Len(L)
      BY <2>1
    <3>3. M[1].prefix = L[1].prefix
      BY <1>12, <3>2 DEF Alike
    <3>4. QED
      BY <2>1, <3>1, <3>3
  <2>3. \A q \in 1..Len(M) : M[q].parent < q /\ M[q].nested \in Seq(1..Len(M))
    BY <1>12, <2>1 DEF Alike
  <2>4. QED
    BY <1>10, <2>2, <2>3 DEF Lists
<1>14. /\ Len(fs) = Len(es) + 1 /\ Len(es) \in Nat /\ fs[Len(es) + 1] = new
       /\ \A i \in 1..Len(es) : fs[i] = es[i]
  BY <1>5, <1>7
<1>15. new.name = k /\ new.is_tag = b /\ new.entity = e
  BY DEF new
<1>16. ASSUME NEW q \in 1..Len(L)
       PROVE  Longer(L[q].prefix, L[q].entries, M[q].entries, L[p].prefix \o k, e, b)
  <2>1. CASE q = p
    <3>1. ASSUME NEW i \in 1..Len(fs), i > Len(es) PROVE fs[i] = new
      BY <1>14, <3>1
    <3>2. M[q].entries = fs /\ L[q].entries = es
      BY <1>4, <1>11, <2>1
    <3>3. \A i \in 1..Len(fs) : i > Len(es) =>
            fs[i].is_tag = b /\ fs[i].entity = e /\ L[q].prefix \o fs[i].name = L[p].prefix \o k
      BY <1>15, <2>1, <3>1
    <3>4. Len(es) <= Len(fs)
      BY <1>14
    <3>5. QED
      BY <1>14, <3>2, <3>3, <3>4 DEF Longer
  <2>2. CASE q # p
    <3>1. M[q] = L[q]
      BY <1>10, <2>2
    <3>2. Len(L[q].entries) \in Nat
      BY ListIs
    <3>3. QED
      BY <3>1, <3>2, LongerSame
  <2>3. QED
    BY <2>1, <2>2
<1>17. Grown(L, M, L[p].prefix \o k, e, b)
  BY <1>12, <1>16 DEF Grown
<1>18. Len(es) + 1 \in 1..Len(M[p].entries) /\ Has(M[p].entries, Len(es) + 1, k, b)
  BY <1>11, <1>14, <1>15 DEF Has
<1>19. QED
  BY <1>13, <1>17, <1>18 DEF M

LEMMA GrownSame ==
  ASSUME NEW L \in Lists, NEW n, NEW e, NEW b
  PROVE  Grown(L, L, n, e, b)
<1>1. \A p \in 1..Len(L) : Longer(L[p].prefix, L[p].entries, L[p].entries, n, e, b)
  BY ListIs, LongerSame
<1>2. QED
  BY <1>1 DEF Grown, Alike

LEMMA GrownTwice ==
  ASSUME NEW L \in Lists, NEW M \in Lists, NEW N \in Lists, NEW n, NEW e, NEW b,
         Grown(L, M, n, e, b), Grown(M, N, n, e, b)
  PROVE  Grown(L, N, n, e, b)
<1>1. Len(M) = Len(L) /\ Len(N) = Len(L) /\ Alike(L, N)
  BY DEF Grown, Alike
<1>2. ASSUME NEW p \in 1..Len(L) PROVE Longer(L[p].prefix, L[p].entries, N[p].entries, n, e, b)
  <2>1. Len(L[p].entries) \in Nat /\ Len(M[p].entries) \in Nat /\ Len(N[p].entries) \in Nat
    BY <1>1, ListIs
  <2>2. M[p].prefix = L[p].prefix
    BY DEF Grown, Alike
  <2>3. Longer(L[p].prefix, L[p].entries, M[p].entries, n, e, b)
    BY DEF Grown
  <2>4. Longer(L[p].prefix, M[p].entries, N[p].entries, n, e, b)
    BY <1>1, <2>2 DEF Grown
  <2>5. QED
    BY <2>1, <2>3, <2>4, LongerTwice
<1>3. QED
  BY <1>1, <1>2 DEF Grown

Scopes(m) == {s \in [is_capture : BOOLEAN, nps : Seq(1..m)] : s.is_capture \/ s.nps # <<>>}

LEMMA Joined ==
  ASSUME NEW id \in Seq(Atoms), NEW p \in Seq(Atoms), StartsWith(id, p)
  PROVE  Unprefixed(id, p) \in Seq(Atoms) /\ p \o Unprefixed(id, p) = id
<1>1. Len(id) \in Nat /\ Len(p) \in Nat /\ Len(id) > Len(p) /\ SubSeq(id, 1, Len(p)) = p
  BY DEF StartsWith
<1> DEFINE k == Unprefixed(id, p)
<1>2. k = SubSeq(id, Len(p) + 1, Len(id)) /\ \A i \in (Len(p) + 1)..Len(id) : id[i] \in Atoms
  BY <1>1 DEF Unprefixed
<1>3. /\ k \in Seq(Atoms) /\ Len(k) = Len(id) - Len(p)
      /\ \A i \in 1..(Len(id) - Len(p)) : k[i] = id[Len(p) + i]
  <2>1. /\ SubSeq(id, Len(p) + 1, Len(id)) \in Seq(Atoms)
        /\ Len(SubSeq(id, Len(p) + 1, Len(id))) = Len(id) - (Len(p) + 1) + 1
        /\ \A i \in 1..(Len(id) - (Len(p) + 1) + 1) : SubSeq(id, Len(p) + 1, Len(id))[i] = id[Len(p) + 1 + i - 1]
    BY <1>1, <1>2, SubSeqProperties
  <2>2. Len(id) - (Len(p) + 1) + 1 = Len(id) - Len(p) /\ \A i \in Int : Len(p) + 1 + i - 1 = Len(p) + i
    BY <1>1
  <2> HIDE DEF k
  <2>3. QED
    BY <1>2, <2>1, <2>2
<1>4. \A i \in 1..Len(p) : p[i] = id[i]
  <2>1. \A i \in 1..Len(p) : id[i] \in Atoms
    BY <1>1
  <2>2. \A i \in 1..(Len(p) - 1 + 1) : SubSeq(id, 1, Len(p))[i] = id[1 + i - 1]
    BY <1>1, <2>1, SubSeqProperties
  <2>3. QED
    BY <1>1, <2>2
<1> HIDE DEF k
<1> DEFINE w == p \o k
<1>5. /\ w \in Seq(Atoms) /\ Len(w) = Len(id)
      /\ \A i \in 1..Len(id) : w[i] = IF i <= Len(p) THEN p[i] ELSE k[i - Len(p)]
  <2>1. /\ w \in Seq(Atoms) /\ Len(w) = Len(p) + Len(k)
        /\ \A i \in 1..(Len(p) + Len(k)) : w[i] = IF i <= Len(p) THEN p[i] ELSE k[i - Len(p)]
    BY <1>3, ConcatProperties
  <2>2. Len(p) + Len(k) = Len(id)
    BY <1>1, <1>3
  <2> HIDE DEF w
  <2>3. QED
    BY <2>1, <2>2
<1> HIDE DEF w
<1>6. ASSUME NEW i \in 1..Len(id) PROVE w[i] = id[i]
  <2>1. CASE i <= Len(p)
    <3>1. i \in 1..Len(p) /\ w[i] = p[i]
      BY <1>1, <1>5, <2>1
    <3>2. QED
      BY <1>4, <3>1
  <2>2. CASE ~(i <= Len(p))
    <3>1. w[i] = k[i - Len(p)]
      BY <1>5, <2>2
    <3>2. i - Len(p) \in 1..(Len(id) - Len(p)) /\ Len(p) + (i - Len(p)) = i
      BY <1>1, <2>2
    <3>3. k[i - Len(p)] = id[Len(p) + (i - Len(p))]
      BY <1>3, <3>2
    <3>4. QED
      BY <3>1, <3>2, <3>3
  <2>3. QED
    BY <2>1, <2>2
<1>7. w = id
  BY <1>5, <1>6, SeqEqual
<1>8. QED
  BY <1>3, <1>7 DEF k, w

LEMMA CapturesGrow ==
  ASSUME NEW L \in Lists, NEW cap \in Scopes(Len(L)), NEW id \in Seq(Atoms), NEW e \in Int \ {0}, NEW b \in BOOLEAN
  PROVE  Captures(L, cap, id, e, b) \in Lists /\ Grown(L, Captures(L, cap, id, e, b), id, e, b)
<1> DEFINE Takes(np) == /\ StartsWith(id, L[np].prefix)
                        /\ np_contains(L[np], Unprefixed(id, L[np].prefix), b) = None
           I == {i \in 1..Len(cap.nps) : Takes(cap.nps[i])}
           at == IF I # {} THEN Min(I) ELSE 0
           np == IF at = 0 THEN None ELSE cap.nps[at]
<1>1. cap.nps \in Seq(1..Len(L)) /\ Len(cap.nps) \in Nat
  BY DEF Scopes
<1>2. Captures(L, cap, id, e, b) = IF ~cap.is_capture \/ np = None THEN L
                                   ELSE Push(L, np, Unprefixed(id, L[np].prefix), e, b)
  BY DEF Captures, FirstWith, SelectInSeq
<1>3. CASE ~cap.is_capture \/ np = None
  BY <1>2, <1>3, GrownSame
<1>4. CASE ~(~cap.is_capture \/ np = None)
  <2>1. I # {}
    BY <1>4 DEF None
  <2>2. Min(I) \in I
    <3>1. I \subseteq 1..Len(cap.nps)
      OBVIOUS
    <3> HIDE DEF I
    <3>2. QED
      BY <1>1, <2>1, <3>1, FirstIn
  <2>3. PICK q \in 1..Len(L) : q = np /\ StartsWith(id, L[q].prefix)
    <3>0. PICK i : i = Min(I)
      OBVIOUS
    <3>1. i \in I
      BY <2>2, <3>0
    <3>a. i \in 1..Len(cap.nps) /\ Takes(cap.nps[i])
      BY <3>1
    <3>2. cap.nps[i] \in 1..Len(L) /\ StartsWith(id, L[cap.nps[i]].prefix)
      BY <1>1, <3>a
    <3>3. i # 0 /\ at = i
      <4> HIDE DEF I
      <4>1. QED
        BY <1>1, <2>1, <3>0, <3>a
    <3> HIDE DEF at
    <3>4. np = cap.nps[i]
      BY <3>3
    <3>5. QED
      BY <3>2, <3>4
  <2>4. L[q].prefix \in Seq(Atoms)
    BY ListIs
  <2>5. PICK k \in Seq(Atoms) : k = Unprefixed(id, L[q].prefix) /\ L[q].prefix \o k = id
    BY <2>3, <2>4, Joined
  <2>6. Captures(L, cap, id, e, b) = Push(L, q, k, e, b)
    BY <1>2, <1>4, <2>3, <2>5
  <2>7. Push(L, q, k, e, b) \in Lists /\ Grown(L, Push(L, q, k, e, b), id, e, b)
    BY <2>5, PushIs
  <2>8. QED
    BY <2>6, <2>7
<1>5. QED
  BY <1>3, <1>4

\* All scopes that capture, from the innermost out.
LEMMA AllCapturesGrow ==
  ASSUME nps \in Lists, npScopes \in Seq(Scopes(Len(nps))), NEW id \in Seq(Atoms), NEW e \in Int \ {0}, NEW b \in BOOLEAN
  PROVE  /\ consider_ident_for_all_capture_prefix_scopes(nps, id, e, b) \in Lists
         /\ Grown(nps, consider_ident_for_all_capture_prefix_scopes(nps, id, e, b), id, e, b)
<1> DEFINE n == Len(npScopes)
           Cap(i) == npScopes[n - i + 1]
           From(f) == [i \in 0..n |-> IF i = 0 THEN nps ELSE Captures(f[i - 1], Cap(i), id, e, b)]
           F == CHOOSE f : f = From(f)
           S == {M \in Lists : Grown(nps, M, id, e, b)}
<1>1. consider_ident_for_all_capture_prefix_scopes(nps, id, e, b) = F[n]
  BY DEF consider_ident_for_all_capture_prefix_scopes
<1>2. n \in Nat /\ \A i \in 1..n : Cap(i) \in Scopes(Len(nps))
  <2>1. n \in Nat
    OBVIOUS
  <2>2. \A i \in 1..n : n - i + 1 \in 1..n
    OBVIOUS
  <2>3. QED
    BY <2>1, <2>2
<1> HIDE DEF n, Cap
<1>3. nps \in S
  BY GrownSame
<1>4. ASSUME NEW i \in 1..n, NEW M \in S PROVE Captures(M, Cap(i), id, e, b) \in S
  <2>1. M \in Lists /\ Len(M) = Len(nps) /\ Grown(nps, M, id, e, b)
    BY DEF Grown, Alike
  <2>2. Cap(i) \in Scopes(Len(M))
    BY <1>2, <2>1
  <2>3. PICK c : c = Cap(i)
    OBVIOUS
  <2>4. PICK N : N = Captures(M, c, id, e, b)
    OBVIOUS
  <2>5. N \in Lists /\ Grown(M, N, id, e, b)
    BY <2>1, <2>2, <2>3, <2>4, CapturesGrow
  <2>6. Grown(nps, N, id, e, b)
    BY <2>1, <2>5, GrownTwice
  <2>7. QED
    BY <2>3, <2>4, <2>5, <2>6
<1> HIDE DEF S
<1>5. F = From(F)
  <2> DEFINE h == [i \in 1..n |-> [s \in S |-> Captures(s, Cap(i), id, e, b)]]
  <2>1. h \in [1..n -> [S -> S]]
    BY <1>4
  <2>2. \A i \in 1..n, s \in S : h[i][s] = Captures(s, Cap(i), id, e, b)
    OBVIOUS
  <2> HIDE DEF h
  <2>3. PICK f \in [0..n -> S] : Follows(f, n, nps, h)
    BY <1>2, <1>3, <2>1, Recursion
  <2>4. \A i \in 0..n : f[i] = From(f)[i]
    <3>1. ASSUME NEW i \in 1..n PROVE f[i] = From(f)[i]
      <4>1. f[i - 1] \in S
        BY <1>2
      <4>2. f[i] = Captures(f[i - 1], Cap(i), id, e, b)
        BY <2>2, <2>3, <4>1 DEF Follows
      <4>3. QED
        BY <4>2
    <3>2. f[0] = From(f)[0]
      BY <1>2, <2>3 DEF Follows
    <3>3. \A i \in 0..n : i = 0 \/ i \in 1..n
      BY <1>2
    <3> HIDE DEF From
    <3>4. QED
      BY <3>1, <3>2, <3>3
  <2>5. f = From(f)
    BY <2>4
  <2> HIDE DEF From
  <2>6. QED
    BY <2>5
<1> HIDE DEF F
<1>6. F[0] = nps /\ \A i \in 1..n : F[i] = Captures(F[i - 1], Cap(i), id, e, b)
  <2> DEFINE g == From(F)
  <2>1. g[0] = nps /\ \A i \in 1..n : g[i] = Captures(F[i - 1], Cap(i), id, e, b)
    BY <1>2
  <2>2. F = g
    BY <1>5
  <2> HIDE DEF g
  <2>3. QED
    BY <2>1, <2>2
<1> HIDE DEF From
<1> DEFINE G == {i \in 0..n : F[i] \in S}
<1>7. 0 \in G
  BY <1>2, <1>3, <1>6
<1>8. \A i \in 1..n : i - 1 \in G => i \in G
  <2> SUFFICES ASSUME NEW i \in 1..n, i - 1 \in G PROVE F[i] \in S
    OBVIOUS
  <2>1. F[i - 1] \in S
    OBVIOUS
  <2>2. Captures(F[i - 1], Cap(i), id, e, b) \in S
    BY <1>4, <2>1
  <2>3. QED
    BY <1>6, <2>2
<1> HIDE DEF G
<1>9. \A i \in 0..n : i \in G
  BY <1>2, <1>7, <1>8, Induct, Zenon
<1>10. F[n] \in S
  BY <1>2, <1>9 DEF G
<1>11. QED
  BY <1>1, <1>10 DEF S

-----------------------------------------------------------------------------
(* Types, and what a new name does to the lists.                           *)

AliasTables(m) == UNION {[D -> 1..m] : D \in SUBSET {a[1] : a \in AliasDecls}}
Seens == UNION {[D -> Nat \ {0}] : D \in SUBSET (Seq(Atoms) \X BOOLEAN)}
Scope(m) == [vars : Tables, tags : Tables, aliases : AliasTables(m)]
Kinds == {"var", "func", "local", "typedef", "enum", "tag", "again"}
Typed ==
  /\ nps \in Lists
  /\ outer \in Seq(1..Len(nps))
  /\ npScopes \in Seq(Scopes(Len(nps))) /\ npScopes # <<>>
  /\ scopes \in Seq(Scope(Len(nps))) /\ scopes # <<>>
  /\ seen \in Seq(Seens) /\ Len(seen) = Len(scopes)
  /\ symbols \in Tables
  /\ made \in Seq(Kinds)

LEMMA AppliedIs ==
  ASSUME Typed
  PROVE  Applied \in 0..Len(nps)
<1>1. npScopes \in Seq(Scopes(Len(nps))) /\ npScopes # <<>> /\ Len(nps) \in Nat
  BY ListIs DEF Typed
<1>2. PICK top \in Scopes(Len(nps)) : top = Last(npScopes)
  <2>1. Len(npScopes) \in 1..Len(npScopes)
    BY <1>1
  <2>2. QED
    BY <1>1, <2>1 DEF Last
<1>3. top.is_capture \/ (top.nps \in Seq(1..Len(nps)) /\ top.nps # <<>>)
  BY DEF Scopes
<1>4. CASE top.is_capture
  <2>1. Applied = None
    BY <1>2, <1>4 DEF Applied
  <2>2. QED
    BY <1>1, <2>1 DEF None
<1>5. CASE ~top.is_capture
  <2>1. Applied = top.nps[1]
    BY <1>2, <1>5 DEF Applied
  <2>2. 1 \in 1..Len(top.nps)
    BY <1>3, <1>5
  <2>3. top.nps[1] \in 1..Len(nps)
    BY <1>3, <1>5, <2>2
  <2>4. QED
    BY <1>1, <2>1, <2>3
<1>6. QED
  BY <1>4, <1>5

LEMMA PrefixedIs ==
  ASSUME Typed, NEW id \in Seq(Atoms)
  PROVE  /\ get_prefixed_ident(id) \in Seq(Atoms)
         /\ Applied \in {None, 1} => get_prefixed_ident(id) = id
<1>1. nps \in Lists
  BY DEF Typed
<1>2. PICK a \in 0..Len(nps) : a = Applied
  BY AppliedIs
<1>3. CASE a = None
  BY <1>2, <1>3 DEF get_prefixed_ident
<1>4. CASE a # None
  <2>1. a \in 1..Len(nps)
    BY <1>4 DEF None
  <2>2. PICK x \in Seq(Atoms) : x = nps[a].prefix /\ (a = 1 => x = <<>>)
    BY <1>1, <2>1, ListIs
  <2>3. get_prefixed_ident(id) = x \o id
    BY <1>2, <1>4, <2>2 DEF get_prefixed_ident
  <2>4. x \o id \in Seq(Atoms) /\ (x = <<>> => x \o id = id)
    BY ConcatProperties, ConcatEmptySeq
  <2>5. QED
    BY <1>2, <1>4, <2>2, <2>3, <2>4
<1>5. QED
  BY <1>3, <1>4

LEMMA ListedGrows ==
  ASSUME Typed, NEW id \in Seq(Atoms), NEW e \in Int \ {0}, NEW b \in BOOLEAN
  PROVE  /\ Listed(id, e, b) \in Lists
         /\ Grown(nps, Listed(id, e, b), get_prefixed_ident(id), e, b)
         /\ \E i \in 1..Len(Listed(id, e, b)[1].entries) : Has(Listed(id, e, b)[1].entries, i, get_prefixed_ident(id), b)
<1>1. nps \in Lists /\ npScopes \in Seq(Scopes(Len(nps))) /\ Len(nps) \in Nat \ {0}
  BY ListIs DEF Typed
<1>2. PICK a \in 0..Len(nps) : a = Applied
  BY AppliedIs
<1>3. PICK n \in Seq(Atoms) : n = get_prefixed_ident(id) /\ (a \in {None, 1} => n = id)
  BY <1>2, PrefixedIs
<1>4. PICK L : L = IF a = None THEN consider_ident_for_all_capture_prefix_scopes(nps, id, e, b)
                   ELSE Push(nps, a, id, e, b)
  OBVIOUS
<1>5. L \in Lists /\ Grown(nps, L, n, e, b)
  <2>1. CASE a = None
    BY <1>1, <1>3, <1>4, <2>1, AllCapturesGrow
  <2>2. CASE a # None
    <3>1. a \in 1..Len(nps) /\ L = Push(nps, a, id, e, b)
      BY <1>4, <2>2 DEF None
    <3>2. n = nps[a].prefix \o id
      BY <1>2, <1>3, <2>2 DEF get_prefixed_ident
    <3>3. QED
      BY <1>1, <3>1, <3>2, PushIs
  <2>3. QED
    BY <2>1, <2>2
<1>6. Listed(id, e, b) = IF a = 1 THEN L ELSE Push(L, 1, n, e, b)
  BY <1>2, <1>3, <1>4 DEF Listed
<1>7. CASE a = 1
  <2>1. L = Push(nps, 1, id, e, b) /\ n = id /\ 1 \in 1..Len(nps)
    BY <1>1, <1>3, <1>4, <1>7 DEF None
  <2>2. \E i \in 1..Len(L[1].entries) : Has(L[1].entries, i, id, b)
    BY <1>1, <2>1, PushIs
  <2>3. QED
    BY <1>3, <1>5, <1>6, <1>7, <2>1, <2>2
<1>8. CASE a # 1
  <2>1. PICK M : M = Push(L, 1, n, e, b)
    OBVIOUS
  <2>2. L[1].prefix = <<>> /\ 1 \in 1..Len(L)
    BY <1>5, ListIs
  <2>3. L[1].prefix \o n = n
    BY <2>2, ConcatEmptySeq
  <2>4. /\ M \in Lists /\ Grown(L, M, n, e, b)
        /\ \E i \in 1..Len(M[1].entries) : Has(M[1].entries, i, n, b)
    <3>1. /\ Push(L, 1, n, e, b) \in Lists
          /\ Grown(L, Push(L, 1, n, e, b), L[1].prefix \o n, e, b)
          /\ \E i \in 1..Len(Push(L, 1, n, e, b)[1].entries) : Has(Push(L, 1, n, e, b)[1].entries, i, n, b)
      BY <1>5, <2>2, PushIs
    <3>2. QED
      BY <2>1, <2>3, <3>1
  <2>5. Grown(nps, M, n, e, b)
    BY <1>1, <1>5, <2>4, GrownTwice
  <2>6. QED
    BY <1>3, <1>6, <1>8, <2>1, <2>4, <2>5
<1>9. QED
  BY <1>7, <1>8

-----------------------------------------------------------------------------
(* Agreement of the lists with the tables.                                 *)

LEMMA TableIs ==
  ASSUME NEW t \in Tables
  PROVE  /\ DOMAIN t \subseteq Seq(Atoms)
         /\ \A k \in DOMAIN t : t[k] \in Nat \ {0}
<1>1. PICK D \in SUBSET Seq(Atoms) : t \in [D -> Nat \ {0}]
  BY DEF Tables
<1>2. QED
  BY <1>1

LEMMA PutIs ==
  ASSUME NEW t \in Tables, NEW n \in Seq(Atoms), NEW e \in Nat \ {0}
  PROVE  /\ Put(t, n, e) \in Tables
         /\ DOMAIN Put(t, n, e) = DOMAIN t \cup {n}
         /\ Put(t, n, e)[n] = e
         /\ \A k \in DOMAIN t : k # n => Put(t, n, e)[k] = t[k]
<1> DEFINE D == DOMAIN t \cup {n}
<1>1. Put(t, n, e) = [x \in D |-> IF x = n THEN e ELSE t[x]]
  BY DEF Put
<1>2. D \in SUBSET Seq(Atoms) /\ \A k \in DOMAIN t : t[k] \in Nat \ {0}
  BY TableIs
<1>3. [x \in D |-> IF x = n THEN e ELSE t[x]] \in [D -> Nat \ {0}]
  BY <1>2
<1> HIDE DEF D
<1>4. [x \in D |-> IF x = n THEN e ELSE t[x]] \in Tables
  BY <1>2, <1>3 DEF Tables
<1>5. QED
  BY <1>1, <1>4 DEF D

LEMMA FirstFound ==
  ASSUME NEW np, np.entries \in Seq(Entry), NEW n, NEW b, NEW i \in 1..Len(np.entries),
         Has(np.entries, i, n, b)
  PROVE  \E j \in 1..Len(np.entries) :
           /\ j <= i /\ Has(np.entries, j, n, b)
           /\ np_contains(np, n, b) = np.entries[j].entity
           /\ np_contains(np, n, b) # None
           /\ \A k \in 1..(j - 1) : ~Has(np.entries, k, n, b)
<1>1. PICK j \in 1..Len(np.entries) :
        /\ Has(np.entries, j, n, b)
        /\ np_contains(np, n, b) = np.entries[j].entity
        /\ \A k \in 1..(j - 1) : ~Has(np.entries, k, n, b)
  BY ContainsIs
<1>2. j <= i
  <2>1. Len(np.entries) \in Nat
    OBVIOUS
  <2>2. ~(i \in 1..(j - 1))
    BY <1>1
  <2>3. QED
    BY <2>1, <2>2
<1>3. np.entries[j].entity # None
  <2>1. np.entries[j] \in Entry
    OBVIOUS
  <2>2. QED
    BY <2>1 DEF Entry, None
<1>4. QED
  BY <1>1, <1>2, <1>3

LEMMA FoundStays ==
  ASSUME NEW L \in Lists, NEW M \in Lists, NEW n, NEW e, NEW b, Grown(L, M, n, e, b),
         NEW p \in 1..Len(L), NEW i \in 1..Len(L[p].entries), NEW m, NEW c, Has(L[p].entries, i, m, c)
  PROVE  np_contains(M[p], m, c) = np_contains(L[p], m, c)
<1>1. PICK es \in Seq(Entry) : es = L[p].entries
  BY ListIs
<1>2. PICK fs \in Seq(Entry) : fs = M[p].entries
  <2>1. p \in 1..Len(M)
    BY DEF Grown, Alike
  <2>2. QED
    BY <2>1, ListIs
<1>3. Len(es) \in Nat /\ Len(fs) \in Nat /\ Len(es) <= Len(fs) /\ \A k \in 1..Len(es) : fs[k] = es[k]
  <2>1. Longer(L[p].prefix, es, fs, n, e, b)
    BY <1>1, <1>2 DEF Grown
  <2>2. QED
    BY <2>1 DEF Longer
<1>4. PICK j \in 1..Len(es) :
        /\ Has(es, j, m, c) /\ np_contains(L[p], m, c) = es[j].entity
        /\ \A k \in 1..(j - 1) : ~Has(es, k, m, c)
  BY <1>1, FirstFound
<1>5. j \in 1..Len(fs) /\ Has(fs, j, m, c)
  BY <1>3, <1>4 DEF Has
<1>6. PICK k \in 1..Len(fs) :
        /\ k <= j /\ Has(fs, k, m, c) /\ np_contains(M[p], m, c) = fs[k].entity
  BY <1>2, <1>5, FirstFound
<1>7. k \in 1..Len(es) /\ Has(es, k, m, c)
  BY <1>3, <1>6 DEF Has
<1>8. k = j
  BY <1>3, <1>4, <1>6, <1>7
<1>9. QED
  BY <1>3, <1>4, <1>6, <1>8

\* What is found in L is what is found in M.
Stays(L, M) == \A p \in 1..Len(L) : \A m, c :
                 (\E i \in 1..Len(L[p].entries) : Has(L[p].entries, i, m, c))
                 => np_contains(M[p], m, c) = np_contains(L[p], m, c)
LEMMA GrownStays ==
  ASSUME NEW L \in Lists, NEW M \in Lists, NEW n, NEW e, NEW b, Grown(L, M, n, e, b)
  PROVE  Stays(L, M)
<1> SUFFICES ASSUME NEW p \in 1..Len(L), NEW m, NEW c, NEW i \in 1..Len(L[p].entries), Has(L[p].entries, i, m, c)
             PROVE  np_contains(M[p], m, c) = np_contains(L[p], m, c)
  BY DEF Stays
<1>1. QED
  BY FoundStays

LEMMA AgreeGrown ==
  ASSUME NEW L \in Lists, NEW M \in Lists, NEW n, NEW e, NEW b, Grown(L, M, n, e, b),
         NEW t, NEW u, NEW c, Agree(L, t, c),
         \A k \in DOMAIN t : k \in DOMAIN u /\ u[k] = t[k],
         c = b => n \in DOMAIN u /\ e \in {Dangling, u[n]}
  PROVE  Agree(M, u, c)
<1> SUFFICES ASSUME NEW p \in 1..Len(M), NEW i \in 1..Len(M[p].entries), M[p].entries[i].is_tag = c
             PROVE  /\ M[p].prefix \o M[p].entries[i].name \in DOMAIN u
                    /\ M[p].entries[i].entity \in {Dangling, u[M[p].prefix \o M[p].entries[i].name]}
  BY DEF Agree
<1>1. p \in 1..Len(L) /\ M[p].prefix = L[p].prefix
  BY DEF Grown, Alike
<1>2. PICK x : x = L[p].prefix
  OBVIOUS
<1>3. PICK es \in Seq(Entry) : es = L[p].entries
  BY <1>1, ListIs
<1>4. PICK fs \in Seq(Entry) : fs = M[p].entries
  BY ListIs
<1>5. Longer(x, es, fs, n, e, b)
  BY <1>1, <1>2, <1>3, <1>4 DEF Grown
<1>6. Len(es) \in Nat /\ i \in 1..Len(fs)
  BY <1>4
<1>7. CASE i <= Len(es)
  <2>1. i \in 1..Len(es) /\ fs[i] = es[i]
    BY <1>5, <1>6, <1>7 DEF Longer
  <2>2. x \o es[i].name \in DOMAIN t /\ es[i].entity \in {Dangling, t[x \o es[i].name]}
    BY <1>1, <1>2, <1>3, <1>4, <2>1 DEF Agree
  <2>3. PICK k : k = x \o es[i].name
    OBVIOUS
  <2>4. k \in DOMAIN u /\ es[i].entity \in {Dangling, u[k]}
    BY <2>2, <2>3
  <2>5. QED
    BY <1>1, <1>2, <1>4, <2>1, <2>3, <2>4
<1>8. CASE i > Len(es)
  <2>1. fs[i].is_tag = b /\ fs[i].entity = e /\ x \o fs[i].name = n
    BY <1>5, <1>6, <1>8 DEF Longer
  <2>2. QED
    BY <1>1, <1>2, <1>4, <2>1
<1>9. QED
  BY <1>6, <1>7, <1>8

LEMMA AllSetGrown ==
  ASSUME NEW L \in Lists, NEW M \in Lists, NEW n, NEW e, NEW b, Grown(L, M, n, e, b),
         AllSet(L), e # Dangling
  PROVE  AllSet(M)
<1> SUFFICES ASSUME NEW p \in 1..Len(M), NEW i \in 1..Len(M[p].entries)
             PROVE  np_contains(M[p], M[p].entries[i].name, M[p].entries[i].is_tag) # Dangling
  BY DEF AllSet
<1>1. p \in 1..Len(L)
  BY DEF Grown, Alike
<1>2. PICK es \in Seq(Entry) : es = L[p].entries
  BY <1>1, ListIs
<1>3. PICK fs \in Seq(Entry) : fs = M[p].entries
  BY ListIs
<1>4. PICK m : m = M[p].entries[i].name
  OBVIOUS
<1>5. PICK c : c = M[p].entries[i].is_tag
  OBVIOUS
<1>6. Len(es) \in Nat /\ Len(fs) \in Nat /\ i \in 1..Len(fs) /\ Has(fs, i, m, c)
  BY <1>3, <1>4, <1>5 DEF Has
<1>7. PICK j \in 1..Len(fs) : Has(fs, j, m, c) /\ np_contains(M[p], m, c) = fs[j].entity
  BY <1>3, <1>6, FirstFound
<1>8. PICK x : Longer(x, es, fs, n, e, b)
  BY <1>1, <1>2, <1>3 DEF Grown
<1>9. CASE j <= Len(es)
  <2>1. j \in 1..Len(es) /\ Has(es, j, m, c)
    BY <1>6, <1>7, <1>8, <1>9 DEF Longer, Has
  <2>2. np_contains(M[p], m, c) = np_contains(L[p], m, c)
    BY <1>1, <1>2, <2>1, FoundStays
  <2>3. np_contains(L[p], es[j].name, es[j].is_tag) # Dangling
    BY <1>1, <1>2, <2>1 DEF AllSet
  <2>4. QED
    BY <1>4, <1>5, <2>1, <2>2, <2>3 DEF Has
<1>10. CASE j > Len(es)
  <2>1. fs[j].entity = e
    BY <1>6, <1>8, <1>10 DEF Longer
  <2>2. QED
    BY <1>4, <1>5, <1>7, <2>1
<1>11. QED
  BY <1>6, <1>9, <1>10

LEMMA AllInGrown ==
  ASSUME NEW L \in Lists, NEW M \in Lists, NEW n \in Seq(Atoms), NEW e, NEW b, Grown(L, M, n, e, b),
         NEW t \in Tables, NEW u, NEW c, AllIn(L, t, c), Agree(L, t, c),
         \A k \in DOMAIN t : k \in DOMAIN u /\ u[k] = t[k],
         \A k \in DOMAIN u : k \in DOMAIN t \/ (c = b /\ k = n),
         c = b /\ n \notin DOMAIN t => e = u[n],
         \E i \in 1..Len(M[1].entries) : Has(M[1].entries, i, n, b)
  PROVE  AllIn(M, u, c)
<1> SUFFICES ASSUME NEW k \in DOMAIN u PROVE np_contains(M[1], k, c) = u[k]
  BY DEF AllIn
<1>1. 1 \in 1..Len(L) /\ 1 \in 1..Len(M) /\ L[1].prefix = <<>>
  BY ListIs
<1>2. PICK es \in Seq(Entry) : es = L[1].entries
  BY <1>1, ListIs
<1>3. PICK fs \in Seq(Entry) : fs = M[1].entries
  BY <1>1, ListIs
<1>4. Len(es) \in Nat /\ Len(fs) \in Nat /\ Longer(<<>>, es, fs, n, e, b)
  BY <1>1, <1>2, <1>3 DEF Grown
<1>5. CASE k \in DOMAIN t
  <2>1. np_contains(L[1], k, c) = t[k] /\ t[k] # None
    <3>1. t[k] \in Nat \ {0}
      BY <1>5, TableIs
    <3>2. QED
      BY <1>5, <3>1 DEF AllIn, None
  <2>2. PICK i \in 1..Len(es) : Has(es, i, k, c)
    BY <1>1, <1>2, <2>1, ContainsIs
  <2>3. np_contains(M[1], k, c) = np_contains(L[1], k, c)
    <3>1. Stays(L, M)
      BY GrownStays
    <3>2. PICK q \in 1..Len(L) : q = 1
      BY <1>1
    <3>3. i \in 1..Len(L[q].entries) /\ Has(L[q].entries, i, k, c)
      BY <1>2, <2>2, <3>2
    <3>4. np_contains(M[q], k, c) = np_contains(L[q], k, c)
      BY <3>1, <3>3, Zenon DEF Stays
    <3>5. QED
      BY <3>2, <3>4
  <2>4. QED
    BY <1>5, <2>1, <2>3
<1>6. CASE k \notin DOMAIN t
  <2>1. c = b /\ k = n /\ e = u[n]
    BY <1>6
  <2>2. PICK i \in 1..Len(fs) : Has(fs, i, n, b)
    BY <1>3
  <2>3. PICK j \in 1..Len(fs) : Has(fs, j, n, b) /\ np_contains(M[1], n, b) = fs[j].entity
    BY <1>3, <2>2, FirstFound
  <2>4. CASE j <= Len(es)
    <3>1. j \in 1..Len(es) /\ es[j].name = n /\ es[j].is_tag = b
      BY <1>4, <2>3, <2>4 DEF Longer, Has
    <3>2. <<>> \o n \in DOMAIN t
      BY <1>1, <1>2, <2>1, <3>1 DEF Agree
    <3>3. QED
      BY <1>6, <2>1, <3>2, ConcatEmptySeq
  <2>5. CASE j > Len(es)
    <3>1. fs[j].entity = e
      BY <1>4, <2>5 DEF Longer
    <3>2. QED
      BY <2>1, <2>3, <3>1
  <2>6. QED
    BY <1>4, <2>4, <2>5
<1>7. QED
  BY <1>5, <1>6

-----------------------------------------------------------------------------
(* The invariant.                                                          *)

FaultsLeftOut == {"unset-entry", "block-prefix", "tag-unprefixed", "missing-parent", "global-child"} \subseteq KnownFaults

Of(scope, b) == IF b THEN scope.tags ELSE scope.vars
Declared == \A b \in BOOLEAN : Agree(nps, Table(1, b), b) /\ AllIn(nps, Table(1, b), b)

\* A block holds what it has declared, under the name as written.
Holds(s, scope) ==
  \A id \in Seq(Atoms), b \in BOOLEAN :
    /\ <<id, b>> \in DOMAIN s <=> id \in DOMAIN Of(scope, b)
    /\ <<id, b>> \in DOMAIN s => s[<<id, b>>] = Of(scope, b)[id]
BlocksHold == \A d \in 2..Len(scopes) : Holds(seen[d], scopes[d])

NamesInv == Declared /\ AllSet(nps) /\ BlocksHold

LEMMA ScopesAre ==
  ASSUME Typed
  PROVE  /\ Len(scopes) \in Nat \ {0} /\ Len(seen) = Len(scopes) /\ Len(nps) \in Nat \ {0}
         /\ \A d \in 1..Len(scopes) :
              /\ scopes[d] \in Scope(Len(nps)) /\ seen[d] \in Seens
              /\ \A b \in BOOLEAN : Table(d, b) = Of(scopes[d], b) /\ Table(d, b) \in Tables
         /\ Last(scopes) = scopes[Len(scopes)]
<1>1. scopes \in Seq(Scope(Len(nps))) /\ scopes # <<>> /\ seen \in Seq(Seens) /\ Len(seen) = Len(scopes) /\ nps \in Lists
  BY DEF Typed
<1>2. Len(nps) \in Nat \ {0} /\ Len(scopes) \in Nat \ {0}
  BY <1>1, ListIs
<1>3. \A d \in 1..Len(scopes) : scopes[d] \in Scope(Len(nps)) /\ seen[d] \in Seens
  BY <1>1
<1>4. ASSUME NEW d \in 1..Len(scopes), NEW b \in BOOLEAN
      PROVE  Table(d, b) = Of(scopes[d], b) /\ Table(d, b) \in Tables
  <2>1. scopes[d].tags \in Tables /\ scopes[d].vars \in Tables
    BY <1>3 DEF Scope
  <2>2. QED
    BY <2>1 DEF Table, Of
<1>5. QED
  BY <1>1, <1>2, <1>3, <1>4 DEF Last

\* The scope that gets a name, and every other one.
LEMMA BoundScopes ==
  ASSUME Typed, NEW id \in Seq(Atoms), NEW n \in Seq(Atoms), NEW e \in Nat \ {0}, NEW b \in BOOLEAN,
         Bound(id, n, e, b)
  PROVE  /\ scopes' \in Seq(Scope(Len(nps))) /\ Len(scopes') = Len(scopes)
         /\ \A d \in 1..(Len(scopes) - 1) : scopes'[d] = scopes[d]
         /\ scopes'[Len(scopes)].aliases = scopes[Len(scopes)].aliases
         /\ \A c \in BOOLEAN : Of(scopes'[Len(scopes)], c) = IF c = b THEN Put(Of(scopes[Len(scopes)], c), n, e)
                                                             ELSE Of(scopes[Len(scopes)], c)
<1> DEFINE D == Len(scopes)
           s == scopes[D]
<1>1. D \in Nat \ {0} /\ scopes \in Seq(Scope(Len(nps))) /\ s \in Scope(Len(nps)) /\ DOMAIN scopes = 1..D
  BY ScopesAre DEF Typed
<1>2. s.tags \in Tables /\ s.vars \in Tables /\ s.aliases \in AliasTables(Len(nps))
  BY <1>1 DEF Scope
<1>3. PICK new : new = IF b THEN [s EXCEPT !.tags = Put(s.tags, n, e)] ELSE [s EXCEPT !.vars = Put(s.vars, n, e)]
  OBVIOUS
<1>4. scopes' = [scopes EXCEPT ![D] = new]
  BY <1>3 DEF Bound
<1>5. Put(s.tags, n, e) \in Tables /\ Put(s.vars, n, e) \in Tables
  BY <1>2, PutIs
<1>6. /\ new \in Scope(Len(nps)) /\ new.aliases = s.aliases
      /\ \A c \in BOOLEAN : Of(new, c) = IF c = b THEN Put(Of(s, c), n, e) ELSE Of(s, c)
  <2>1. PICK x : x = Put(s.tags, n, e)
    OBVIOUS
  <2>2. PICK y : y = Put(s.vars, n, e)
    OBVIOUS
  <2>3. x \in Tables /\ y \in Tables
    BY <1>5, <2>1, <2>2
  <2>4. CASE b
    <3>1. new = [s EXCEPT !.tags = x]
      BY <1>3, <2>1, <2>4
    <3>2. new \in Scope(Len(nps)) /\ new.aliases = s.aliases /\ new.tags = x /\ new.vars = s.vars
      BY <1>1, <2>3, <3>1 DEF Scope
    <3>3. QED
      BY <2>1, <2>4, <3>2 DEF Of
  <2>5. CASE ~b
    <3>1. new = [s EXCEPT !.vars = y]
      BY <1>3, <2>2, <2>5
    <3>2. new \in Scope(Len(nps)) /\ new.aliases = s.aliases /\ new.vars = y /\ new.tags = s.tags
      BY <1>1, <2>3, <3>1 DEF Scope
    <3>3. QED
      BY <2>2, <2>5, <3>2 DEF Of
  <2>6. QED
    BY <2>4, <2>5
<1>7. /\ scopes' \in Seq(Scope(Len(nps))) /\ Len(scopes') = D /\ scopes'[D] = new
      /\ \A d \in 1..(D - 1) : scopes'[d] = scopes[d]
  <2>0. PICK m \in Nat \ {0} : m = D /\ m = Len(scopes)
    BY <1>1
  <2>a. m \in 1..m /\ \A d \in 1..(m - 1) : d \in 1..m /\ d # m
    OBVIOUS
  <2>b. new \in Scope(Len(nps))
    BY <1>6
  <2>1. D \in 1..Len(scopes) /\ new \in Scope(Len(nps)) /\ \A d \in 1..(D - 1) : d \in 1..Len(scopes) /\ d # D
    <3> HIDE DEF D
    <3>1. QED
      BY <2>0, <2>a, <2>b
  <2>2. PICK All : All = Scope(Len(nps))
    OBVIOUS
  <2>3. PICK z \in Seq(All) : z = scopes
    BY <1>1, <2>2
  <2>4. PICK w : w = [z EXCEPT ![D] = new]
    OBVIOUS
  <2> HIDE DEF D, s
  <2>5. w \in Seq(All) /\ Len(w) = Len(z) /\ \A j \in 1..Len(z) : w[j] = IF j = D THEN new ELSE z[j]
    BY <2>1, <2>2, <2>3, <2>4, ExceptSeq
  <2>6. scopes' = w
    BY <1>4, <2>3, <2>4
  <2>7. Len(scopes) = D
    BY DEF D
  <2>8. QED
    BY <2>1, <2>2, <2>3, <2>5, <2>6, <2>7
<1>8. QED
  BY <1>6, <1>7

LEMMA BoundSeen ==
  ASSUME Typed, NEW id \in Seq(Atoms), NEW n \in Seq(Atoms), NEW e \in Nat \ {0}, NEW b \in BOOLEAN,
         Bound(id, n, e, b)
  PROVE  /\ seen' \in Seq(Seens) /\ Len(seen') = Len(scopes)
         /\ \A d \in 1..(Len(scopes) - 1) : seen'[d] = seen[d]
         /\ Len(scopes) # 1 => seen'[Len(scopes)] = Put(seen[Len(scopes)], <<id, b>>, e)
<1> DEFINE D == Len(scopes)
           s == seen[D]
<1>1. D \in Nat \ {0} /\ seen \in Seq(Seens) /\ Len(seen) = D /\ s \in Seens
  BY ScopesAre DEF Typed
<1>2. PICK new : new = IF D = 1 THEN s ELSE Put(s, <<id, b>>, e)
  OBVIOUS
<1>3. seen' = [seen EXCEPT ![D] = new]
  BY <1>2 DEF Bound
<1>4. Put(s, <<id, b>>, e) \in Seens
  <2>1. PICK E \in SUBSET (Seq(Atoms) \X BOOLEAN) : s \in [E -> Nat \ {0}]
    BY <1>1 DEF Seens
  <2>2. PICK k \in Seq(Atoms) \X BOOLEAN : k = <<id, b>>
    OBVIOUS
  <2> DEFINE F == E \cup {k}
             f == [x \in F |-> IF x = k THEN e ELSE s[x]]
  <2>3. Put(s, <<id, b>>, e) = f
    BY <2>1, <2>2 DEF Put
  <2>4. f \in [F -> Nat \ {0}]
    BY <2>1
  <2>5. F \in SUBSET (Seq(Atoms) \X BOOLEAN)
    BY <2>1, <2>2
  <2> HIDE DEF f, F
  <2>6. QED
    BY <2>3, <2>4, <2>5 DEF Seens
<1>5. new \in Seens
  BY <1>1, <1>2, <1>4
<1>6. /\ seen' \in Seq(Seens) /\ Len(seen') = D /\ seen'[D] = new
      /\ \A d \in 1..(D - 1) : seen'[d] = seen[d]
  BY <1>1, <1>3, <1>5
<1>7. QED
  BY <1>2, <1>6

\* A block that gets a name as written still holds what it declared.
LEMMA BoundHolds ==
  ASSUME Typed, BlocksHold, NEW id \in Seq(Atoms), NEW n \in Seq(Atoms), NEW e \in Nat \ {0}, NEW b \in BOOLEAN,
         Bound(id, n, e, b), InFile \/ n = id
  PROVE  BlocksHold'
<1> SUFFICES ASSUME NEW d \in 2..Len(scopes) PROVE Holds(seen'[d], scopes'[d])
  BY BoundScopes DEF BlocksHold
<1>1. Len(scopes) \in Nat \ {0}
  BY ScopesAre
<1>2. Holds(seen[d], scopes[d])
  BY DEF BlocksHold
<1>3. CASE d < Len(scopes)
  <2>1. d \in 1..(Len(scopes) - 1)
    BY <1>1, <1>3
  <2>2. seen'[d] = seen[d] /\ scopes'[d] = scopes[d]
    BY <2>1, BoundScopes, BoundSeen
  <2>3. QED
    BY <1>2, <2>2
<1>4. CASE d = Len(scopes)
  <2>1. n = id /\ Len(scopes) # 1
    BY <1>4 DEF InFile
  <2>2. PICK s : s = seen[d]
    OBVIOUS
  <2>3. PICK u : u = seen'[d]
    OBVIOUS
  <2>4. u = Put(s, <<id, b>>, e)
    BY <1>4, <2>1, <2>2, <2>3, BoundSeen
  <2>5. DOMAIN u = DOMAIN s \cup {<<id, b>>} /\ \A k \in DOMAIN u : u[k] = IF k = <<id, b>> THEN e ELSE s[k]
    BY <2>4 DEF Put
  <2>6. ASSUME NEW c \in BOOLEAN
        PROVE  /\ DOMAIN Of(scopes'[d], c) = IF c = b THEN DOMAIN Of(scopes[d], c) \cup {id} ELSE DOMAIN Of(scopes[d], c)
               /\ \A k \in DOMAIN Of(scopes'[d], c) :
                    Of(scopes'[d], c)[k] = IF c = b /\ k = id THEN e ELSE Of(scopes[d], c)[k]
    <3>1. PICK t : t = Of(scopes[d], c)
      OBVIOUS
    <3>2. PICK t2 : t2 = Of(scopes'[d], c)
      OBVIOUS
    <3>3. t2 = IF c = b THEN Put(t, id, e) ELSE t
      BY <1>4, <2>1, <3>1, <3>2, BoundScopes
    <3>4. DOMAIN t2 = (IF c = b THEN DOMAIN t \cup {id} ELSE DOMAIN t)
          /\ \A k \in DOMAIN t2 : t2[k] = IF c = b /\ k = id THEN e ELSE t[k]
      BY <3>3 DEF Put
    <3>5. QED
      BY <3>1, <3>2, <3>4
  <2>7. ASSUME NEW k \in Seq(Atoms), NEW c \in BOOLEAN
        PROVE  /\ <<k, c>> \in DOMAIN u <=> k \in DOMAIN Of(scopes'[d], c)
               /\ <<k, c>> \in DOMAIN u => u[<<k, c>>] = Of(scopes'[d], c)[k]
    <3>1. /\ <<k, c>> \in DOMAIN s <=> k \in DOMAIN Of(scopes[d], c)
          /\ <<k, c>> \in DOMAIN s => s[<<k, c>>] = Of(scopes[d], c)[k]
      BY <1>2, <2>2 DEF Holds
    <3>2. <<k, c>> = <<id, b>> <=> k = id /\ c = b
      OBVIOUS
    <3>3. PICK t : t = Of(scopes[d], c)
      OBVIOUS
    <3>4. PICK t2 : t2 = Of(scopes'[d], c)
      OBVIOUS
    <3>5. CASE k = id /\ c = b
      <4>1. k \in DOMAIN t2 /\ t2[k] = e
        BY <2>6, <3>4, <3>5
      <4>2. <<k, c>> \in DOMAIN u /\ u[<<k, c>>] = e
        BY <2>5, <3>5
      <4>3. QED
        BY <3>4, <4>1, <4>2
    <3>6. CASE ~(k = id /\ c = b)
      <4>1. (k \in DOMAIN t2 <=> k \in DOMAIN t) /\ (k \in DOMAIN t2 => t2[k] = t[k])
        BY <2>6, <3>3, <3>4, <3>6
      <4>2. (<<k, c>> \in DOMAIN u <=> <<k, c>> \in DOMAIN s) /\ (<<k, c>> \in DOMAIN u => u[<<k, c>>] = s[<<k, c>>])
        BY <2>5, <3>2, <3>6
      <4>3. QED
        BY <3>1, <3>3, <3>4, <4>1, <4>2
    <3>7. QED
      BY <3>5, <3>6
  <2>8. QED
    BY <2>3, <2>7 DEF Holds
<1>5. QED
  BY <1>1, <1>3, <1>4

-----------------------------------------------------------------------------
(* Declarations.                                                           *)

\* The name n of id is bound to e in the file scope, and entered with x.
FileBinds(id, n, e, x, b) ==
  /\ n = get_prefixed_ident(id)
  /\ nps' = Listed(id, x, b)
  /\ \A c \in BOOLEAN : Of(scopes'[1], c) = IF c = b THEN Put(Of(scopes[1], c), n, e) ELSE Of(scopes[1], c)
  /\ x \in {e, Dangling}
  /\ IF n \in DOMAIN Table(1, b) THEN Table(1, b)[n] = e ELSE x = e

LEMMA FileStep ==
  ASSUME Typed, Declared, AllSet(nps),
         NEW id \in Seq(Atoms), NEW n \in Seq(Atoms), NEW e \in Nat \ {0}, NEW x \in Int \ {0}, NEW b \in BOOLEAN,
         FileBinds(id, n, e, x, b), AllSet(nps') \/ x = e
  PROVE  /\ nps' \in Lists /\ Alike(nps, nps')
         /\ Declared' /\ AllSet(nps')
<1>1. nps \in Lists /\ 1 \in 1..Len(scopes)
  BY ScopesAre DEF Typed
<1>2. PICK M : M = nps'
  OBVIOUS
<1>3. /\ M \in Lists /\ Grown(nps, M, n, x, b)
      /\ \E i \in 1..Len(M[1].entries) : Has(M[1].entries, i, n, b)
  BY <1>2, ListedGrows DEF FileBinds
<1>4. Alike(nps, M)
  BY <1>3 DEF Grown
<1>5. AllSet(M)
  <2>1. e # Dangling
    BY DEF Dangling
  <2>2. QED
    BY <1>1, <1>2, <1>3, <2>1, AllSetGrown
<1>6. ASSUME NEW c \in BOOLEAN PROVE Agree(M, Table(1, c)', c) /\ AllIn(M, Table(1, c)', c)
  <2>1. PICK t \in Tables : t = Table(1, c) /\ t = Of(scopes[1], c)
    BY <1>1, ScopesAre
  <2>2. PICK u : u = Table(1, c)' /\ u = Of(scopes'[1], c)
    BY DEF Table, Of
  <2>3. u = IF c = b THEN Put(t, n, e) ELSE t
    BY <2>1, <2>2 DEF FileBinds
  <2>4. c = b => IF n \in DOMAIN t THEN t[n] = e ELSE x = e
    BY <2>1 DEF FileBinds
  <2>5. PICK p : p = Put(t, n, e)
    OBVIOUS
  <2>6. DOMAIN p = DOMAIN t \cup {n} /\ p[n] = e /\ \A k \in DOMAIN t : k # n => p[k] = t[k]
    <3>1. /\ DOMAIN Put(t, n, e) = DOMAIN t \cup {n} /\ Put(t, n, e)[n] = e
          /\ \A k \in DOMAIN t : k # n => Put(t, n, e)[k] = t[k]
      BY DEF Put
    <3>2. QED
      BY <2>5, <3>1
  <2>7. \A k \in DOMAIN t : k \in DOMAIN u /\ u[k] = t[k]
    BY <2>3, <2>4, <2>5, <2>6
  <2>8. \A k \in DOMAIN u : k \in DOMAIN t \/ (c = b /\ k = n)
    BY <2>3, <2>5, <2>6
  <2>9. c = b => n \in DOMAIN u /\ u[n] = e
    BY <2>3, <2>5, <2>6
  <2>10. x \in {Dangling, e}
    BY DEF FileBinds
  <2>11. Agree(nps, t, c) /\ AllIn(nps, t, c)
    BY <2>1 DEF Declared
  <2>12. c = b => n \in DOMAIN u /\ x \in {Dangling, u[n]}
    BY <2>9, <2>10
  <2>13. Agree(M, u, c)
    BY <1>1, <1>3, <2>7, <2>11, <2>12, AgreeGrown
  <2>14. c = b /\ n \notin DOMAIN t => x = u[n]
    BY <2>4, <2>9
  <2>15. AllIn(M, u, c)
    BY <1>1, <1>3, <2>7, <2>8, <2>11, <2>14, AllInGrown
  <2>16. QED
    BY <2>2, <2>13, <2>15
<1>7. Declared'
  BY <1>2, <1>6 DEF Declared
<1>8. QED
  BY <1>2, <1>3, <1>4, <1>5, <1>7

\* The name n of id is bound to e in the current scope.
Binds(id, n, e, x, b) ==
  /\ Bound(id, n, e, b) /\ InFileOnly(Listed(id, x, b))
  /\ n = IF InFile THEN get_prefixed_ident(id) ELSE id
  /\ InFile => /\ x \in {e, Dangling}
               /\ IF n \in DOMAIN Table(1, b) THEN Table(1, b)[n] = e ELSE x = e
               /\ AllSet(nps') \/ x = e

LEMMA BindsTypes ==
  ASSUME Typed,
         NEW id \in Seq(Atoms), NEW n \in Seq(Atoms), NEW e \in Nat \ {0}, NEW x \in Int \ {0}, NEW b \in BOOLEAN,
         Bound(id, n, e, b), InFileOnly(Listed(id, x, b)),
         symbols' \in Tables, made' \in Seq(Kinds)
  PROVE  Typed' /\ Alike(nps, nps') /\ outer' = outer
<1>1. nps' \in Lists /\ Alike(nps, nps')
  <2>1. CASE InFile
    <3>1. nps' = Listed(id, x, b)
      BY <2>1 DEF InFileOnly
    <3>2. QED
      BY <3>1, ListedGrows DEF Grown
  <2>2. CASE ~InFile
    <3>1. nps' = nps
      BY <2>2 DEF InFileOnly
    <3>2. QED
      BY <3>1 DEF Typed, Alike
  <2>3. QED
    BY <2>1, <2>2
<1>2. Len(nps') = Len(nps)
  BY <1>1 DEF Alike
<1>3. outer' = outer /\ npScopes' = npScopes
  BY DEF InFileOnly
<1>4. scopes' \in Seq(Scope(Len(nps))) /\ Len(scopes') = Len(scopes) /\ Len(scopes) # 0
  BY BoundScopes, ScopesAre
<1>5. seen' \in Seq(Seens) /\ Len(seen') = Len(scopes)
  BY BoundSeen
<1>6. scopes' # <<>>
  BY <1>4
<1>7. QED
  BY <1>1, <1>2, <1>3, <1>4, <1>5, <1>6 DEF Typed

LEMMA BindsInv ==
  ASSUME Typed, NamesInv,
         NEW id \in Seq(Atoms), NEW n \in Seq(Atoms), NEW e \in Nat \ {0}, NEW x \in Int \ {0}, NEW b \in BOOLEAN,
         Binds(id, n, e, x, b)
  PROVE  NamesInv'
<1>1. BlocksHold'
  <2>1. InFile \/ n = id
    BY DEF Binds
  <2>2. QED
    BY <2>1, BoundHolds DEF NamesInv, Binds
<1>2. CASE InFile
  <2>1. Len(scopes) = 1
    BY <1>2 DEF InFile
  <2>2. \A c \in BOOLEAN : Of(scopes'[1], c) = IF c = b THEN Put(Of(scopes[1], c), n, e) ELSE Of(scopes[1], c)
    BY <2>1, BoundScopes DEF Binds
  <2>3. FileBinds(id, n, e, x, b) /\ (AllSet(nps') \/ x = e)
    BY <1>2, <2>2 DEF FileBinds, Binds, InFileOnly
  <2>4. Declared' /\ AllSet(nps')
    BY <2>3, FileStep DEF NamesInv
  <2>5. QED
    BY <1>1, <2>4 DEF NamesInv
<1>3. CASE ~InFile
  <2>1. 1 \in 1..(Len(scopes) - 1)
    BY <1>3, ScopesAre DEF InFile
  <2>2. scopes'[1] = scopes[1]
    BY <2>1, BoundScopes DEF Binds
  <2>3. nps' = nps
    BY <1>3 DEF Binds, InFileOnly
  <2>4. \A c \in BOOLEAN : Table(1, c)' = Table(1, c)
    BY <2>2 DEF Table
  <2>5. Declared'
    BY <2>3, <2>4 DEF NamesInv, Declared
  <2>6. AllSet(nps')
    BY <2>3 DEF NamesInv
  <2>7. QED
    BY <1>1, <2>5, <2>6 DEF NamesInv
<1>4. QED
  BY <1>2, <1>3

-----------------------------------------------------------------------------
(* The prefixes around a prefix.                                           *)

ParentsOf(up, m) == \A p \in 0..m : up[p] = IF p = 0 THEN <<>> ELSE <<p>> \o up[nps[p].parent]

LEMMA ParentsExist ==
  ASSUME nps \in Lists
  PROVE  \E up : DOMAIN up = 0..Len(nps) /\ ParentsOf(up, Len(nps))
<1> DEFINE N == Len(nps)
           Upto(m) == \E up : DOMAIN up = 0..m /\ ParentsOf(up, m)
           G == {m \in 0..N : Upto(m)}
<1>1. N \in Nat
  BY ListIs
<1>2. Upto(0)
  <2> DEFINE g == [p \in 0..0 |-> <<>>]
  <2>1. DOMAIN g = 0..0 /\ g[0] = <<>>
    OBVIOUS
  <2> HIDE DEF g
  <2>2. ParentsOf(g, 0)
    BY <2>1 DEF ParentsOf
  <2>3. QED
    BY <2>1, <2>2
<1>3. ASSUME NEW m \in 1..N, Upto(m - 1) PROVE Upto(m)
  <2>1. PICK up : DOMAIN up = 0..(m - 1) /\ ParentsOf(up, m - 1)
    BY <1>3
  <2> DEFINE g == [p \in 0..m |-> IF p = m THEN <<m>> \o up[nps[m].parent] ELSE up[p]]
  <2>2. DOMAIN g = 0..m /\ g[m] = <<m>> \o up[nps[m].parent] /\ \A p \in 0..(m - 1) : g[p] = up[p]
    BY <1>1
  <2> HIDE DEF g
  <2>3. \A p \in 1..m : nps[p].parent \in 0..(m - 1) /\ nps[p].parent \in 0..(p - 1)
    BY <1>1, ListIs
  <2>4. ASSUME NEW p \in 0..m PROVE g[p] = IF p = 0 THEN <<>> ELSE <<p>> \o g[nps[p].parent]
    <3>1. CASE p = m
      <4>1. g[nps[m].parent] = up[nps[m].parent] /\ m # 0
        BY <1>1, <2>2, <2>3
      <4>2. QED
        BY <2>2, <3>1, <4>1
    <3>2. CASE p # m
      <4>1. p \in 0..(m - 1) /\ g[p] = up[p]
        BY <1>1, <2>2, <3>2
      <4>2. up[p] = IF p = 0 THEN <<>> ELSE <<p>> \o up[nps[p].parent]
        BY <2>1, <4>1 DEF ParentsOf
      <4>3. p # 0 => g[nps[p].parent] = up[nps[p].parent]
        BY <1>1, <2>2, <2>3
      <4>4. QED
        BY <4>1, <4>2, <4>3
    <3>3. QED
      BY <3>1, <3>2
  <2>5. ParentsOf(g, m)
    BY <2>4 DEF ParentsOf
  <2>6. QED
    BY <2>2, <2>5
<1> HIDE DEF Upto
<1>4. 0 \in G
  BY <1>1, <1>2
<1>5. \A i \in 1..N : i - 1 \in G => i \in G
  BY <1>1, <1>3
<1> HIDE DEF G, N
<1>6. \A i \in 0..N : i \in G
  BY <1>1, <1>4, <1>5, Induct, Zenon
<1>7. N \in G
  BY <1>1, <1>6
<1>8. QED
  BY <1>7 DEF G, Upto, N

LEMMA ParentsAre ==
  ASSUME nps \in Lists, NEW p \in 0..Len(nps)
  PROVE  /\ Parents(p) \in Seq(1..Len(nps))
         /\ p = None => Parents(p) = <<>>
         /\ p # None => Parents(p) # <<>> /\ Parents(p)[1] = p
<1> DEFINE N == Len(nps)
           From(g) == [q \in 0..N |-> IF q = None THEN <<>> ELSE <<q>> \o g[nps[q].parent]]
           up == CHOOSE g : g = From(g)
<1>1. Parents(p) = up[p]
  BY DEF Parents
<1>2. up = From(up)
  <2>1. PICK g : DOMAIN g = 0..N /\ ParentsOf(g, N)
    BY ParentsExist
  <2>2. PICK f : f = [q \in 0..N |-> g[q]]
    OBVIOUS
  <2>3. \A q \in 0..N : f[q] = From(f)[q]
    <3>1. ASSUME NEW q \in 0..N PROVE f[q] = IF q = None THEN <<>> ELSE <<q>> \o f[nps[q].parent]
      <4>1. g[q] = IF q = 0 THEN <<>> ELSE <<q>> \o g[nps[q].parent]
        BY <2>1 DEF ParentsOf
      <4>2. q # 0 => nps[q].parent \in 0..N
        <5>1. N \in Nat
          BY ListIs
        <5>2. q # 0 => q \in 1..N
          BY <5>1
        <5>3. \A r \in 1..N : nps[r].parent \in 0..(r - 1)
          BY ListIs
        <5>4. QED
          BY <5>1, <5>2, <5>3
      <4>3. QED
        BY <2>2, <4>1, <4>2 DEF None
    <3>2. QED
      BY <3>1
  <2>4. f = From(f)
    BY <2>2, <2>3
  <2> HIDE DEF From
  <2>5. QED
    BY <2>4
<1> HIDE DEF up
<1>3. \A q \in 0..N : up[q] = IF q = None THEN <<>> ELSE <<q>> \o up[nps[q].parent]
  <2> DEFINE h == From(up)
  <2>1. \A q \in 0..N : h[q] = IF q = None THEN <<>> ELSE <<q>> \o up[nps[q].parent]
    OBVIOUS
  <2>2. up = h
    BY <1>2
  <2> HIDE DEF h
  <2>3. QED
    BY <2>1, <2>2
<1> HIDE DEF From
<1>4. N \in Nat
  BY ListIs
<1> DEFINE Chain(m) == \A q \in 0..m : up[q] \in Seq(1..N)
           G == {m \in 0..N : Chain(m)}
<1>5. 0 \in G
  <2>1. up[0] = <<>>
    <3>1. 0 \in 0..N
      BY <1>4
    <3>2. QED
      BY <1>3, <3>1, Zenon DEF None
  <2>2. up[0] \in Seq(1..N)
    BY <2>1
  <2>3. QED
    BY <1>4, <2>2
<1>6. ASSUME NEW m \in 1..N, Chain(m - 1) PROVE Chain(m)
  <2> SUFFICES ASSUME NEW q \in 0..m PROVE up[q] \in Seq(1..N)
    OBVIOUS
  <2>1. CASE q = m
    <3>1. nps[m].parent \in 0..(m - 1)
      BY <1>4, ListIs
    <3>2. PICK s \in Seq(1..N) : s = up[nps[m].parent]
      BY <1>6, <3>1
    <3>3. up[m] = <<m>> \o s
      <4>1. m \in 0..N /\ m # None
        BY <1>4 DEF None
      <4>2. QED
        BY <1>3, <3>2, <4>1, Zenon
    <3>4. QED
      BY <2>1, <3>3
  <2>2. CASE q # m
    <3>1. q \in 0..(m - 1)
      BY <1>4, <2>2
    <3>2. QED
      BY <1>6, <3>1
  <2>3. QED
    BY <2>1, <2>2
<1> HIDE DEF Chain
<1>a. \A m \in 1..N : m - 1 \in G => m \in G
  BY <1>4, <1>6
<1> HIDE DEF G
<1>7. \A i \in 0..N : i \in G
  BY <1>4, <1>5, <1>a, Induct, Zenon
<1> USE DEF Chain
<1>8. Chain(N)
  BY <1>4, <1>7 DEF G
<1>9. p # None => nps[p].parent \in 0..N
  <2>1. \A r \in 1..N : nps[r].parent \in 0..(r - 1)
    BY ListIs
  <2>2. QED
    BY <1>4, <2>1 DEF None
<1>10. CASE p = None
  BY <1>1, <1>3, <1>8, <1>10
<1>11. CASE p # None
  <2>1. PICK s \in Seq(1..N) : s = up[nps[p].parent]
    BY <1>8, <1>9, <1>11
  <2>2. Parents(p) = <<p>> \o s
    BY <1>1, <1>3, <1>11, <2>1
  <2>3. <<p>> \o s # <<>> /\ (<<p>> \o s)[1] = p
    BY <2>1
  <2>4. Parents(p) \in Seq(1..N)
    BY <1>1, <1>8
  <2>5. QED
    BY <1>11, <2>2, <2>3, <2>4
<1>12. QED
  BY <1>10, <1>11

-----------------------------------------------------------------------------
(* The search behind an access.                                            *)

Places(lists) == UNION {{i} \X DOMAIN lists[i] : i \in DOMAIN lists}
NpAt(from, p) == Searched(from)[p[1]][p[2]]
At(from, n) == {p \in Places(Searched(from)) : nps[NpAt(from, p)].name = n}
Deeper(g, from, k, n) == {p \in At(from, n) : g[<<NpAt(from, p), k - 1>>] # Nothing}
Seek(g, from, k, n, want) ==
  IF At(from, n) = {} THEN Failed
  ELSE IF k = 1 THEN Leaf(NpAt(from, Foremost(At(from, n))), want)
  ELSE IF Deeper(g, from, k, n) = {} THEN Failed
  ELSE g[<<NpAt(from, Foremost(Deeper(g, from, k, n))), k - 1>>]
Seeks(g, m, access, want) ==
  \A from \in 0..Len(nps), k \in 1..m : g[<<from, k>>] = Seek(g, from, k, access[Len(access) - k + 1], want)

LEMMA SearchedIs ==
  ASSUME nps \in Lists, outer \in Seq(1..Len(nps)), NEW from \in 0..Len(nps)
  PROVE  /\ Searched(from) \in Seq(Seq(1..Len(nps)))
         /\ Len(Searched(from)) = Len(Parents(from)) + 1
         /\ Searched(from)[Len(Parents(from)) + 1] = outer
         /\ \A i \in 1..Len(Parents(from)) : Searched(from)[i] = nps[Parents(from)[i]].nested
<1> DEFINE around == Parents(from)
           f == [i \in 1..(Len(around) + 1) |-> IF i <= Len(around) THEN nps[around[i]].nested ELSE outer]
<1>1. around \in Seq(1..Len(nps)) /\ Len(around) \in Nat
  BY ParentsAre
<1>2. Searched(from) = f
  BY DEF Searched
<1> HIDE DEF around
<1>3. \A i \in 1..Len(around) : around[i] \in 1..Len(nps) /\ nps[around[i]].nested \in Seq(1..Len(nps))
  BY <1>1, ListIs, SMTT(30)
<1>4. /\ \A i \in 1..Len(around) : f[i] = nps[around[i]].nested
      /\ f[Len(around) + 1] = outer
  <2>1. Len(around) + 1 \in 1..(Len(around) + 1) /\ ~(Len(around) + 1 <= Len(around))
    BY <1>1
  <2>2. \A i \in 1..Len(around) : i \in 1..(Len(around) + 1) /\ i <= Len(around)
    BY <1>1
  <2>3. QED
    BY <2>1, <2>2
<1>5. \A i \in 1..(Len(around) + 1) : f[i] \in Seq(1..Len(nps))
  <2> SUFFICES ASSUME NEW i \in 1..(Len(around) + 1) PROVE f[i] \in Seq(1..Len(nps))
    OBVIOUS
  <2> HIDE DEF f
  <2>1. i \in 1..Len(around) \/ i = Len(around) + 1
    BY <1>1
  <2>2. QED
    BY <1>3, <1>4, <2>1
<1>6. f \in [1..(Len(around) + 1) -> Seq(1..Len(nps))]
  <2>1. DOMAIN f = 1..(Len(around) + 1) /\ f = [i \in 1..(Len(around) + 1) |-> f[i]]
    OBVIOUS
  <2> HIDE DEF f
  <2>2. QED
    BY <1>5, <2>1
<1> HIDE DEF f
<1>7. f \in Seq(Seq(1..Len(nps))) /\ Len(f) = Len(around) + 1
  <2>1. PICK m \in Nat : m = Len(around) + 1
    BY <1>1
  <2>2. PICK X : X = Seq(1..Len(nps))
    OBVIOUS
  <2>3. f \in [1..m -> X]
    BY <1>6, <2>1, <2>2
  <2>4. f \in Seq(X) /\ Len(f) = m
    BY <2>3
  <2>5. QED
    BY <2>1, <2>2, <2>4
<1>8. QED
  BY <1>2, <1>4, <1>7 DEF around

LEMMA PlacesAre ==
  ASSUME nps \in Lists, outer \in Seq(1..Len(nps)), NEW from \in 0..Len(nps), NEW p \in Places(Searched(from))
  PROVE  /\ p[1] \in 1..(Len(Parents(from)) + 1)
         /\ p[2] \in 1..Len(Searched(from)[p[1]])
         /\ p = <<p[1], p[2]>> /\ p \in Nat \X Nat
         /\ NpAt(from, p) \in 1..Len(nps)
<1>1. PICK lists \in Seq(Seq(1..Len(nps))) : lists = Searched(from) /\ Len(lists) = Len(Parents(from)) + 1
  BY SearchedIs
<1>2. PICK i \in DOMAIN lists : p \in {i} \X DOMAIN lists[i]
  BY <1>1 DEF Places
<1>3. i \in 1..Len(lists) /\ lists[i] \in Seq(1..Len(nps))
  BY <1>1
<1>4. PICK s \in Seq(1..Len(nps)) : s = lists[i]
  BY <1>3
<1>5. p[1] = i /\ p[2] \in 1..Len(s) /\ p = <<p[1], p[2]>> /\ Len(s) \in Nat
  BY <1>2, <1>4
<1>6. s[p[2]] \in 1..Len(nps)
  BY <1>5, SMTT(30)
<1>7. i \in Nat /\ p[2] \in Nat
  BY <1>3, <1>5
<1>8. QED
  BY <1>1, <1>3, <1>4, <1>5, <1>6, <1>7 DEF NpAt

LEMMA ForemostIs ==
  ASSUME NEW S, S \subseteq Nat \X Nat, S # {}
  PROVE  /\ Foremost(S) \in S
         /\ \A q \in S : Foremost(S)[1] < q[1] \/ (Foremost(S)[1] = q[1] /\ Foremost(S)[2] <= q[2])
<1> DEFINE Firsts == {q[1] : q \in S}
<1>1. Firsts \in SUBSET Nat /\ Firsts # {}
  OBVIOUS
<1>2. PICK x \in Firsts : \A y \in Firsts : x <= y
  <2> HIDE DEF Firsts
  <2>1. QED
    BY <1>1, Least
<1> DEFINE Seconds == {q[2] : q \in {r \in S : r[1] = x}}
<1>3. Seconds \in SUBSET Nat /\ Seconds # {}
  OBVIOUS
<1>4. PICK z \in Seconds : \A y \in Seconds : z <= y
  <2> HIDE DEF Seconds
  <2>1. QED
    BY <1>3, Least
<1>5. PICK p \in S : p[1] = x /\ p[2] = z
  OBVIOUS
<1>6. ASSUME NEW q \in S PROVE p[1] < q[1] \/ (p[1] = q[1] /\ p[2] <= q[2])
  <2>1. x <= q[1] /\ q[1] \in Nat /\ x \in Nat
    BY <1>1, <1>2
  <2>2. q[1] = x => z <= q[2]
    BY <1>4
  <2>3. QED
    BY <1>5, <2>1, <2>2
<1>7. \E r \in S : \A q \in S : r[1] < q[1] \/ (r[1] = q[1] /\ r[2] <= q[2])
  BY <1>6
<1>8. QED
  BY <1>7 DEF Foremost

LEMMA SeekReads ==
  ASSUME nps \in Lists, outer \in Seq(1..Len(nps)), NEW from \in 0..Len(nps), NEW k, NEW n, NEW want, NEW g, NEW h,
         k # 1 => \A np \in 0..Len(nps) : g[<<np, k - 1>>] = h[<<np, k - 1>>]
  PROVE  Seek(g, from, k, n, want) = Seek(h, from, k, n, want)
<1>1. CASE k = 1
  BY <1>1 DEF Seek
<1>2. CASE k # 1
  <2>1. \A p \in At(from, n) : NpAt(from, p) \in 0..Len(nps)
    BY PlacesAre, ListIs DEF At
  <2>2. \A p \in At(from, n) : g[<<NpAt(from, p), k - 1>>] = h[<<NpAt(from, p), k - 1>>]
    BY <1>2, <2>1
  <2>3. PICK D : D = Deeper(g, from, k, n)
    OBVIOUS
  <2>4. D = Deeper(h, from, k, n) /\ D \subseteq At(from, n)
    BY <2>2, <2>3 DEF Deeper
  <2>5. D # {} => Foremost(D) \in At(from, n)
    <3>1. D \subseteq Nat \X Nat
      BY <2>4, PlacesAre DEF At
    <3>2. D # {} => Foremost(D) \in D
      BY <3>1, ForemostIs
    <3>3. QED
      BY <2>4, <3>2
  <2>6. D # {} => g[<<NpAt(from, Foremost(D)), k - 1>>] = h[<<NpAt(from, Foremost(D)), k - 1>>]
    BY <2>2, <2>5
  <2>7. QED
    BY <1>2, <2>3, <2>4, <2>6 DEF Seek
<1>3. QED
  BY <1>1, <1>2

LEMMA SeekExists ==
  ASSUME nps \in Lists, outer \in Seq(1..Len(nps)), NEW access, Len(access) \in Nat, NEW want
  PROVE  \E g : Seeks(g, Len(access), access, want)
<1> DEFINE N == Len(nps)
           K == Len(access)
           Name(k) == access[K - k + 1]
           Upto(m) == \E g : Seeks(g, m, access, want)
           G == {m \in 0..K : Upto(m)}
<1>1. N \in Nat /\ K \in Nat
  BY ListIs
<1>2. Upto(0)
  BY DEF Seeks
<1>3. ASSUME NEW m \in 1..K, Upto(m - 1) PROVE Upto(m)
  <2>1. PICK g : Seeks(g, m - 1, access, want)
    BY <1>3
  <2> DEFINE h == [s \in (0..N) \X (1..m) |-> IF s[2] = m THEN Seek(g, s[1], m, Name(m), want) ELSE g[s]]
  <2>2. \A from \in 0..N, k \in 1..m :
          h[<<from, k>>] = IF k = m THEN Seek(g, from, m, Name(m), want) ELSE g[<<from, k>>]
    OBVIOUS
  <2> HIDE DEF h
  <2>3. \A from \in 0..N, k \in 1..(m - 1) : h[<<from, k>>] = g[<<from, k>>]
    <3>1. \A k \in 1..(m - 1) : k \in 1..m /\ k # m
      BY <1>1
    <3>2. QED
      BY <2>2, <3>1
  <2>4. ASSUME NEW from \in 0..N, NEW k \in 1..m PROVE h[<<from, k>>] = Seek(h, from, k, Name(k), want)
    <3>1. k # 1 => \A np \in 0..N : g[<<np, k - 1>>] = h[<<np, k - 1>>]
      <4>1. k # 1 => k - 1 \in 1..(m - 1)
        BY <1>1
      <4>2. PICK j : j = k - 1
        OBVIOUS
      <4>3. QED
        BY <2>3, <4>1, <4>2
    <3>2. PICK n : n = Name(k)
      OBVIOUS
    <3>3. Seek(g, from, k, n, want) = Seek(h, from, k, n, want)
      BY <3>1, SeekReads
    <3>4. CASE k = m
      BY <2>2, <3>2, <3>3, <3>4
    <3>5. CASE k # m
      <4>1. k \in 1..(m - 1)
        BY <1>1, <3>5
      <4>2. g[<<from, k>>] = Seek(g, from, k, n, want)
        BY <2>1, <3>2, <4>1 DEF Seeks
      <4>3. QED
        BY <2>3, <3>2, <3>3, <4>1, <4>2
    <3>6. QED
      BY <3>4, <3>5
  <2>5. Seeks(h, m, access, want)
    BY <2>4 DEF Seeks
  <2>6. QED
    BY <2>5
<1> HIDE DEF Upto
<1>4. 0 \in G
  BY <1>1, <1>2
<1>5. \A i \in 1..K : i - 1 \in G => i \in G
  BY <1>1, <1>3
<1> HIDE DEF G, K
<1>6. \A i \in 0..K : i \in G
  BY <1>1, <1>4, <1>5, Induct, Zenon
<1>7. K \in G
  BY <1>1, <1>6
<1>8. QED
  BY <1>7 DEF G, Upto, K

LEMMA Sought ==
  ASSUME nps \in Lists, outer \in Seq(1..Len(nps)), NEW access, Len(access) \in Nat \ {0}, NEW want
  PROVE  \E f : /\ Seeks(f, Len(access), access, want)
                /\ \A from \in 0..Len(nps) :
                     get_np_from_access_starting_from(from, access, want) = f[<<from, Len(access)>>]
<1> DEFINE S == (0..Len(nps)) \X (1..Len(access))
           From(g) == [s \in S |-> Seek(g, s[1], s[2], access[Len(access) - s[2] + 1], want)]
           F == CHOOSE g : g = From(g)
<1>1. \A from : get_np_from_access_starting_from(from, access, want) = F[<<from, Len(access)>>]
  BY DEF get_np_from_access_starting_from, Seek, Deeper, At, NpAt, Places
<1>2. F = From(F)
  <2>1. PICK g : Seeks(g, Len(access), access, want)
    BY SeekExists
  <2>2. PICK f : f = [s \in S |-> g[s]]
    OBVIOUS
  <2>3. \A from \in 0..Len(nps), k \in 1..Len(access) : f[<<from, k>>] = g[<<from, k>>]
    BY <2>2
  <2>4. ASSUME NEW s \in S PROVE f[s] = Seek(f, s[1], s[2], access[Len(access) - s[2] + 1], want)
    <3>1. PICK from \in 0..Len(nps), k \in 1..Len(access) : s = <<from, k>>
      OBVIOUS
    <3>2. PICK n : n = access[Len(access) - k + 1]
      OBVIOUS
    <3>3. f[s] = Seek(g, from, k, n, want)
      BY <2>1, <2>3, <3>1, <3>2 DEF Seeks
    <3>4. k # 1 => \A np \in 0..Len(nps) : g[<<np, k - 1>>] = f[<<np, k - 1>>]
      BY <2>3
    <3>5. Seek(g, from, k, n, want) = Seek(f, from, k, n, want)
      BY <3>4, SeekReads
    <3>6. s[1] = from /\ s[2] = k
      BY <3>1
    <3>7. QED
      BY <3>2, <3>3, <3>5, <3>6
  <2>5. f = From(f)
    <3>1. From(f) = [s \in S |-> f[s]]
      BY <2>4
    <3>2. f = [s \in S |-> f[s]]
      BY <2>2
    <3>3. QED
      BY <3>1, <3>2
  <2> HIDE DEF From
  <2>6. QED
    BY <2>5
<1> HIDE DEF F
<1>3. \A s \in S : F[s] = Seek(F, s[1], s[2], access[Len(access) - s[2] + 1], want)
  <2> DEFINE h == From(F)
  <2>1. \A s \in S : h[s] = Seek(F, s[1], s[2], access[Len(access) - s[2] + 1], want)
    OBVIOUS
  <2>2. F = h
    BY <1>2
  <2> HIDE DEF h
  <2>3. QED
    BY <2>1, <2>2
<1>4. Seeks(F, Len(access), access, want)
  <2> SUFFICES ASSUME NEW from \in 0..Len(nps), NEW k \in 1..Len(access)
               PROVE  F[<<from, k>>] = Seek(F, from, k, access[Len(access) - k + 1], want)
    BY DEF Seeks
  <2>1. PICK s \in S : s = <<from, k>>
    OBVIOUS
  <2>2. s[1] = from /\ s[2] = k
    BY <2>1
  <2>3. QED
    BY <1>3, <2>1, <2>2
<1> HIDE DEF From
<1>5. QED
  BY <1>1, <1>4

\* What is found from x under the name n, before anything else.
First(x, n, c) == At(x, n) # {} /\ NpAt(x, Foremost(At(x, n))) = c

LEMMA FirstAt ==
  ASSUME nps \in Lists, outer \in Seq(1..Len(nps)), NEW x \in 0..Len(nps), NEW n,
         NEW i \in 1..Len(Searched(x)), Called(nps, Searched(x)[i], n) # None,
         \A h \in 1..(i - 1) : \A j \in 1..Len(Searched(x)[h]) : nps[Searched(x)[h][j]].name # n
  PROVE  First(x, n, Called(nps, Searched(x)[i], n))
<1>1. PICK lists \in Seq(Seq(1..Len(nps))) : lists = Searched(x)
  BY SearchedIs
<1>2. PICK s \in Seq(1..Len(nps)) : s = lists[i]
  BY <1>1
<1>3. Len(nps) \in Nat /\ Len(lists) \in Nat /\ Len(s) \in Nat /\ i \in Nat
  BY <1>1, ListIs
<1>4. PICK j \in 1..Len(s) : /\ nps[s[j]].name = n /\ Called(nps, s, n) = s[j]
                             /\ \A h \in 1..(j - 1) : nps[s[h]].name # n
  <2>1. Called(nps, s, n) # None
    BY <1>1, <1>2
  <2>2. PICK m \in Nat : m = Len(nps) /\ s \in Seq(1..m)
    BY <1>3
  <2>3. FoundFirst(nps, s, n)
    BY <2>2, CalledFirst
  <2>4. QED
    BY <2>1, <2>3 DEF FoundFirst
<1>5. PICK p : p = <<i, j>>
  OBVIOUS
<1>6. p[1] = i /\ p[2] = j
  BY <1>5
<1>7. p \in At(x, n)
  <2>1. p \in Places(lists)
    BY <1>1, <1>2, <1>5 DEF Places
  <2>2. QED
    BY <1>1, <1>2, <1>4, <1>6, <2>1 DEF At, NpAt
<1>8. PICK r : r = Foremost(At(x, n))
  OBVIOUS
<1>9. r \in At(x, n) /\ (r[1] < i \/ (r[1] = i /\ r[2] <= j))
  <2>1. At(x, n) \subseteq Nat \X Nat
    BY PlacesAre DEF At
  <2>2. QED
    BY <1>6, <1>7, <1>8, <2>1, ForemostIs
<1>10. r \in Places(lists) /\ nps[lists[r[1]][r[2]]].name = n
  BY <1>1, <1>9 DEF At, NpAt
<1>11. r[1] \in Nat \ {0} /\ r[2] \in 1..Len(lists[r[1]])
  BY <1>1, <1>10, PlacesAre
<1>12. ~(r[1] < i)
  <2>0. PICK q \in Nat \ {0} : q = r[1]
    BY <1>11
  <2>1. r[1] < i => r[1] \in 1..(i - 1)
    BY <1>3, <2>0, SMTT(30)
  <2>2. QED
    BY <1>1, <1>10, <1>11, <2>1
<1>13. r[1] = i /\ r[2] <= j
  BY <1>9, <1>12
<1>14. r[2] \in 1..Len(s) /\ nps[s[r[2]]].name = n
  BY <1>2, <1>10, <1>11, <1>13
<1>15. r[2] = j
  <2>1. PICK q \in 1..Len(s) : q = r[2] /\ q <= j /\ nps[s[q]].name = n
    BY <1>13, <1>14
  <2>2. q < j => q \in 1..(j - 1)
    BY <1>3, <2>1, SMTT(30)
  <2>3. ~(q < j)
    BY <1>4, <2>1, <2>2
  <2>4. QED
    BY <1>3, <2>1, <2>3, SMTT(30)
<1>16. NpAt(x, r) = s[j]
  BY <1>1, <1>2, <1>13, <1>15 DEF NpAt
<1>17. QED
  BY <1>1, <1>2, <1>4, <1>7, <1>8, <1>16 DEF First

LEMMA FirstInside ==
  ASSUME nps \in Lists, outer \in Seq(1..Len(nps)), NEW x \in 1..Len(nps), NEW n,
         Called(nps, nps[x].nested, n) # None
  PROVE  First(x, n, Called(nps, nps[x].nested, n))
<1>1. Len(nps) \in Nat /\ x \in 0..Len(nps) /\ x # None
  BY ListIs DEF None
<1>2. PICK around \in Seq(1..Len(nps)) : around = Parents(x) /\ around # <<>> /\ around[1] = x
  BY <1>1, ParentsAre
<1>3. Len(around) \in Nat \ {0}
  BY <1>2
<1>4. 1 \in 1..Len(Searched(x)) /\ Searched(x)[1] = nps[x].nested
  <2>1. Len(Searched(x)) = Len(around) + 1 /\ \A i \in 1..Len(around) : Searched(x)[i] = nps[around[i]].nested
    BY <1>1, <1>2, SearchedIs
  <2>2. 1 \in 1..Len(around)
    BY <1>3
  <2>3. QED
    BY <1>2, <1>3, <2>1, <2>2
<1>5. \A h \in 1..(1 - 1) : FALSE
  OBVIOUS
<1>6. PICK one : one = 1
  OBVIOUS
<1>7. First(x, n, Called(nps, Searched(x)[one], n))
  BY <1>1, <1>4, <1>5, <1>6, FirstAt
<1>8. QED
  BY <1>4, <1>6, <1>7

\* A straight way to an entry is the one the search takes.
Leads(x, access, inner) ==
  /\ First(x, access[1], inner[1])
  /\ \A k \in 1..Len(access) : inner[k] \in 1..Len(nps)
  /\ \A k \in 2..Len(access) : inner[k] = Called(nps, nps[inner[k - 1]].nested, access[k])

LEMMA StraightOn ==
  ASSUME nps \in Lists, outer \in Seq(1..Len(nps)), NEW x \in 0..Len(nps), NEW access, Len(access) \in Nat \ {0},
         NEW want, NEW inner, Leads(x, access, inner), Leaf(inner[Len(access)], want) # Nothing
  PROVE  get_np_from_access_starting_from(x, access, want) = Leaf(inner[Len(access)], want)
<1> DEFINE K == Len(access)
           R == Leaf(inner[K], want)
           From(j) == IF j = K THEN x ELSE inner[K - j]
<1>1. PICK f : Seeks(f, K, access, want) /\ get_np_from_access_starting_from(x, access, want) = f[<<x, K>>]
  BY Sought
<1>2. K \in Nat \ {0} /\ Len(nps) \in Nat /\ R # Nothing
  BY ListIs
<1>3. ASSUME NEW j \in 1..K PROVE From(j) \in 0..Len(nps)
  <2>1. j # K => K - j \in 1..K
    BY <1>2
  <2>2. \A k \in 1..K : inner[k] \in 0..Len(nps)
    BY <1>2 DEF Leads
  <2>3. QED
    BY <2>1, <2>2
<1>4. ASSUME NEW j \in 1..K PROVE First(From(j), access[K - j + 1], inner[K - j + 1])
  <2>1. CASE j = K
    <3>1. K - j + 1 = 1
      BY <1>2, <2>1
    <3>2. QED
      BY <2>1, <3>1 DEF Leads
  <2>2. CASE j # K
    <3>1. PICK k \in 2..K : k = K - j + 1 /\ k - 1 = K - j
      <4>1. PICK m \in Nat \ {0} : m = K
        BY <1>2
      <4>2. j \in 1..m /\ j # m
        BY <2>2, <4>1
      <4>3. PICK k \in 2..m : k = m - j + 1 /\ k - 1 = m - j
        BY <4>2
      <4>4. QED
        BY <4>1, <4>3
    <3>2. k - 1 \in 1..K /\ k \in 1..K
      BY <1>2
    <3>3. PICK y \in 1..Len(nps) : y = inner[k - 1] /\ y = From(j)
      BY <2>2, <3>1, <3>2 DEF Leads
    <3>4. inner[k] = Called(nps, nps[y].nested, access[k])
      BY <3>3 DEF Leads
    <3>5. inner[k] # None
      BY <3>2 DEF Leads, None
    <3>6. First(y, access[k], inner[k])
      BY <3>4, <3>5, FirstInside
    <3>7. QED
      BY <3>1, <3>3, <3>6
  <2>3. QED
    BY <2>1, <2>2
<1>5. ASSUME NEW j \in 1..K PROVE From(j - 1) = inner[K - j + 1]
  <2>1. j - 1 # K /\ K - (j - 1) = K - j + 1
    BY <1>2
  <2>2. QED
    BY <2>1
<1> DEFINE G == {j \in 0..K : j >= 1 => f[<<From(j), j>>] = R}
<1> HIDE DEF K, R
<1>6. 0 \in G
  BY <1>2
<1>7. ASSUME NEW j \in 1..K, j - 1 \in G PROVE f[<<From(j), j>>] = R
  <2>1. PICK y \in 0..Len(nps) : y = From(j)
    BY <1>3
  <2>2. PICK n : n = access[K - j + 1]
    OBVIOUS
  <2>3. PICK c : c = inner[K - j + 1]
    OBVIOUS
  <2>4. At(y, n) # {} /\ NpAt(y, Foremost(At(y, n))) = c
    BY <1>4, <2>1, <2>2, <2>3 DEF First
  <2>5. f[<<y, j>>] = Seek(f, y, j, n, want)
    BY <1>1, <2>2 DEF Seeks, K
  <2>6. CASE j = 1
    <3>1. c = inner[K]
      BY <1>2, <2>3, <2>6
    <3>2. Seek(f, y, j, n, want) = Leaf(c, want)
      BY <2>4, <2>6 DEF Seek
    <3>3. QED
      BY <2>1, <2>5, <3>1, <3>2 DEF R
  <2>7. CASE j # 1
    <3>1. From(j - 1) = c
      BY <1>5, <2>3
    <3>2. j - 1 >= 1
      BY <1>2, <2>7
    <3>3. f[<<c, j - 1>>] = R
      BY <1>7, <3>1, <3>2
    <3>4. PICK A : A = At(y, n)
      OBVIOUS
    <3>5. PICK D : D = Deeper(f, y, j, n)
      OBVIOUS
    <3>6. A \subseteq Nat \X Nat /\ A # {} /\ D \subseteq A
      BY <2>4, <3>4, <3>5, PlacesAre DEF At, Deeper
    <3>7. PICK a \in A : a = Foremost(A) /\ \A q \in A : a[1] < q[1] \/ (a[1] = q[1] /\ a[2] <= q[2])
      BY <3>6, ForemostIs
    <3>8. NpAt(y, a) = c
      BY <2>4, <3>4, <3>7
    <3>9. a \in D
      BY <1>2, <3>3, <3>4, <3>5, <3>8 DEF Deeper
    <3>10. PICK d \in D : d = Foremost(D) /\ \A q \in D : d[1] < q[1] \/ (d[1] = q[1] /\ d[2] <= q[2])
      BY <3>6, <3>9, ForemostIs
    <3>11. a = d
      <4>1. a \in Nat \X Nat /\ d \in Nat \X Nat /\ d \in A
        BY <3>6
      <4>2. a[1] < d[1] \/ (a[1] = d[1] /\ a[2] <= d[2])
        BY <3>7, <4>1
      <4>3. d[1] < a[1] \/ (d[1] = a[1] /\ d[2] <= a[2])
        BY <3>9, <3>10
      <4>4. a[1] = d[1] /\ a[2] = d[2]
        BY <4>1, <4>2, <4>3
      <4>5. QED
        BY <4>1, <4>4
    <3>12. Seek(f, y, j, n, want) = f[<<c, j - 1>>]
      BY <2>4, <2>7, <3>5, <3>8, <3>9, <3>10, <3>11 DEF Seek
    <3>13. QED
      BY <2>1, <2>5, <3>3, <3>12
  <2>8. QED
    BY <2>6, <2>7
<1> HIDE DEF From
<1>8. \A j \in 1..K : j - 1 \in G => j \in G
  BY <1>2, <1>7
<1> HIDE DEF G
<1>9. \A j \in 0..K : j \in G
  BY <1>2, <1>6, <1>8, Induct, Zenon
<1>10. f[<<From(K), K>>] = R
  BY <1>2, <1>9 DEF G
<1>11. QED
  BY <1>1, <1>10 DEF From, R, K

-----------------------------------------------------------------------------
(* The walk along a path.                                                  *)

FindIn(L, o, x, n) == Called(L, IF x \in {None, 1} THEN o ELSE L[x].nested, n)
Walks(w, L, o, from, path) ==
  /\ w[0] = from
  /\ \A k \in 1..Len(path) : w[k] = FindIn(L, o, w[k - 1], path[k])
\* The path leads to np.
LeadsTo(L, o, path, np) ==
  \E w : /\ Walks(w, L, o, None, path) /\ w[Len(path)] = np
         /\ \A k \in 1..Len(path) : w[k] \in 1..Len(L)
WrittenLeads(L, o) == \A np \in 1..Len(L) : LeadsTo(L, o, L[np].written, np)

LEMMA FindIs ==
  ASSUME NEW L \in Lists, NEW o \in Seq(1..Len(L)), NEW x \in 0..Len(L), NEW n
  PROVE  FindIn(L, o, x, n) \in 0..Len(L)
<1>1. Len(L) \in Nat
  BY ListIs
<1>2. PICK m \in Nat : m = Len(L)
  BY <1>1
<1>3. PICK s : s = IF x \in {None, 1} THEN o ELSE L[x].nested
  OBVIOUS
<1>4. s \in Seq(1..m)
  <2>1. x \notin {None, 1} => x \in 1..Len(L)
    BY <1>1 DEF None
  <2>2. QED
    BY <1>2, <1>3, <2>1, ListIs
<1>5. FoundFirst(L, s, n)
  BY <1>4, CalledFirst
<1>6. FindIn(L, o, x, n) = Called(L, s, n)
  BY <1>3 DEF FindIn
<1>7. Called(L, s, n) \in 0..m
  <2>1. CASE Called(L, s, n) = None
    BY <1>2, <2>1 DEF None
  <2>2. CASE Called(L, s, n) # None
    <3>1. PICK i \in 1..Len(s) : Called(L, s, n) = s[i]
      BY <1>5, <2>2 DEF FoundFirst
    <3>2. s[i] \in 1..m
      BY <1>4
    <3>3. QED
      BY <1>2, <3>1, <3>2
  <2>3. QED
    BY <2>1, <2>2
<1>8. QED
  BY <1>2, <1>6, <1>7

LEMMA WalkIs ==
  ASSUME nps \in Lists, outer \in Seq(1..Len(nps)), NEW from \in 0..Len(nps), NEW path, Len(path) \in Nat
  PROVE  /\ Walks(Walk(from, path), nps, outer, from, path)
         /\ \A k \in 0..Len(path) : Walk(from, path)[k] \in 0..Len(nps)
<1> DEFINE n == Len(path)
           S == 0..Len(nps)
           From(f) == [k \in 0..n |-> IF k = 0 THEN from ELSE get_np(f[k - 1], path[k])]
           F == CHOOSE f : f = From(f)
<1>1. Walk(from, path) = F
  BY DEF Walk
<1>2. n \in Nat /\ from \in S /\ Len(nps) \in Nat
  BY ListIs
<1>3. ASSUME NEW x PROVE \A m : get_np(x, m) = FindIn(nps, outer, x, m)
  BY DEF get_np, FindIn, Called
<1>4. ASSUME NEW k \in 1..n, NEW x \in S PROVE get_np(x, path[k]) \in S
  BY <1>3, FindIs
<1> HIDE DEF n, S
<1>5. F = From(F)
  <2> DEFINE h == [k \in 1..n |-> [s \in S |-> get_np(s, path[k])]]
  <2>1. h \in [1..n -> [S -> S]]
    BY <1>4
  <2>2. \A k \in 1..n, s \in S : h[k][s] = get_np(s, path[k])
    OBVIOUS
  <2> HIDE DEF h
  <2>3. PICK f \in [0..n -> S] : Follows(f, n, from, h)
    BY <1>2, <2>1, Recursion
  <2>4. \A i \in 0..n : f[i] = From(f)[i]
    <3>1. ASSUME NEW i \in 1..n PROVE f[i] = From(f)[i]
      <4>1. f[i - 1] \in S
        BY <1>2
      <4>2. f[i] = get_np(f[i - 1], path[i])
        BY <2>2, <2>3, <4>1 DEF Follows
      <4>3. QED
        BY <4>2
    <3>2. f[0] = From(f)[0]
      BY <1>2, <2>3 DEF Follows
    <3>3. \A i \in 0..n : i = 0 \/ i \in 1..n
      BY <1>2
    <3> HIDE DEF From
    <3>4. QED
      BY <3>1, <3>2, <3>3
  <2>5. f = From(f)
    BY <2>4
  <2> HIDE DEF From
  <2>6. QED
    BY <2>5
<1> HIDE DEF F
<1>6. F[0] = from /\ \A k \in 1..n : F[k] = get_np(F[k - 1], path[k])
  <2> DEFINE g == From(F)
  <2>1. g[0] = from /\ \A k \in 1..n : g[k] = get_np(F[k - 1], path[k])
    BY <1>2
  <2>2. F = g
    BY <1>5
  <2> HIDE DEF g
  <2>3. QED
    BY <2>1, <2>2
<1> HIDE DEF From
<1> DEFINE G == {i \in 0..n : F[i] \in S}
<1>7. 0 \in G
  BY <1>2, <1>6
<1>8. \A i \in 1..n : i - 1 \in G => i \in G
  <2> SUFFICES ASSUME NEW i \in 1..n, i - 1 \in G PROVE F[i] \in S
    OBVIOUS
  <2>1. F[i - 1] \in S
    OBVIOUS
  <2>2. get_np(F[i - 1], path[i]) \in S
    BY <1>4, <2>1
  <2>3. QED
    BY <1>6, <2>2
<1> HIDE DEF G
<1>9. \A i \in 0..n : i \in G
  BY <1>2, <1>7, <1>8, Induct, Zenon
<1>10. \A i \in 0..n : F[i] \in S
  BY <1>9 DEF G
<1>11. Walks(F, nps, outer, from, path)
  BY <1>3, <1>6 DEF Walks, n
<1>12. QED
  BY <1>1, <1>10, <1>11 DEF n, S

LEMMA ByName ==
  ASSUME nps \in Lists, outer \in Seq(1..Len(nps)), NEW from \in 0..Len(nps), NEW path, Len(path) \in Nat \ {0}
  PROVE  /\ get_np_by_name(from, path) \in 0..Len(nps)
         /\ \A np : from = None /\ LeadsTo(nps, outer, path, np) => get_np_by_name(None, path) = np
<1>1. PICK f : f = Walk(from, path)
  OBVIOUS
<1>2. Walks(f, nps, outer, from, path) /\ \A k \in 0..Len(path) : f[k] \in 0..Len(nps)
  BY <1>1, WalkIs
<1>3. get_np_by_name(from, path) = IF \E k \in 1..Len(path) : f[k] = None THEN None ELSE f[Len(path)]
  BY <1>1 DEF get_np_by_name
<1>4. get_np_by_name(from, path) \in 0..Len(nps)
  <2>1. 0 \in 0..Len(nps) /\ Len(path) \in 0..Len(path)
    BY ListIs
  <2>2. QED
    BY <1>2, <1>3, <2>1 DEF None
<1>5. ASSUME NEW np, from = None, LeadsTo(nps, outer, path, np) PROVE get_np_by_name(None, path) = np
  <2>1. PICK w : /\ Walks(w, nps, outer, None, path) /\ w[Len(path)] = np
                 /\ \A k \in 1..Len(path) : w[k] \in 1..Len(nps)
    BY <1>5 DEF LeadsTo
  <2> DEFINE n == Len(path)
             G == {k \in 0..n : f[k] = w[k]}
  <2>2. n \in Nat \ {0}
    OBVIOUS
  <2>3. 0 \in G
    BY <1>2, <1>5, <2>1 DEF Walks
  <2>4. \A k \in 1..n : k - 1 \in G => k \in G
    <3> SUFFICES ASSUME NEW k \in 1..n, f[k - 1] = w[k - 1] PROVE f[k] = w[k]
      OBVIOUS
    <3>1. QED
      BY <1>2, <2>1 DEF Walks
  <2> HIDE DEF G, n
  <2>5. \A k \in 0..n : k \in G
    BY <2>2, <2>3, <2>4, Induct, Zenon
  <2>6. \A k \in 1..n : f[k] = w[k] /\ f[k] # None
    <3>1. \A k \in 1..n : k \in 0..n /\ w[k] # 0
      BY <2>1, <2>2 DEF n
    <3>2. QED
      BY <2>5, <3>1 DEF G, None
  <2>7. n \in 1..n
    BY <2>2
  <2>8. QED
    BY <1>3, <1>5, <2>1, <2>6, <2>7 DEF n
<1>6. QED
  BY <1>4, <1>5

\* What a name leads to does not change when the lists get longer.
Extends(L, o, M, q) ==
  /\ Len(L) <= Len(M)
  /\ \A p \in 1..Len(L) :
       /\ M[p].name = L[p].name
       /\ Len(L[p].nested) <= Len(M[p].nested)
       /\ \A i \in 1..Len(L[p].nested) : M[p].nested[i] = L[p].nested[i]
  /\ Len(o) <= Len(q)
  /\ \A i \in 1..Len(o) : q[i] = o[i]

Prolongs(L, M, m, s, u) ==
  /\ \A p \in 1..m : M[p].name = L[p].name
  /\ Len(s) <= Len(u) /\ \A i \in 1..Len(s) : u[i] = s[i]

LEMMA CalledStays ==
  ASSUME NEW L, NEW M, NEW m \in Nat, NEW r \in Nat, NEW s \in Seq(1..m), NEW u \in Seq(1..r), NEW n,
         Prolongs(L, M, m, s, u), Called(L, s, n) # None
  PROVE  Called(M, u, n) = Called(L, s, n)
<1>0. /\ \A p \in 1..m : M[p].name = L[p].name
      /\ Len(s) <= Len(u) /\ \A i \in 1..Len(s) : u[i] = s[i]
  BY DEF Prolongs
<1>1. FoundFirst(L, s, n)
  BY CalledFirst
<1>2. PICK i \in 1..Len(s) : L[s[i]].name = n /\ Called(L, s, n) = s[i] /\ \A j \in 1..(i - 1) : L[s[j]].name # n
  BY <1>1 DEF FoundFirst
<1>3. FoundFirst(M, u, n)
  BY CalledFirst
<1>4. \A j \in 1..Len(s) : u[j] = s[j] /\ M[u[j]].name = L[s[j]].name
  <2>1. \A j \in 1..Len(s) : s[j] \in 1..m
    OBVIOUS
  <2>2. QED
    BY <1>0, <2>1
<1>5. Len(s) \in Nat /\ Len(u) \in Nat
  OBVIOUS
<1>6. i \in 1..Len(u) /\ M[u[i]].name = n
  BY <1>0, <1>2, <1>4, <1>5, SMTT(30)
<1>7. PICK j \in 1..Len(u) : M[u[j]].name = n /\ Called(M, u, n) = u[j] /\ \A k \in 1..(j - 1) : M[u[k]].name # n
  BY <1>3, <1>6 DEF FoundFirst
<1>8. ~(i < j)
  <2>1. i < j => i \in 1..(j - 1)
    BY <1>5
  <2>2. QED
    BY <1>6, <1>7, <2>1
<1>9. j \in 1..Len(s)
  BY <1>5, <1>8
<1>10. ~(j < i)
  <2>1. j < i => j \in 1..(i - 1)
    BY <1>5
  <2>2. L[s[j]].name = n
    BY <1>4, <1>7, <1>9
  <2>3. QED
    BY <1>2, <2>1, <2>2
<1>11. i = j
  BY <1>5, <1>8, <1>10
<1>12. QED
  BY <1>2, <1>4, <1>7, <1>11

LEMMA FindStays ==
  ASSUME NEW L \in Lists, NEW M \in Lists, NEW o \in Seq(1..Len(L)), NEW q \in Seq(1..Len(M)),
         Extends(L, o, M, q), NEW x \in 0..Len(L), NEW n, FindIn(L, o, x, n) # None
  PROVE  FindIn(M, q, x, n) = FindIn(L, o, x, n)
<1>1. PICK m \in Nat : m = Len(L)
  BY ListIs
<1>2. PICK r \in Nat : r = Len(M)
  BY ListIs
<1>3. m <= r /\ \A p \in 1..m : M[p].name = L[p].name
  BY <1>1, <1>2 DEF Extends
<1>4. PICK s : s = IF x \in {None, 1} THEN o ELSE L[x].nested
  OBVIOUS
<1>5. PICK u : u = IF x \in {None, 1} THEN q ELSE M[x].nested
  OBVIOUS
<1>6. x \notin {None, 1} => x \in 1..Len(L) /\ x \in 1..Len(M)
  BY <1>1, <1>2, <1>3 DEF None
<1>7. s \in Seq(1..m) /\ u \in Seq(1..r)
  BY <1>1, <1>2, <1>4, <1>5, <1>6, ListIs
<1>8. Len(s) <= Len(u) /\ \A i \in 1..Len(s) : u[i] = s[i]
  BY <1>4, <1>5, <1>6 DEF Extends
<1>9. FindIn(L, o, x, n) = Called(L, s, n)
  BY <1>4 DEF FindIn
<1>10. FindIn(M, q, x, n) = Called(M, u, n)
  BY <1>5 DEF FindIn
<1>11. Called(L, s, n) # None
  BY <1>9
<1>12. Called(M, u, n) = Called(L, s, n)
  <2>1. Prolongs(L, M, m, s, u)
    BY <1>3, <1>8 DEF Prolongs
  <2>2. QED
    BY <1>7, <1>11, <2>1, CalledStays
<1>13. QED
  BY <1>9, <1>10, <1>12

LEMMA LeadsStay ==
  ASSUME NEW L \in Lists, NEW M \in Lists, NEW o \in Seq(1..Len(L)), NEW q \in Seq(1..Len(M)),
         Extends(L, o, M, q), NEW path, Len(path) \in Nat, NEW np, LeadsTo(L, o, path, np)
  PROVE  LeadsTo(M, q, path, np)
<1>1. PICK w : /\ Walks(w, L, o, None, path) /\ w[Len(path)] = np
               /\ \A k \in 1..Len(path) : w[k] \in 1..Len(L)
  BY DEF LeadsTo
<1>2. Len(L) \in Nat /\ Len(M) \in Nat /\ Len(L) <= Len(M)
  BY ListIs DEF Extends
<1>3. \A k \in 1..Len(path) : w[k] \in 1..Len(M)
  BY <1>1, <1>2
<1>4. ASSUME NEW k \in 1..Len(path) PROVE w[k] = FindIn(M, q, w[k - 1], path[k])
  <2>1. w[k - 1] \in 0..Len(L)
    <3>1. k - 1 = 0 \/ k - 1 \in 1..Len(path)
      OBVIOUS
    <3>2. QED
      BY <1>1, <1>2, <3>1 DEF Walks, None
  <2>2. PICK x \in 0..Len(L) : x = w[k - 1]
    BY <2>1
  <2>3. PICK n : n = path[k]
    OBVIOUS
  <2>4. w[k] = FindIn(L, o, x, n) /\ w[k] # None
    <3>1. w[k] # 0
      BY <1>1, <1>2
    <3>2. QED
      BY <1>1, <2>2, <2>3, <3>1 DEF Walks, None
  <2>5. FindIn(M, q, x, n) = FindIn(L, o, x, n)
    BY <2>4, FindStays
  <2>6. QED
    BY <2>2, <2>3, <2>4, <2>5
<1>5. Walks(w, M, q, None, path)
  BY <1>1, <1>4 DEF Walks
<1>6. QED
  BY <1>1, <1>3, <1>5 DEF LeadsTo

LEMMA WrittenStay ==
  ASSUME NEW L \in Lists, NEW M \in Lists, NEW o \in Seq(1..Len(L)), Alike(L, M), WrittenLeads(L, o)
  PROVE  WrittenLeads(M, o)
<1>1. Len(M) = Len(L)
  BY DEF Alike
<1>2. Extends(L, o, M, o)
  <2>1. \A p \in 1..Len(L) : Len(L[p].nested) \in Nat
    BY ListIs
  <2>2. Len(L) \in Nat /\ Len(o) \in Nat
    BY ListIs
  <2>3. QED
    BY <2>1, <2>2 DEF Extends, Alike
<1>3. ASSUME NEW np \in 1..Len(M) PROVE LeadsTo(M, o, M[np].written, np)
  <2>1. PICK path \in Seq(Words) : path = L[np].written
    BY <1>1, ListIs
  <2>2. LeadsTo(L, o, path, np)
    BY <1>1, <2>1 DEF WrittenLeads
  <2>3. LeadsTo(M, o, path, np)
    BY <1>1, <1>2, <2>2, LeadsStay
  <2>4. M[np].written = path
    BY <1>1, <2>1 DEF Alike
  <2>5. QED
    BY <2>3, <2>4
<1>4. QED
  BY <1>3 DEF WrittenLeads

-----------------------------------------------------------------------------
(* Where names behind an access lead.                                      *)

LEMMA AliasIs ==
  ASSUME Typed, NEW n
  PROVE  /\ AliasDepth(n) \in 0..Len(scopes)
         /\ AliasDepth(n) # 0 => n \in DOMAIN scopes[AliasDepth(n)].aliases
                                 /\ scopes[AliasDepth(n)].aliases[n] \in 1..Len(nps)
<1> DEFINE S == {d \in DOMAIN scopes : n \in DOMAIN scopes[d].aliases}
<1>1. DOMAIN scopes = 1..Len(scopes) /\ Len(scopes) \in Nat
      /\ \A d \in 1..Len(scopes) : scopes[d].aliases \in AliasTables(Len(nps))
  <2>1. scopes \in Seq(Scope(Len(nps)))
    BY DEF Typed
  <2>2. \A d \in 1..Len(scopes) : scopes[d] \in Scope(Len(nps))
    BY <2>1
  <2>3. QED
    BY <2>1, <2>2 DEF Scope
<1>2. S = {} => AliasDepth(n) = 0
  BY DEF AliasDepth
<1>3. S # {} => AliasDepth(n) \in S
  <2> SUFFICES ASSUME S # {} PROVE AliasDepth(n) \in S
    OBVIOUS
  <2> DEFINE B == {Len(scopes) - d : d \in S}
  <2>1. B \in SUBSET Nat /\ B # {}
    BY <1>1
  <2>2. PICK b \in B : \A c \in B : b <= c
    <3> HIDE DEF B
    <3>1. QED
      BY <2>1, Least
  <2>3. PICK d \in S : b = Len(scopes) - d
    OBVIOUS
  <2>4. \A e \in S : Len(scopes) - d <= Len(scopes) - e
    BY <2>2, <2>3
  <2>5. \A e \in S : e <= d
    BY <1>1, <2>4
  <2>6. AliasDepth(n) = CHOOSE x \in S : \A e \in S : e <= x
    BY DEF AliasDepth
  <2> HIDE DEF S
  <2>7. QED
    BY <2>5, <2>6
<1>4. CASE S = {}
  BY <1>1, <1>2, <1>4
<1>5. CASE S # {}
  <2>1. PICK d \in 1..Len(scopes) : d = AliasDepth(n) /\ n \in DOMAIN scopes[d].aliases
    BY <1>1, <1>3, <1>5
  <2>2. PICK D : scopes[d].aliases \in [D -> 1..Len(nps)]
    BY <1>1, <2>1 DEF AliasTables
  <2>3. scopes[d].aliases[n] \in 1..Len(nps)
    BY <2>1, <2>2
  <2>4. d \in 0..Len(scopes)
    BY <1>1
  <2>5. QED
    BY <2>1, <2>3, <2>4
<1>6. QED
  BY <1>4, <1>5

-----------------------------------------------------------------------------
(* One lemma per action.                                                   *)

Ready == FaultsLeftOut /\ Typed /\ NamesInv /\ WrittenLeads(nps, outer)
Kept == Typed' /\ (Going' => NamesInv' /\ WrittenLeads(nps', outer'))

LEMMA NotMet ==
  ASSUME FaultsLeftOut, Going'
  PROVE  {"unset-entry", "block-prefix", "tag-unprefixed", "missing-parent", "global-child"} \cap met' = {}
BY DEF FaultsLeftOut, Going

LEMMA IdentIs ==
  ASSUME NEW id \in Idents
  PROVE  id \in Seq(Atoms)
BY NamesAssumption DEF NamesAssumption

LEMMA ContainsReads ==
  ASSUME NEW np, NEW nq, np.entries = nq.entries, NEW n, NEW b
  PROVE  np_contains(np, n, b) = np_contains(nq, n, b)
BY DEF np_contains

LEMMA BindsKept ==
  ASSUME Ready,
         NEW id \in Seq(Atoms), NEW n \in Seq(Atoms), NEW e \in Nat \ {0}, NEW x \in Int \ {0}, NEW b \in BOOLEAN,
         Bound(id, n, e, b), InFileOnly(Listed(id, x, b)),
         symbols' \in Tables, made' \in Seq(Kinds),
         Going' => Binds(id, n, e, x, b)
  PROVE  Kept
<1>1. Typed /\ NamesInv /\ WrittenLeads(nps, outer) /\ nps \in Lists /\ outer \in Seq(1..Len(nps))
  BY DEF Ready, Typed
<1>2. Typed' /\ Alike(nps, nps') /\ outer' = outer
  BY <1>1, BindsTypes
<1>3. Going' => NamesInv'
  BY <1>1, BindsInv
<1>4. WrittenLeads(nps', outer')
  <2>1. PICK M \in Lists : M = nps' /\ Alike(nps, M)
    BY <1>2 DEF Typed
  <2>2. WrittenLeads(M, outer)
    BY <1>1, <2>1, WrittenStay
  <2>3. QED
    BY <1>2, <2>1, <2>2
<1>5. QED
  BY <1>2, <1>3, <1>4 DEF Kept

LEMMA NewIs ==
  ASSUME Typed, NEW kind \in Kinds
  PROVE  New \in Nat \ {0} /\ Append(made, kind) \in Seq(Kinds)
BY DEF Typed, New

LEMMA SymbolIs ==
  ASSUME Typed, NEW n \in Seq(Atoms), NEW kind \in {"var", "func"}, Symbol(n, kind)
  PROVE  symbols' \in Tables /\ made' \in Seq(Kinds) /\ ObjectOf(n) \in Nat \ {0}
<1>1. symbols \in Tables /\ kind \in Kinds /\ "again" \in Kinds
  BY DEF Typed, Kinds
<1>2. New \in Nat \ {0} /\ Append(made, kind) \in Seq(Kinds) /\ Append(made, "again") \in Seq(Kinds)
  BY <1>1, NewIs
<1>3. CASE n \in DOMAIN symbols
  <2>1. symbols' = symbols /\ made' = Append(made, "again")
    BY <1>3 DEF Symbol
  <2>2. ObjectOf(n) = symbols[n]
    BY <1>3 DEF ObjectOf
  <2>3. QED
    BY <1>1, <1>2, <1>3, <2>1, <2>2, TableIs
<1>4. CASE n \notin DOMAIN symbols
  <2>1. symbols' = Put(symbols, n, New) /\ made' = Append(made, kind)
    BY <1>4 DEF Symbol, Made
  <2>2. ObjectOf(n) = New
    BY <1>4 DEF ObjectOf
  <2>3. Put(symbols, n, New) \in Tables
    BY <1>1, <1>2, PutIs
  <2>4. QED
    BY <1>2, <2>1, <2>2, <2>3
<1>5. QED
  BY <1>3, <1>4

LEMMA GetIs ==
  ASSUME NEW t \in Tables, NEW n
  PROVE  /\ Get(t, n) = None <=> n \notin DOMAIN t
         /\ n \in DOMAIN t => Get(t, n) = t[n] /\ t[n] \in Nat \ {0}
<1>1. n \in DOMAIN t => t[n] \in Nat \ {0}
  BY TableIs
<1>2. QED
  BY <1>1 DEF Get, None

LEMMA LastIs ==
  ASSUME Typed
  PROVE  /\ Last(scopes).vars \in Tables /\ Last(scopes).tags \in Tables
         /\ InFile => Last(scopes).vars = Table(1, FALSE) /\ Last(scopes).tags = Table(1, TRUE)
<1>1. Len(scopes) \in Nat \ {0} /\ Last(scopes) = scopes[Len(scopes)] /\ scopes[Len(scopes)] \in Scope(Len(nps))
  BY ScopesAre
<1>2. Last(scopes).vars \in Tables /\ Last(scopes).tags \in Tables
  BY <1>1 DEF Scope
<1>3. InFile => Last(scopes).vars = Table(1, FALSE) /\ Last(scopes).tags = Table(1, TRUE)
  BY <1>1 DEF InFile, Table
<1>4. QED
  BY <1>2, <1>3

LEMMA SetIfNotMet ==
  ASSUME NEW list \in Lists, InFile, "unset-entry" \notin GvarMet(list)
  PROVE  AllSet(list)
<1> SUFFICES ASSUME NEW p \in 1..Len(list), NEW i \in 1..Len(list[p].entries)
             PROVE  np_contains(list[p], list[p].entries[i].name, list[p].entries[i].is_tag) # Dangling
  BY DEF AllSet
<1>1. DOMAIN list = 1..Len(list) /\ list[p].entries \in Seq(Entry)
  BY ListIs
<1>2. PICK np : np = list[p]
  OBVIOUS
<1>3. PICK e : e = np.entries[i]
  OBVIOUS
<1>4. np \in Range(list)
  BY <1>1, <1>2 DEF Range
<1>5. e \in Range(np.entries)
  BY <1>1, <1>2, <1>3 DEF Range
<1>6. ~\E z \in Range(list) : \E y \in Range(z.entries) : np_contains(z, y.name, y.is_tag) = Dangling
  BY DEF GvarMet
<1>7. np_contains(np, e.name, e.is_tag) # Dangling
  BY <1>4, <1>5, <1>6
<1>8. QED
  BY <1>2, <1>3, <1>7

\* What an object found or made is entered as.
Entered(n, obj) == IF Get(Last(scopes).vars, n) = None THEN obj ELSE Dangling

LEMMA EnteredIs ==
  ASSUME Typed, NEW n \in Seq(Atoms), NEW obj \in Nat \ {0}, Accepts(n, obj)
  PROVE  /\ Entered(n, obj) \in {obj, Dangling} /\ Entered(n, obj) \in Int \ {0}
         /\ InFile => IF n \in DOMAIN Table(1, FALSE) THEN Table(1, FALSE)[n] = obj ELSE Entered(n, obj) = obj
<1>1. PICK t \in Tables : t = Last(scopes).vars /\ (InFile => t = Table(1, FALSE))
  BY LastIs
<1>2. Entered(n, obj) \in {obj, Dangling}
  BY DEF Entered
<1>3. Get(t, n) \in {None, obj}
  BY <1>1 DEF Accepts
<1>4. Entered(n, obj) = IF n \notin DOMAIN t THEN obj ELSE Dangling
  BY <1>1, GetIs DEF Entered
<1>5. n \in DOMAIN t => t[n] = obj
  <2>1. n \in DOMAIN t => Get(t, n) = t[n] /\ Get(t, n) # None
    BY GetIs
  <2>2. QED
    BY <1>3, <2>1
<1>6. obj \in Int \ {0} /\ Dangling \in Int \ {0}
  BY DEF Dangling
<1>7. QED
  BY <1>1, <1>2, <1>4, <1>5, <1>6

LEMMA GvarKept ==
  ASSUME Ready, NEW id \in Seq(Atoms), NEW obj \in Nat \ {0}, push_gvar_name(id, obj),
         symbols' \in Tables, made' \in Seq(Kinds)
  PROVE  Kept
<1>1. Typed /\ FaultsLeftOut
  BY DEF Ready
<1>2. PICK n \in Seq(Atoms) : n = NameInScope(id) /\ n = IF InFile THEN get_prefixed_ident(id) ELSE id
  BY <1>1, PrefixedIs DEF NameInScope
<1>3. PICK x : x = Entered(n, obj)
  OBVIOUS
<1>4. PICK list : list = Listed(id, x, FALSE)
  OBVIOUS
<1>5. /\ Accepts(n, obj) /\ Bound(id, n, obj, FALSE) /\ InFileOnly(list)
      /\ met' = met \cup GvarMet(list)
  BY <1>2, <1>3, <1>4 DEF push_gvar_name, GvarListed, Entered
<1>6. /\ x \in {obj, Dangling} /\ x \in Int \ {0}
      /\ InFile => IF n \in DOMAIN Table(1, FALSE) THEN Table(1, FALSE)[n] = obj ELSE x = obj
  BY <1>1, <1>3, <1>5, EnteredIs
<1>7. list \in Lists
  BY <1>1, <1>4, <1>6, ListedGrows
<1>8. ASSUME Going', InFile PROVE AllSet(nps')
  <2>1. "unset-entry" \notin GvarMet(list)
    BY <1>1, <1>5, <1>8, NotMet
  <2>2. AllSet(list)
    BY <1>7, <1>8, <2>1, SetIfNotMet
  <2>3. nps' = list
    BY <1>5, <1>8 DEF InFileOnly
  <2>4. QED
    BY <2>2, <2>3
<1>9. Going' => Binds(id, n, obj, x, FALSE)
  BY <1>2, <1>4, <1>5, <1>6, <1>8 DEF Binds
<1>10. QED
  BY <1>4, <1>5, <1>6, <1>9, BindsKept

LEMMA DeclareVarKept ==
  ASSUME Ready, NEW id \in Seq(Atoms), NEW is_extern, DeclareVar(id, is_extern)
  PROVE  Kept
<1>1. Typed
  BY DEF Ready
<1>2. PICK n \in Seq(Atoms) : n = NameInScope(id)
  BY <1>1, PrefixedIs DEF NameInScope
<1>3. Symbol(n, "var") /\ push_gvar_name(id, ObjectOf(n))
  BY <1>2 DEF DeclareVar
<1>4. symbols' \in Tables /\ made' \in Seq(Kinds) /\ ObjectOf(n) \in Nat \ {0}
  BY <1>1, <1>3, SymbolIs
<1>5. QED
  BY <1>3, <1>4, GvarKept

LEMMA DeclareFuncKept ==
  ASSUME Ready, NEW id \in Seq(Atoms), DeclareFunc(id)
  PROVE  Kept
<1>1. Typed
  BY DEF Ready
<1>2. PICK n \in Seq(Atoms) : n = get_prefixed_ident(id)
  BY <1>1, PrefixedIs
<1>3. Symbol(n, "func") /\ push_gvar_name(id, ObjectOf(n))
  BY <1>2 DEF DeclareFunc, func_prototype
<1>4. symbols' \in Tables /\ made' \in Seq(Kinds) /\ ObjectOf(n) \in Nat \ {0}
  BY <1>1, <1>3, SymbolIs
<1>5. QED
  BY <1>3, <1>4, GvarKept

\* In a block that no fault is met in, a name is bound as written.
LEMMA BlockName ==
  ASSUME Typed, FaultsLeftOut, Going', met' = met \cup BlockPrefix, ~InFile, NEW id \in Seq(Atoms)
  PROVE  get_prefixed_ident(id) = id
<1>1. "block-prefix" \notin met'
  BY NotMet
<1>2. ~Unit
  BY <1>1 DEF BlockPrefix
<1>3. Applied \in {None, 1}
  BY <1>2 DEF Unit
<1>4. QED
  BY <1>3, PrefixedIs

LEMMA TypedefKept ==
  ASSUME Ready, NEW id \in Seq(Atoms), parse_typedef(id)
  PROVE  Kept
<1>1. Typed /\ FaultsLeftOut
  BY DEF Ready
<1>2. PICK n \in Seq(Atoms) : n = get_prefixed_ident(id)
  BY <1>1, PrefixedIs
<1>3. PICK t \in Tables : t = Last(scopes).vars /\ (InFile => t = Table(1, FALSE))
  BY <1>1, LastIs
<1>4. PICK e : e = IF Get(t, n) = None THEN New ELSE Get(t, n)
  OBVIOUS
<1>5. /\ Bound(id, n, e, FALSE) /\ InFileOnly(Listed(id, e, FALSE))
      /\ \E kind \in {"typedef", "again"} : made' = Append(made, kind)
      /\ met' = met \cup BlockPrefix /\ symbols' = symbols
  BY <1>2, <1>3, <1>4 DEF parse_typedef, Made
<1>6. e \in Nat \ {0} /\ (n \in DOMAIN t => t[n] = e)
  <2>1. "typedef" \in Kinds
    BY DEF Kinds
  <2>2. New \in Nat \ {0}
    BY <1>1, <2>1, NewIs
  <2>3. QED
    BY <1>4, <2>2, GetIs
<1>7. e \in Int \ {0}
  BY <1>6
<1>8. made' \in Seq(Kinds) /\ symbols' \in Tables
  <2>1. "typedef" \in Kinds /\ "again" \in Kinds
    BY DEF Kinds
  <2>2. QED
    BY <1>1, <1>5, <2>1, NewIs DEF Typed
<1>9. Going' => n = IF InFile THEN get_prefixed_ident(id) ELSE id
  BY <1>1, <1>2, <1>5, BlockName
<1>10. Going' => Binds(id, n, e, e, FALSE)
  BY <1>3, <1>5, <1>6, <1>9 DEF Binds
<1>11. QED
  BY <1>5, <1>6, <1>7, <1>8, <1>10, BindsKept

LEMMA EnumKept ==
  ASSUME Ready, NEW id \in Seq(Atoms), enum_specifier(id)
  PROVE  Kept
<1>1. Typed /\ FaultsLeftOut
  BY DEF Ready
<1>2. PICK n \in Seq(Atoms) : n = get_prefixed_ident(id)
  BY <1>1, PrefixedIs
<1>3. PICK t \in Tables : t = Last(scopes).vars /\ (InFile => t = Table(1, FALSE))
  BY <1>1, LastIs
<1>4. "enum" \in Kinds
  BY DEF Kinds
<1>5. PICK e \in Nat \ {0} : e = New
  BY <1>1, <1>4, NewIs
<1>6. /\ n \notin DOMAIN t /\ Bound(id, n, e, FALSE) /\ InFileOnly(Listed(id, e, FALSE))
      /\ made' = Append(made, "enum")
      /\ met' = met \cup BlockPrefix /\ symbols' = symbols
  BY <1>2, <1>3, <1>5 DEF enum_specifier, Made
<1>7. made' \in Seq(Kinds) /\ symbols' \in Tables
  BY <1>1, <1>4, <1>6, NewIs DEF Typed
<1>8. Going' => n = IF InFile THEN get_prefixed_ident(id) ELSE id
  BY <1>1, <1>2, <1>6, BlockName
<1>9. Going' => Binds(id, n, e, e, FALSE)
  BY <1>3, <1>6, <1>8 DEF Binds
<1>10. e \in Int \ {0}
  BY <1>5
<1>11. QED
  BY <1>5, <1>6, <1>7, <1>9, <1>10, BindsKept

LEMMA LocalKept ==
  ASSUME Ready, NEW id \in Seq(Atoms), push_var_name(id)
  PROVE  Kept
<1>1. Typed
  BY DEF Ready
<1>2. "local" \in Kinds
  BY DEF Kinds
<1>3. PICK e \in Nat \ {0} : e = New
  BY <1>1, <1>2, NewIs
<1>4. /\ ~InFile /\ Bound(id, id, e, FALSE) /\ made' = Append(made, "local") /\ symbols' = symbols
      /\ nps' = nps /\ outer' = outer /\ npScopes' = npScopes
  BY <1>3 DEF push_var_name, Made, npVars
<1>5. made' \in Seq(Kinds) /\ symbols' \in Tables
  BY <1>1, <1>2, <1>4, NewIs DEF Typed
<1>6. InFileOnly(Listed(id, e, FALSE))
  BY <1>4 DEF InFileOnly
<1>7. Binds(id, id, e, e, FALSE)
  BY <1>4, <1>6 DEF Binds
<1>8. e \in Int \ {0}
  BY <1>3
<1>9. QED
  BY <1>3, <1>4, <1>5, <1>6, <1>7, <1>8, BindsKept

LEMMA EmptyIs ==
  ASSUME NEW m
  PROVE  /\ EmptyMap \in Seens /\ EmptyScope \in Scope(m) /\ Holds(EmptyMap, EmptyScope)
<1>1. PICK f : f = [x \in {} |-> None]
  OBVIOUS
<1>2. DOMAIN f = {} /\ \A R : f \in [{} -> R]
  BY <1>1
<1>3. f \in Tables /\ f \in Seens /\ f \in AliasTables(m)
  BY <1>2, Zenon DEF Tables, Seens, AliasTables
<1>4. EmptyMap = f /\ EmptyScope = [vars |-> f, tags |-> f, aliases |-> f]
  BY <1>1 DEF EmptyMap, EmptyScope
<1>5. EmptyScope \in Scope(m)
  BY <1>3, <1>4 DEF Scope
<1>6. \A c \in BOOLEAN : Of(EmptyScope, c) = f
  BY <1>4 DEF Of
<1>7. Holds(EmptyMap, EmptyScope)
  BY <1>2, <1>4, <1>6 DEF Holds
<1>8. QED
  BY <1>3, <1>4, <1>5, <1>7

LEMMA Pushed ==
  ASSUME NEW S, NEW s \in Seq(S), NEW e \in S
  PROVE  /\ Append(s, e) \in Seq(S) /\ Len(Append(s, e)) = Len(s) + 1 /\ Append(s, e)[Len(s) + 1] = e
         /\ \A i \in 1..Len(s) : Append(s, e)[i] = s[i]
OBVIOUS

LEMMA SameKept ==
  ASSUME Ready, UNCHANGED <<nps, outer, npScopes, scopes, seen, symbols>>, made' \in Seq(Kinds)
  PROVE  Kept
<1>1. Typed /\ Declared /\ AllSet(nps) /\ BlocksHold /\ WrittenLeads(nps, outer)
  BY DEF Ready, NamesInv
<1>2. Typed'
  BY <1>1 DEF Typed
<1>3. Declared'
  <2>1. \A b \in BOOLEAN : Table(1, b)' = Table(1, b)
    BY DEF Table
  <2>2. QED
    BY <1>1, <2>1 DEF Declared
<1>4. BlocksHold'
  BY <1>1 DEF BlocksHold
<1>5. QED
  BY <1>1, <1>2, <1>3, <1>4 DEF Kept, NamesInv

LEMMA TagKept ==
  ASSUME Ready, NEW id \in Seq(Atoms), NEW next, struct_tag(id, next)
  PROVE  Kept
<1>1. Typed /\ FaultsLeftOut
  BY DEF Ready
<1>2. PICK n \in Seq(Atoms) : n = NameInScope(id) /\ n = IF InFile THEN get_prefixed_ident(id) ELSE id
  BY <1>1, PrefixedIs DEF NameInScope
<1>3. PICK t \in Tables : t = Last(scopes).tags /\ (InFile => t = Table(1, TRUE))
  BY <1>1, LastIs
<1>4. PICK found : found = IF next \in {"{", ";"} THEN find_tag_in_scope(id) ELSE find_ident(id, TRUE)
  OBVIOUS
<1>5. "tag" \in Kinds /\ "again" \in Kinds
  BY DEF Kinds
<1>6. PICK e \in Nat \ {0} : e = New
  BY <1>1, <1>5, NewIs
<1>7. /\ made' = Append(made, IF found = None THEN "tag" ELSE "again") /\ symbols' = symbols
      /\ IF found = None THEN push_tag_scope(id, e) ELSE UNCHANGED <<npVars, scopes, seen>>
      /\ met' = met \cup {f \in {"tag-unprefixed"} :
                    found # Get(t, n) /\ (next \in {"{", ";"} \/ found = None)}
  BY <1>2, <1>3, <1>4, <1>6 DEF struct_tag, Made
<1>8. made' \in Seq(Kinds) /\ symbols' \in Tables
  <2>1. Append(made, "tag") \in Seq(Kinds) /\ Append(made, "again") \in Seq(Kinds)
    BY <1>1, <1>5, NewIs
  <2>2. QED
    BY <1>1, <1>7, <2>1 DEF Typed
<1>9. CASE found # None
  <2>1. UNCHANGED <<nps, outer, npScopes, scopes, seen, symbols>>
    BY <1>7, <1>9 DEF npVars
  <2>2. QED
    BY <1>8, <2>1, SameKept
<1>10. CASE found = None
  <2>1. Bound(id, n, e, TRUE) /\ InFileOnly(Listed(id, e, TRUE))
    BY <1>2, <1>7, <1>10 DEF push_tag_scope
  <2>2. ASSUME Going' PROVE n \notin DOMAIN t
    <3>1. "tag-unprefixed" \notin met'
      BY <1>1, <2>2, NotMet
    <3>2. Get(t, n) = None
      BY <1>7, <1>10, <3>1
    <3>3. QED
      BY <3>2, GetIs
  <2>3. Going' => Binds(id, n, e, e, TRUE)
    BY <1>2, <1>3, <2>1, <2>2 DEF Binds
  <2>4. e \in Int \ {0}
    BY <1>6
  <2>5. QED
    BY <1>6, <1>8, <2>1, <2>3, <2>4, BindsKept
<1>11. QED
  BY <1>9, <1>10

LEMMA FuncDefKept ==
  ASSUME Ready, NEW id \in Seq(Atoms), func_definition(id)
  PROVE  Kept
<1>1. Typed /\ FaultsLeftOut /\ NamesInv /\ WrittenLeads(nps, outer)
  BY DEF Ready
<1>2. PICK n \in Seq(Atoms) : n = get_prefixed_ident(id)
  BY <1>1, PrefixedIs
<1>3. Symbol(n, "func") /\ Accepts(n, ObjectOf(n)) /\ InFile
  BY <1>2 DEF func_definition
<1>4. symbols' \in Tables /\ made' \in Seq(Kinds) /\ ObjectOf(n) \in Nat \ {0}
  BY <1>1, <1>3, SymbolIs
<1>5. PICK fn \in Nat \ {0} : fn = ObjectOf(n)
  BY <1>4
<1>6. PICK x : x = Entered(n, fn)
  OBVIOUS
<1>7. PICK list : list = Listed(id, x, FALSE)
  OBVIOUS
<1>8. PICK s1 : s1 = scopes[1]
  OBVIOUS
<1>9. PICK t : t = Put(s1.vars, n, fn)
  OBVIOUS
<1>10. PICK s2 : s2 = [s1 EXCEPT !.vars = t]
  OBVIOUS
<1>11. /\ scopes' = <<s2, EmptyScope>> /\ seen' = Append(seen, EmptyMap)
       /\ InFileOnly(list) /\ met' = met \cup GvarMet(list)
  BY <1>2, <1>5, <1>6, <1>7, <1>8, <1>9, <1>10 DEF func_definition, GvarListed, Entered
<1>12. nps' = list /\ outer' = outer /\ npScopes' = npScopes
  BY <1>3, <1>11 DEF InFileOnly
<1>13. /\ x \in {fn, Dangling} /\ x \in Int \ {0}
       /\ IF n \in DOMAIN Table(1, FALSE) THEN Table(1, FALSE)[n] = fn ELSE x = fn
  BY <1>1, <1>3, <1>5, <1>6, EnteredIs
<1>14. list \in Lists /\ Alike(nps, list)
  BY <1>1, <1>7, <1>13, ListedGrows DEF Grown
<1>15. Len(list) = Len(nps) /\ Len(seen) = 1 /\ s1 \in Scope(Len(nps)) /\ seen \in Seq(Seens)
  BY <1>1, <1>3, <1>8, <1>14, ScopesAre DEF InFile, Alike, Typed
<1>16. s2 \in Scope(Len(nps)) /\ s2.vars = t /\ s2.tags = s1.tags
  <2>1. s1.vars \in Tables
    BY <1>15 DEF Scope
  <2>2. t \in Tables
    BY <1>9, <2>1, PutIs
  <2>3. QED
    BY <1>10, <1>15, <2>2 DEF Scope
<1>17. Typed'
  <2>1. PICK S : S = Scope(Len(nps))
    OBVIOUS
  <2>2. PICK s3 \in S : s3 = EmptyScope
    BY <2>1, EmptyIs
  <2>3. scopes' \in Seq(S) /\ Len(scopes') = 2 /\ scopes' # <<>>
    BY <1>11, <1>16, <2>1, <2>2
  <2>4. seen' \in Seq(Seens) /\ Len(seen') = 2
    <3>1. PICK g \in Seens : g = EmptyMap
      BY EmptyIs
    <3>2. seen' = Append(seen, g)
      BY <1>11, <3>1
    <3>3. seen \in Seq(Seens) /\ Len(seen) = 1
      BY <1>15
    <3>4. seen' \in Seq(Seens) /\ Len(seen') = Len(seen) + 1
      BY <3>2, <3>3, Pushed
    <3>5. QED
      BY <3>3, <3>4
  <2>5. outer \in Seq(1..Len(list)) /\ npScopes \in Seq(Scopes(Len(list))) /\ npScopes # <<>>
    BY <1>1, <1>15 DEF Typed
  <2>6. QED
    BY <1>4, <1>12, <1>14, <1>15, <2>1, <2>3, <2>4, <2>5 DEF Typed
<1>18. WrittenLeads(nps', outer')
  <2>1. nps \in Lists /\ outer \in Seq(1..Len(nps))
    BY <1>1 DEF Typed
  <2>2. WrittenLeads(list, outer)
    BY <1>1, <1>14, <2>1, WrittenStay
  <2>3. QED
    BY <1>12, <2>2
<1>19. ASSUME Going' PROVE NamesInv'
  <2>1. AllSet(nps')
    <3>1. "unset-entry" \notin GvarMet(list)
      BY <1>1, <1>11, <1>19, NotMet
    <3>2. QED
      BY <1>3, <1>12, <1>14, <3>1, SetIfNotMet
  <2>2. ASSUME NEW c \in BOOLEAN
        PROVE  Of(scopes'[1], c) = IF c = FALSE THEN Put(Of(scopes[1], c), n, fn) ELSE Of(scopes[1], c)
    <3>1. scopes'[1] = s2
      BY <1>11
    <3>2. CASE c
      BY <1>8, <1>16, <3>1, <3>2 DEF Of
    <3>3. CASE ~c
      BY <1>8, <1>9, <1>16, <3>1, <3>3 DEF Of
    <3>4. QED
      BY <3>2, <3>3
  <2>3. FileBinds(id, n, fn, x, FALSE)
    BY <1>2, <1>7, <1>12, <1>13, <2>2 DEF FileBinds
  <2>4. Declared'
    BY <1>1, <1>13, <2>1, <2>3, FileStep DEF NamesInv
  <2>5. BlocksHold'
    <3>1. Len(scopes') = 2 /\ scopes'[2] = EmptyScope
      BY <1>11
    <3>2. seen'[2] = EmptyMap
      <4>1. PICK g \in Seens : g = EmptyMap
        BY EmptyIs
      <4>2. seen' = Append(seen, g)
        BY <1>11, <4>1
      <4>3. seen \in Seq(Seens) /\ Len(seen) = 1
        BY <1>15
      <4>4. seen'[Len(seen) + 1] = g
        <5>1. Append(seen, g)[Len(seen) + 1] = g
          <6>1. PICK s \in Seq(Seens) : s = seen
            BY <4>3
          <6>2. Append(s, g)[Len(s) + 1] = g
            OBVIOUS
          <6>3. QED
            BY <6>1, <6>2
        <5>2. QED
          BY <4>2, <5>1
      <4>5. QED
        BY <4>1, <4>3, <4>4
    <3>3. Holds(seen'[2], scopes'[2])
      BY <3>1, <3>2, EmptyIs
    <3>4. \A d \in 2..Len(scopes') : d = 2
      BY <3>1
    <3>5. QED
      BY <3>3, <3>4 DEF BlocksHold
  <2>6. QED
    BY <2>1, <2>4, <2>5 DEF NamesInv
<1>20. QED
  BY <1>17, <1>18, <1>19 DEF Kept

\* Blocks below the current one, and a current one that holds what it declared.
LEMMA ScopesKept ==
  ASSUME Ready, UNCHANGED <<nps, outer, npScopes, symbols, made>>,
         scopes' \in Seq(Scope(Len(nps))), scopes' # <<>>, seen' \in Seq(Seens), Len(seen') = Len(scopes'),
         Of(scopes'[1], TRUE) = Of(scopes[1], TRUE), Of(scopes'[1], FALSE) = Of(scopes[1], FALSE),
         \A d \in 2..Len(scopes') : Holds(seen'[d], scopes'[d])
  PROVE  Kept
<1>1. Typed /\ Declared /\ AllSet(nps) /\ WrittenLeads(nps, outer)
  BY DEF Ready, NamesInv
<1>2. Typed'
  BY <1>1 DEF Typed
<1>3. \A b \in BOOLEAN : Table(1, b)' = Table(1, b)
  BY DEF Table, Of
<1>4. Declared'
  BY <1>1, <1>3 DEF Declared
<1>5. BlocksHold'
  BY DEF BlocksHold
<1>6. QED
  BY <1>1, <1>2, <1>4, <1>5 DEF Kept, NamesInv

LEMMA EnterKept ==
  ASSUME Ready, EnterBlock
  PROVE  Kept
<1>1. Typed /\ BlocksHold
  BY DEF Ready, NamesInv
<1>2. PICK S : S = Scope(Len(nps))
  OBVIOUS
<1>3. PICK s \in S : s = EmptyScope
  BY <1>2, EmptyIs
<1>4. PICK g \in Seens : g = EmptyMap
  BY EmptyIs
<1>5. /\ scopes' = Append(scopes, s) /\ seen' = Append(seen, g)
      /\ UNCHANGED <<nps, outer, npScopes, symbols, made>>
  BY <1>3, <1>4 DEF EnterBlock, enter_scope, npVars, declVars
<1>6. /\ scopes \in Seq(S) /\ Len(scopes) \in Nat \ {0} /\ seen \in Seq(Seens) /\ Len(seen) = Len(scopes)
  BY <1>1, <1>2, ScopesAre DEF Typed
<1>7. /\ scopes' \in Seq(S) /\ Len(scopes') = Len(scopes) + 1 /\ scopes'[Len(scopes) + 1] = s
      /\ \A d \in 1..Len(scopes) : scopes'[d] = scopes[d]
  BY <1>5, <1>6
<1>8. /\ seen' \in Seq(Seens) /\ Len(seen') = Len(scopes) + 1 /\ seen'[Len(scopes) + 1] = g
      /\ \A d \in 1..Len(scopes) : seen'[d] = seen[d]
  BY <1>5, <1>6
<1>9. ASSUME NEW d \in 2..Len(scopes') PROVE Holds(seen'[d], scopes'[d])
  <2>1. CASE d <= Len(scopes)
    <3>1. d \in 2..Len(scopes) /\ d \in 1..Len(scopes)
      BY <1>6, <2>1
    <3>2. QED
      BY <1>1, <1>7, <1>8, <3>1 DEF BlocksHold
  <2>2. CASE d > Len(scopes)
    <3>1. d = Len(scopes) + 1
      BY <1>6, <1>7, <2>2
    <3>2. QED
      BY <1>3, <1>4, <1>7, <1>8, <3>1, EmptyIs
  <2>3. QED
    BY <1>6, <2>1, <2>2
<1>10. scopes'[1] = scopes[1] /\ scopes' # <<>>
  <2>1. 1 \in 1..Len(scopes)
    BY <1>6
  <2>2. QED
    BY <1>6, <1>7, <2>1
<1>11. QED
  BY <1>2, <1>5, <1>7, <1>8, <1>9, <1>10, ScopesKept

LEMMA FrontIs ==
  ASSUME NEW S, NEW s \in Seq(S), Len(s) > 1
  PROVE  Front(s) \in Seq(S) /\ Len(Front(s)) = Len(s) - 1 /\ \A i \in 1..(Len(s) - 1) : Front(s)[i] = s[i]
<1>1. Front(s) = SubSeq(s, 1, Len(s) - 1) /\ Len(s) \in Nat
  BY DEF Front
<1>2. \A i \in 1..(Len(s) - 1) : s[i] \in S
  OBVIOUS
<1>3. QED
  BY <1>1, <1>2, SubSeqProperties

LEMMA LeaveKept ==
  ASSUME Ready, LeaveBlock
  PROVE  Kept
<1>1. Typed /\ BlocksHold
  BY DEF Ready, NamesInv
<1>2. PICK S : S = Scope(Len(nps))
  OBVIOUS
<1>3. /\ scopes' = Front(scopes) /\ seen' = Front(seen) /\ ~InFile
      /\ UNCHANGED <<nps, outer, npScopes, symbols, made>>
  BY DEF LeaveBlock, leave_scope, npVars, declVars
<1>4. /\ scopes \in Seq(S) /\ Len(scopes) \in Nat \ {0} /\ seen \in Seq(Seens) /\ Len(seen) = Len(scopes)
      /\ Len(scopes) > 1
  BY <1>1, <1>2, <1>3, ScopesAre DEF Typed, InFile
<1>5. scopes' \in Seq(S) /\ Len(scopes') = Len(scopes) - 1 /\ \A d \in 1..(Len(scopes) - 1) : scopes'[d] = scopes[d]
  BY <1>3, <1>4, FrontIs
<1>6. seen' \in Seq(Seens) /\ Len(seen') = Len(scopes) - 1 /\ \A d \in 1..(Len(scopes) - 1) : seen'[d] = seen[d]
  BY <1>3, <1>4, FrontIs
<1>7. \A d \in 2..Len(scopes') : Holds(seen'[d], scopes'[d])
  <2>1. \A d \in 2..Len(scopes') : d \in 2..Len(scopes) /\ d \in 1..(Len(scopes) - 1)
    BY <1>4, <1>5
  <2>2. QED
    BY <1>1, <1>5, <1>6, <2>1 DEF BlocksHold
<1>8. scopes'[1] = scopes[1] /\ scopes' # <<>>
  <2>1. 1 \in 1..(Len(scopes) - 1)
    BY <1>4
  <2>2. Len(scopes') # 0
    BY <1>4, <1>5
  <2>3. QED
    BY <1>5, <2>1, <2>2
<1>9. QED
  BY <1>2, <1>3, <1>5, <1>6, <1>7, <1>8, ScopesKept

-----------------------------------------------------------------------------
(* Prefixes opened and closed.                                             *)

LEMMA NpScopesKept ==
  ASSUME Ready, UNCHANGED <<nps, outer, scopes, seen, symbols, made>>,
         npScopes' \in Seq(Scopes(Len(nps))), npScopes' # <<>>
  PROVE  Kept
<1>1. Typed /\ Declared /\ AllSet(nps) /\ BlocksHold /\ WrittenLeads(nps, outer)
  BY DEF Ready, NamesInv
<1>2. Typed'
  BY <1>1 DEF Typed
<1>3. \A b \in BOOLEAN : Table(1, b)' = Table(1, b)
  BY DEF Table
<1>4. Declared' /\ BlocksHold'
  BY <1>1, <1>3 DEF Declared, BlocksHold
<1>5. QED
  BY <1>1, <1>2, <1>4 DEF Kept, NamesInv

LEMMA OpenKept ==
  ASSUME Ready, NEW is_capture \in BOOLEAN, NEW which \in Seq(1..Len(nps)), is_capture \/ which # <<>>,
         Open(is_capture, which)
  PROVE  Kept
<1>1. Typed
  BY DEF Ready
<1>2. PICK S : S = Scopes(Len(nps))
  OBVIOUS
<1>3. PICK new \in S : new = [is_capture |-> is_capture, nps |-> which]
  BY <1>2 DEF Scopes
<1>4. npScopes' = Append(npScopes, new) /\ UNCHANGED <<nps, outer, scopes, seen, symbols, made>>
  BY <1>3 DEF Open, declVars
<1>5. npScopes \in Seq(S)
  BY <1>1, <1>2 DEF Typed
<1>6. npScopes' \in Seq(S) /\ Len(npScopes') = Len(npScopes) + 1 /\ Len(npScopes) \in Nat
  BY <1>4, <1>5
<1>7. npScopes' # <<>>
  BY <1>6
<1>8. QED
  BY <1>2, <1>4, <1>6, <1>7, NpScopesKept

LEMMA CloseKept ==
  ASSUME Ready, CloseNp
  PROVE  Kept
<1>1. Typed
  BY DEF Ready
<1>2. PICK S : S = Scopes(Len(nps))
  OBVIOUS
<1>3. npScopes' = Front(npScopes) /\ Len(npScopes) > 1 /\ UNCHANGED <<nps, outer, scopes, seen, symbols, made>>
  BY DEF CloseNp, declVars
<1>4. npScopes \in Seq(S)
  BY <1>1, <1>2 DEF Typed
<1>5. npScopes' \in Seq(S) /\ Len(npScopes') = Len(npScopes) - 1 /\ Len(npScopes) \in Nat
  BY <1>3, <1>4, FrontIs
<1>6. npScopes' # <<>>
  BY <1>3, <1>5
<1>7. QED
  BY <1>2, <1>3, <1>5, <1>6, NpScopesKept

LEMMA PathIs ==
  ASSUME NEW path \in PathsUsed
  PROVE  path \in Seq(Range(path)) /\ Len(path) \in Nat \ {0}
<1>1. path \in Seq(Range(path)) /\ path # <<>>
  BY NamesAssumption DEF NamesAssumption
<1>2. QED
  BY <1>1

LEMMA OpenApplyKept ==
  ASSUME Ready, NEW path \in Paths, OpenApply(path)
  PROVE  Kept
<1>1. Typed /\ nps \in Lists /\ outer \in Seq(1..Len(nps)) /\ Len(nps) \in Nat
  BY ListIs DEF Ready, Typed
<1>2. Len(path) \in Nat \ {0}
  BY PathIs DEF PathsUsed
<1>3. PICK a \in 0..Len(nps) : a = Applied
  BY <1>1, AppliedIs
<1>4. PICK np : np = get_np_by_name(a, path)
  OBVIOUS
<1>5. np # None /\ Open(FALSE, <<np>>)
  BY <1>3, <1>4 DEF OpenApply
<1>6. np \in 1..Len(nps)
  <2>1. np \in 0..Len(nps)
    BY <1>1, <1>2, <1>4, ByName
  <2>2. QED
    BY <1>1, <1>5, <2>1 DEF None
<1>7. <<np>> \in Seq(1..Len(nps)) /\ <<np>> # <<>>
  BY <1>6
<1>8. QED
  BY <1>5, <1>7, OpenKept

LEMMA OpenCaptureKept ==
  ASSUME Ready, NEW paths \in CaptureLists, OpenCapture(paths)
  PROVE  Kept
<1>1. Typed /\ nps \in Lists /\ outer \in Seq(1..Len(nps)) /\ Len(nps) \in Nat
  BY ListIs DEF Ready, Typed
<1>2. paths \in Seq(Range(paths)) /\ \A i \in DOMAIN paths : paths[i] \in PathsUsed
  <2>1. paths \in Seq(Range(paths))
    BY NamesAssumption DEF NamesAssumption
  <2>2. \A i \in DOMAIN paths : paths[i] \in Range(paths)
    BY DEF Range
  <2>3. QED
    BY <2>1, <2>2 DEF PathsUsed
<1>3. PICK which : which = [i \in DOMAIN paths |-> get_np_by_name(None, paths[i])]
  OBVIOUS
<1>4. None \notin Range(which) /\ Open(TRUE, which)
  BY <1>3 DEF OpenCapture
<1>5. ASSUME NEW i \in DOMAIN paths PROVE which[i] \in 1..Len(nps)
  <2>1. PICK path \in PathsUsed : path = paths[i]
    BY <1>2
  <2>2. Len(path) \in Nat \ {0}
    BY PathIs
  <2>3. None \in 0..Len(nps)
    BY <1>1 DEF None
  <2>4. which[i] = get_np_by_name(None, path)
    BY <1>3, <2>1
  <2>5. which[i] \in 0..Len(nps)
    BY <1>1, <2>2, <2>3, <2>4, ByName
  <2>6. which[i] # None
    BY <1>3, <1>4 DEF Range
  <2>7. QED
    BY <1>1, <2>5, <2>6 DEF None
<1>6. which \in Seq(1..Len(nps))
  <2>1. PICK R : R = 1..Len(nps)
    OBVIOUS
  <2>2. DOMAIN paths = 1..Len(paths) /\ Len(paths) \in Nat
    BY <1>2
  <2>3. which \in [1..Len(paths) -> R]
    BY <1>3, <1>5, <2>1, <2>2
  <2>4. QED
    BY <2>1, <2>2, <2>3
<1>7. PICK c \in BOOLEAN : c /\ Open(c, which)
  BY <1>4
<1>8. QED
  BY <1>6, <1>7, OpenKept

-----------------------------------------------------------------------------
(* Aliases.                                                                *)

LEMMA SeekNp ==
  ASSUME nps \in Lists, outer \in Seq(1..Len(nps)), NEW from \in 0..Len(nps), NEW access, Len(access) \in Nat \ {0}
  PROVE  get_np_from_access_starting_from(from, access, <<>>).np \in (-1)..Len(nps)
<1> DEFINE K == Len(access)
<1>1. PICK f : /\ Seeks(f, K, access, <<>>)
               /\ get_np_from_access_starting_from(from, access, <<>>) = f[<<from, K>>]
  BY Sought
<1>2. K \in Nat \ {0} /\ Len(nps) \in Nat
  BY ListIs
<1> DEFINE G == {k \in 0..K : k >= 1 => \A x \in 0..Len(nps) : f[<<x, k>>].np \in (-1)..Len(nps)}
<1>3. 0 \in G
  BY <1>2
<1>4. ASSUME NEW k \in 1..K, k - 1 \in G PROVE k \in G
  <2> SUFFICES ASSUME NEW x \in 0..Len(nps) PROVE f[<<x, k>>].np \in (-1)..Len(nps)
    BY <1>2
  <2>1. PICK n : f[<<x, k>>] = Seek(f, x, k, n, <<>>)
    BY <1>1 DEF Seeks
  <2>2. PICK S : S = At(x, n)
    OBVIOUS
  <2>3. PICK D : D = Deeper(f, x, k, n)
    OBVIOUS
  <2>4. D \subseteq S /\ S \subseteq Nat \X Nat /\ \A p \in S : NpAt(x, p) \in 1..Len(nps)
    BY <2>2, <2>3, PlacesAre DEF At, Deeper
  <2>5. Failed.np \in (-1)..Len(nps)
    BY <1>2 DEF Failed, Dangling
  <2>6. CASE S = {}
    BY <2>1, <2>2, <2>5, <2>6 DEF Seek
  <2>7. CASE S # {} /\ k = 1
    <3>1. PICK c \in 1..Len(nps) : c = NpAt(x, Foremost(S))
      BY <2>4, <2>7, ForemostIs
    <3>2. f[<<x, k>>] = Leaf(c, <<>>)
      BY <2>1, <2>2, <2>7, <3>1 DEF Seek
    <3>3. Leaf(c, <<>>).np = c
      BY DEF Leaf
    <3>4. QED
      BY <1>2, <3>2, <3>3
  <2>8. CASE S # {} /\ k # 1 /\ D = {}
    BY <2>1, <2>2, <2>3, <2>5, <2>8 DEF Seek
  <2>9. CASE S # {} /\ k # 1 /\ D # {}
    <3>1. Foremost(D) \in S
      <4>1. D \subseteq Nat \X Nat
        BY <2>4
      <4>2. QED
        BY <2>4, <2>9, <4>1, ForemostIs
    <3>2. PICK c \in 0..Len(nps) : c = NpAt(x, Foremost(D))
      BY <1>2, <2>4, <3>1
    <3>3. f[<<x, k>>] = f[<<c, k - 1>>]
      BY <2>1, <2>2, <2>3, <2>9, <3>2 DEF Seek
    <3>4. f[<<c, k - 1>>].np \in (-1)..Len(nps)
      <4>1. k - 1 >= 1
        BY <1>2, <2>9
      <4>2. QED
        BY <1>4, <4>1
    <3>5. QED
      BY <3>3, <3>4
  <2>10. QED
    BY <2>6, <2>7, <2>8, <2>9
<1> HIDE DEF G
<1>5. \A k \in 0..K : k \in G
  BY <1>2, <1>3, <1>4, Induct, Zenon
<1>6. f[<<from, K>>].np \in (-1)..Len(nps)
  BY <1>2, <1>5 DEF G
<1>7. QED
  BY <1>1, <1>6

LEMMA AccessNp ==
  ASSUME Typed, NEW access \in PathsUsed
  PROVE  get_np_from_access(access, <<>>).np \in (-1)..Len(nps)
<1>1. nps \in Lists /\ outer \in Seq(1..Len(nps)) /\ Len(nps) \in Nat
  BY ListIs DEF Typed
<1>2. access \in Seq(Range(access)) /\ Len(access) \in Nat \ {0}
  BY PathIs
<1>3. PICK n : n = access[1]
  OBVIOUS
<1>4. PICK d : d = AliasDepth(n)
  OBVIOUS
<1>5. PICK np : np = scopes[d].aliases[n]
  OBVIOUS
<1>6. PICK alias : alias = IF d = 0 THEN Nothing
                           ELSE IF Len(access) = 1 THEN Leaf(np, <<>>)
                           ELSE get_np_from_access_starting_from(np, Tail(access), <<>>)
  OBVIOUS
<1>7. get_np_from_access(access, <<>>) =
        IF alias # Nothing THEN alias ELSE get_np_from_access_starting_from(Applied, access, <<>>)
  BY <1>3, <1>4, <1>5, <1>6 DEF get_np_from_access
<1>8. d # 0 => np \in 1..Len(nps)
  BY <1>4, <1>5, AliasIs
<1>9. alias.np \in (-1)..Len(nps)
  <2>1. CASE d = 0
    BY <1>1, <1>6, <2>1 DEF Nothing, None
  <2>2. CASE d # 0 /\ Len(access) = 1
    <3>1. Leaf(np, <<>>).np = np
      BY DEF Leaf
    <3>2. QED
      BY <1>1, <1>6, <1>8, <2>2, <3>1
  <2>3. CASE d # 0 /\ Len(access) # 1
    <3>1. Len(Tail(access)) \in Nat \ {0}
      BY <1>2, <2>3
    <3>2. np \in 0..Len(nps)
      BY <1>1, <1>8, <2>3
    <3>3. QED
      BY <1>1, <1>6, <2>3, <3>1, <3>2, SeekNp
  <2>4. QED
    BY <2>1, <2>2, <2>3
<1>10. get_np_from_access_starting_from(Applied, access, <<>>).np \in (-1)..Len(nps)
  <2>1. PICK a \in 0..Len(nps) : a = Applied
    BY AppliedIs
  <2>2. QED
    BY <1>1, <1>2, <2>1, SeekNp
<1>11. QED
  BY <1>7, <1>9, <1>10

LEMMA AliasKept ==
  ASSUME Ready, NEW a \in AliasDecls, parse_np_alias(a[1], a[2])
  PROVE  Kept
<1>1. Typed /\ BlocksHold /\ Len(nps) \in Nat
  BY ListIs DEF Ready, NamesInv, Typed
<1>2. PICK n : n = a[1]
  OBVIOUS
<1>3. PICK path : path = a[2]
  OBVIOUS
<1>4. path \in PathsUsed
  BY <1>3 DEF PathsUsed
<1>5. PICK np : np = get_np_from_access(path, <<>>).np
  OBVIOUS
<1>6. PICK D : D = Len(scopes)
  OBVIOUS
<1>7. PICK s : s = scopes[D]
  OBVIOUS
<1>8. PICK t : t = Put(s.aliases, n, np)
  OBVIOUS
<1>9. PICK new : new = [s EXCEPT !.aliases = t]
  OBVIOUS
<1>10. np > 0 /\ scopes' = [scopes EXCEPT ![D] = new] /\ seen' = seen
       /\ UNCHANGED <<nps, outer, npScopes, symbols, made>>
  BY <1>2, <1>3, <1>5, <1>6, <1>7, <1>8, <1>9 DEF parse_np_alias, npVars, declVars
<1>11. np \in 1..Len(nps)
  <2>1. np \in (-1)..Len(nps)
    BY <1>1, <1>4, <1>5, AccessNp
  <2>2. QED
    BY <1>1, <1>10, <2>1
<1>12. PICK S : S = Scope(Len(nps))
  OBVIOUS
<1>13. /\ scopes \in Seq(S) /\ D \in 1..Len(scopes) /\ Len(scopes) \in Nat \ {0} /\ s \in S
       /\ seen \in Seq(Seens) /\ Len(seen) = Len(scopes)
  BY <1>1, <1>6, <1>7, <1>12, ScopesAre DEF Typed
<1>14. t \in AliasTables(Len(nps))
  <2>1. PICK names : names = {b[1] : b \in AliasDecls}
    OBVIOUS
  <2>2. PICK E \in SUBSET names : s.aliases \in [E -> 1..Len(nps)]
    <3>1. s.aliases \in AliasTables(Len(nps))
      BY <1>12, <1>13 DEF Scope
    <3>2. QED
      BY <2>1, <3>1 DEF AliasTables
  <2>3. n \in names
    BY <1>2, <2>1
  <2>4. PICK F \in SUBSET names : F = E \cup {n}
    BY <2>3
  <2>5. t = [x \in F |-> IF x = n THEN np ELSE s.aliases[x]]
    BY <1>8, <2>2, <2>4 DEF Put
  <2>6. t \in [F -> 1..Len(nps)]
    BY <1>11, <2>2, <2>4, <2>5
  <2>7. QED
    BY <2>1, <2>4, <2>6 DEF AliasTables
<1>15. new \in S /\ new.vars = s.vars /\ new.tags = s.tags
  BY <1>9, <1>12, <1>13, <1>14 DEF Scope
<1>16. /\ scopes' \in Seq(S) /\ Len(scopes') = Len(scopes)
       /\ \A d \in 1..Len(scopes) : scopes'[d] = IF d = D THEN new ELSE scopes[d]
  <2>1. PICK z \in Seq(S) : z = scopes
    BY <1>13
  <2>2. PICK w : w = [z EXCEPT ![D] = new]
    OBVIOUS
  <2>3. w \in Seq(S) /\ Len(w) = Len(z) /\ \A d \in 1..Len(z) : w[d] = IF d = D THEN new ELSE z[d]
    BY <1>13, <1>15, <2>1, <2>2, ExceptSeq
  <2>4. QED
    BY <1>10, <2>1, <2>2, <2>3
<1>17. \A d \in 1..Len(scopes), c \in BOOLEAN : Of(scopes'[d], c) = Of(scopes[d], c)
  BY <1>7, <1>15, <1>16 DEF Of
<1>18. ASSUME NEW d \in 2..Len(scopes') PROVE Holds(seen'[d], scopes'[d])
  <2>1. d \in 2..Len(scopes) /\ d \in 1..Len(scopes)
    BY <1>13, <1>16
  <2>2. Holds(seen[d], scopes[d])
    BY <1>1, <2>1 DEF BlocksHold
  <2>3. \A c \in BOOLEAN : Of(scopes'[d], c) = Of(scopes[d], c)
    BY <1>17, <2>1
  <2>4. QED
    BY <1>10, <2>2, <2>3 DEF Holds
<1>19. Of(scopes'[1], TRUE) = Of(scopes[1], TRUE) /\ Of(scopes'[1], FALSE) = Of(scopes[1], FALSE)
  <2>1. 1 \in 1..Len(scopes)
    BY <1>13
  <2>2. QED
    BY <1>17, <2>1
<1>20. scopes' # <<>>
  BY <1>13, <1>16
<1>21. QED
  BY <1>10, <1>12, <1>13, <1>16, <1>18, <1>19, <1>20, ScopesKept

-----------------------------------------------------------------------------
(* A new prefix.                                                           *)

LEMMA SeqNat ==
  ASSUME NEW m \in Nat, NEW s \in Seq(1..m)
  PROVE  s \in Seq(Nat)
<1>1. \A i \in 1..Len(s) : s[i] \in Nat
  OBVIOUS
<1>2. QED
  BY <1>1

LEMMA SeqGrows ==
  ASSUME NEW S, NEW R, S \subseteq R, NEW s \in Seq(S)
  PROVE  s \in Seq(R)
<1>1. \A i \in 1..Len(s) : s[i] \in R
  OBVIOUS
<1>2. QED
  BY <1>1

LEMMA TypesGrow ==
  ASSUME NEW m \in Nat, NEW r \in Nat, m <= r
  PROVE  Scopes(m) \subseteq Scopes(r) /\ Scope(m) \subseteq Scope(r) /\ Seq(1..m) \subseteq Seq(1..r)
<1>1. 1..m \subseteq 1..r
  OBVIOUS
<1>2. ASSUME NEW s \in Seq(1..m) PROVE s \in Seq(1..r)
  <2>1. \A i \in 1..Len(s) : s[i] \in 1..r
    BY <1>1
  <2>2. QED
    BY <2>1
<1>3. Scopes(m) \subseteq Scopes(r)
  BY <1>2 DEF Scopes
<1>4. AliasTables(m) \subseteq AliasTables(r)
  <2>1. ASSUME NEW D, NEW t \in [D -> 1..m] PROVE t \in [D -> 1..r]
    BY <1>1
  <2>2. QED
    BY <2>1 DEF AliasTables
<1>5. Scope(m) \subseteq Scope(r)
  BY <1>4 DEF Scope
<1>6. QED
  BY <1>2, <1>3, <1>5

\* The lists after create_np.
Created(L, M, x, n, path) ==
  /\ Len(M) = Len(L) + 1
  /\ \A p \in 1..Len(L) :
       /\ M[p].name = L[p].name /\ M[p].prefix = L[p].prefix /\ M[p].entries = L[p].entries
       /\ M[p].written = L[p].written
       /\ M[p].nested = IF p = (IF x = None THEN 1 ELSE x) THEN Append(L[p].nested, Len(L) + 1) ELSE L[p].nested
  /\ M[Len(L) + 1].name = n /\ M[Len(L) + 1].entries = <<>> /\ M[Len(L) + 1].written = path

LEMMA CreateIs ==
  ASSUME nps \in Lists, outer \in Seq(1..Len(nps)), NEW x \in 0..Len(nps), NEW n \in Words, NEW prefix \in Seq(Atoms),
         NEW path \in Seq(Words), create_np(x, n, prefix, path)
  PROVE  /\ nps' \in Lists /\ Created(nps, nps', x, n, path)
         /\ outer' \in Seq(1..Len(nps')) /\ Extends(nps, outer, nps', outer')
<1>1. PICK m \in Nat \ {0} : m = Len(nps)
  BY ListIs
<1>2. PICK new : new = m + 1
  OBVIOUS
<1>3. PICK y \in 1..m : y = IF x = None THEN 1 ELSE x
  <2>1. x # 0 => x \in 1..m
    BY <1>1
  <2>2. 1 \in 1..m
    BY <1>1
  <2>3. QED
    BY <2>1, <2>2 DEF None
<1>4. PICK rec : rec = [name |-> n, parent |-> x, prefix |-> prefix, entries |-> <<>>, nested |-> <<>>, written |-> path]
  OBVIOUS
<1>5. rec \in Np /\ rec.name = n /\ rec.parent = x /\ rec.prefix = prefix /\ rec.entries = <<>>
      /\ rec.nested = <<>> /\ rec.written = path
  BY <1>1, <1>4 DEF Np
<1>6. PICK np \in Np : np = nps[y] /\ np.nested \in Seq(1..m)
  BY <1>1, <1>3, ListIs
<1>7. PICK nested : nested = Append(np.nested, new)
  OBVIOUS
<1>8. nested \in Seq(1..new) /\ nested \in Seq(Nat)
  <2>1. np.nested \in Seq(1..new)
    BY <1>1, <1>2, <1>6, TypesGrow
  <2>2. new \in 1..new /\ new \in Nat
    BY <1>2
  <2>3. nested \in Seq(1..new)
    BY <1>7, <2>1, <2>2, Pushed
  <2>4. nested \in Seq(Nat)
    <3>1. new \in Nat
      BY <1>2
    <3>2. QED
      BY <2>3, <3>1, SeqNat
  <2>5. QED
    BY <2>3, <2>4
<1>9. PICK nq : nq = [np EXCEPT !.nested = nested]
  OBVIOUS
<1>10. nq \in Np /\ nq.name = np.name /\ nq.parent = np.parent /\ nq.prefix = np.prefix /\ nq.entries = np.entries
       /\ nq.nested = nested /\ nq.written = np.written
  BY <1>8, <1>9 DEF Np
<1>11. PICK L : L = [nps EXCEPT ![y] = nq]
  OBVIOUS
<1>12. L \in Seq(Np) /\ Len(L) = m /\ \A p \in 1..m : L[p] = IF p = y THEN nq ELSE nps[p]
  <2>1. nps \in Seq(Np)
    BY ListIs
  <2>2. QED
    BY <1>1, <1>3, <1>10, <1>11, <2>1, ExceptSeq
<1>13. nps' = Append(L, rec) /\ outer' = IF x = None THEN Append(outer, new) ELSE outer
  <2>1. nps' = Append([nps EXCEPT ![y].nested = Append(@, new)], rec)
    BY <1>1, <1>2, <1>3, <1>4 DEF create_np
  <2>2. [nps EXCEPT ![y].nested = Append(@, new)] = L
    BY <1>6, <1>7, <1>9, <1>11
  <2>3. outer' = IF x = None THEN Append(outer, new) ELSE outer
    BY <1>1, <1>2 DEF create_np
  <2>4. QED
    BY <2>1, <2>2, <2>3
<1>14. PICK M : M = Append(L, rec)
  OBVIOUS
<1>15. M \in Seq(Np) /\ Len(M) = new /\ M[new] = rec /\ \A p \in 1..m : M[p] = L[p]
  BY <1>2, <1>5, <1>12, <1>14, Pushed
<1>16. ASSUME NEW p \in 1..m
       PROVE  /\ M[p].name = nps[p].name /\ M[p].parent = nps[p].parent /\ M[p].prefix = nps[p].prefix
              /\ M[p].entries = nps[p].entries /\ M[p].written = nps[p].written
              /\ M[p].nested = IF p = y THEN Append(nps[p].nested, new) ELSE nps[p].nested
  BY <1>6, <1>7, <1>10, <1>12, <1>15
<1>17. Created(nps, M, x, n, path)
  BY <1>1, <1>2, <1>3, <1>5, <1>15, <1>16 DEF Created
<1>18. M \in Lists
  <2>1. M # <<>> /\ M[1].prefix = <<>>
    <3>1. 1 \in 1..m /\ new # 0
      BY <1>1, <1>2
    <3>2. nps[1].prefix = <<>>
      BY ListIs
    <3>3. QED
      BY <1>15, <1>16, <3>1, <3>2
  <2>2. ASSUME NEW p \in 1..new PROVE M[p].parent < p /\ M[p].nested \in Seq(1..new)
    <3>1. CASE p = new
      <4>1. x < new
        BY <1>1, <1>2
      <4>2. <<>> \in Seq(1..new)
        OBVIOUS
      <4>3. QED
        BY <1>5, <1>15, <3>1, <4>1, <4>2
    <3>2. CASE p # new
      <4>1. p \in 1..m
        BY <1>1, <1>2, <3>2
      <4>2. nps[p].parent < p /\ nps[p].nested \in Seq(1..m)
        <5>1. p \in 1..Len(nps) /\ p \in Nat
          BY <1>1, <4>1
        <5>2. nps[p].parent \in 0..(p - 1) /\ nps[p].nested \in Seq(1..Len(nps))
          BY <5>1, ListIs
        <5>3. nps[p].parent < p
          BY <5>1, <5>2
        <5>4. QED
          BY <1>1, <5>2, <5>3
      <4>3. nps[p].nested \in Seq(1..new)
        BY <1>1, <1>2, <4>2, TypesGrow
      <4>4. CASE p = y
        <5>1. M[p].nested = nested
          BY <1>10, <1>12, <1>15, <4>1, <4>4
        <5>2. QED
          BY <1>8, <1>16, <4>1, <4>2, <5>1
      <4>5. CASE p # y
        BY <1>16, <4>1, <4>2, <4>3, <4>5
      <4>6. QED
        BY <4>4, <4>5
    <3>3. QED
      BY <3>1, <3>2
  <2>3. QED
    BY <1>15, <2>1, <2>2 DEF Lists
<1>19. PICK o : o = IF x = None THEN Append(outer, new) ELSE outer
  OBVIOUS
<1>20. /\ o \in Seq(1..new) /\ Len(outer) <= Len(o) /\ \A i \in 1..Len(outer) : o[i] = outer[i]
  <2>1. outer \in Seq(1..new)
    BY <1>1, <1>2, TypesGrow
  <2>2. new \in 1..new /\ Len(outer) \in Nat
    BY <1>2, <2>1
  <2>3. CASE x = None
    <3>1. o = Append(outer, new)
      BY <1>19, <2>3
    <3>2. o \in Seq(1..new) /\ Len(o) = Len(outer) + 1 /\ \A i \in 1..Len(outer) : o[i] = outer[i]
      BY <2>1, <2>2, <3>1, Pushed
    <3>3. QED
      BY <2>2, <3>2
  <2>4. CASE x # None
    BY <1>19, <2>1, <2>2, <2>4
  <2>5. QED
    BY <2>3, <2>4
<1>21. Extends(nps, outer, M, o)
  <2>1. ASSUME NEW p \in 1..m
        PROVE  Len(nps[p].nested) <= Len(M[p].nested) /\ \A i \in 1..Len(nps[p].nested) : M[p].nested[i] = nps[p].nested[i]
    <3>1. PICK s \in Seq(1..m) : s = nps[p].nested
      BY <1>1, ListIs
    <3>2. s \in Seq(1..new) /\ new \in 1..new /\ Len(s) \in Nat
      BY <1>1, <1>2, <3>1, TypesGrow
    <3>3. CASE p = y
      <4>1. M[p].nested = Append(s, new)
        BY <1>16, <3>1, <3>3
      <4>2. Len(Append(s, new)) = Len(s) + 1 /\ \A i \in 1..Len(s) : Append(s, new)[i] = s[i]
        BY <3>2, Pushed
      <4>3. QED
        BY <3>1, <3>2, <4>1, <4>2
    <3>4. CASE p # y
      <4>1. M[p].nested = s
        BY <1>16, <3>1, <3>4
      <4>2. QED
        BY <3>1, <3>2, <4>1
    <3>5. QED
      BY <3>3, <3>4
  <2>2. QED
    BY <1>1, <1>2, <1>15, <1>16, <1>20, <2>1, SMTT(30) DEF Extends
<1>22. QED
  BY <1>13, <1>14, <1>15, <1>17, <1>18, <1>19, <1>20, <1>21

\* A prefix put at the end of a list without its name is what the name finds.
AnotherNamed(L, M, m, n) == M[m + 1].name = n /\ \A p \in 1..m : M[p].name = L[p].name
LEMMA CalledNew ==
  ASSUME NEW L, NEW M, NEW m \in Nat, NEW s \in Seq(1..m), NEW n,
         AnotherNamed(L, M, m, n), Called(L, s, n) = None
  PROVE  Called(M, Append(s, m + 1), n) = m + 1
<1>0. M[m + 1].name = n /\ \A p \in 1..m : M[p].name = L[p].name
  BY DEF AnotherNamed
<1>1. FoundFirst(L, s, n)
  BY CalledFirst
<1>2. \A i \in 1..Len(s) : L[s[i]].name # n
  <2>1. \A i \in 1..Len(s) : s[i] # None
    BY DEF None
  <2>2. QED
    BY <1>1, <2>1 DEF FoundFirst
<1>3. PICK u : u = Append(s, m + 1)
  OBVIOUS
<1>4. s \in Seq(1..(m + 1)) /\ m + 1 \in 1..(m + 1)
  BY TypesGrow
<1>5. u \in Seq(1..(m + 1)) /\ Len(u) = Len(s) + 1 /\ u[Len(s) + 1] = m + 1 /\ \A i \in 1..Len(s) : u[i] = s[i]
  BY <1>3, <1>4, Pushed
<1>6. FoundFirst(M, u, n)
  BY <1>5, CalledFirst
<1>7. Len(s) + 1 \in 1..Len(u) /\ M[u[Len(s) + 1]].name = n
  BY <1>0, <1>5
<1>8. PICK j \in 1..Len(u) : M[u[j]].name = n /\ Called(M, u, n) = u[j]
  BY <1>6, <1>7 DEF FoundFirst
<1>9. j \notin 1..Len(s)
  <2>1. \A i \in 1..Len(s) : M[u[i]].name # n
    <3>1. \A i \in 1..Len(s) : u[i] = s[i] /\ s[i] \in 1..m
      BY <1>5, SMTT(30)
    <3>2. QED
      BY <1>0, <1>2, <3>1
  <2>2. QED
    BY <1>8, <2>1
<1>10. j = Len(s) + 1
  BY <1>5, <1>9
<1>11. QED
  BY <1>3, <1>5, <1>8, <1>10

LEMMA NewLeads ==
  ASSUME nps \in Lists, outer \in Seq(1..Len(nps)), NEW path \in Seq(Words), NEW K \in Nat \ {0}, K = Len(path),
         NEW prefix \in Seq(Atoms), NEW x, NEW f, x = f[K - 1], create_np(x, path[K], prefix, path),
         Walks(f, nps, outer, None, path), \A k \in 0..K : f[k] \in 0..Len(nps),
         \A k \in 1..(K - 1) : f[k] # None, f[K] = None, x # 1
  PROVE  LeadsTo(nps', outer', path, Len(nps) + 1)
<1>1. PICK m \in Nat \ {0} : m = Len(nps)
  BY ListIs
<1>2. K - 1 \in 0..K /\ K \in 1..K
  OBVIOUS
<1>3. x \in 0..Len(nps) /\ path[K] \in Words
  BY <1>2
<1>4. PICK n : n = path[K]
  OBVIOUS
<1>5. /\ nps' \in Lists /\ Created(nps, nps', x, n, path)
      /\ outer' \in Seq(1..Len(nps')) /\ Extends(nps, outer, nps', outer')
  BY <1>3, <1>4, CreateIs
<1>6. PICK M \in Lists : M = nps'
  BY <1>5
<1>7. PICK o \in Seq(1..Len(M)) : o = outer'
  BY <1>5, <1>6
<1>8. Len(M) = m + 1
  BY <1>1, <1>5, <1>6 DEF Created
<1>9. PICK w : w = [k \in 0..K |-> IF k = K THEN m + 1 ELSE f[k]]
  OBVIOUS
<1>10. w[0] = None
  <2>1. 0 \in 0..K /\ 0 # K
    OBVIOUS
  <2>2. QED
    BY <1>9, <2>1 DEF Walks
<1>11. w[K] = m + 1
  BY <1>2, <1>9
<1>12. ASSUME NEW k \in 1..K PROVE w[k] \in 1..Len(M)
  <2>1. CASE k = K
    BY <1>8, <1>11, <2>1
  <2>2. CASE k # K
    <3>1. w[k] = f[k] /\ k \in 1..(K - 1) /\ k \in 0..K
      BY <1>9, <2>2
    <3>2. QED
      BY <1>1, <1>8, <3>1 DEF None
  <2>3. QED
    BY <2>1, <2>2
<1>13. ASSUME NEW k \in 1..K PROVE w[k] = FindIn(M, o, w[k - 1], path[k])
  <2>1. w[k - 1] = f[k - 1] /\ f[k - 1] \in 0..Len(nps)
    <3>1. k - 1 \in 0..K /\ k - 1 # K
      OBVIOUS
    <3>2. QED
      BY <1>9, <3>1
  <2>2. PICK y \in 0..Len(nps) : y = w[k - 1] /\ y = f[k - 1]
    BY <2>1
  <2>3. PICK c : c = path[k]
    OBVIOUS
  <2>4. f[k] = FindIn(nps, outer, y, c)
    BY <2>2, <2>3 DEF Walks
  <2>5. CASE k # K
    <3>1. w[k] = f[k] /\ f[k] # None
      BY <1>9, <2>5
    <3>2. Extends(nps, outer, M, o)
      BY <1>5, <1>6, <1>7
    <3>3. FindIn(M, o, y, c) = FindIn(nps, outer, y, c)
      BY <2>4, <3>1, <3>2, FindStays
    <3>4. QED
      BY <2>2, <2>3, <2>4, <3>1, <3>3
  <2>6. CASE k = K
    <3>1. y = x /\ c = n /\ FindIn(nps, outer, x, n) = None
      BY <1>4, <2>2, <2>3, <2>4, <2>6
    <3>2. PICK s : s = IF x = None THEN outer ELSE nps[x].nested
      OBVIOUS
    <3>3. s \in Seq(1..m)
      <4>1. x # None => x \in 1..Len(nps)
        BY <1>1, <1>3 DEF None
      <4>2. QED
        BY <1>1, <3>2, <4>1, ListIs
    <3>4. Called(nps, s, n) = None
      BY <3>1, <3>2 DEF FindIn
    <3>5. Called(M, Append(s, m + 1), n) = m + 1
      <4>1. AnotherNamed(nps, M, m, n)
        BY <1>1, <1>5, <1>6 DEF AnotherNamed, Created
      <4>2. QED
        BY <3>3, <3>4, <4>1, CalledNew
    <3>6. FindIn(M, o, x, n) = Called(M, Append(s, m + 1), n)
      <4>1. CASE x = None
        <5>1. o = Append(outer, m + 1)
          BY <1>1, <1>7, <4>1 DEF create_np
        <5>2. QED
          BY <3>2, <4>1, <5>1 DEF FindIn
      <4>2. CASE x # None
        <5>1. x \in 1..Len(nps)
          BY <1>1, <1>3, <4>2 DEF None
        <5>2. M[x].nested = Append(nps[x].nested, m + 1)
          BY <1>1, <1>5, <1>6, <4>2, <5>1 DEF Created
        <5>3. QED
          BY <3>2, <4>2, <5>2 DEF FindIn
      <4>3. QED
        BY <4>1, <4>2
    <3>7. QED
      BY <1>11, <2>2, <2>3, <2>6, <3>1, <3>5, <3>6
  <2>7. QED
    BY <2>5, <2>6
<1>14. Walks(w, M, o, None, path)
  BY <1>10, <1>13 DEF Walks
<1>15. LeadsTo(M, o, path, m + 1)
  BY <1>11, <1>12, <1>14 DEF LeadsTo
<1>16. QED
  BY <1>1, <1>6, <1>7, <1>15

LEMMA ParseNpKept ==
  ASSUME Ready, NEW d \in NpDecls, parse_np(d[1], d[2])
  PROVE  Kept
<1>1. Typed /\ FaultsLeftOut /\ NamesInv /\ WrittenLeads(nps, outer) /\ nps \in Lists /\ outer \in Seq(1..Len(nps))
  BY DEF Ready, Typed
<1>2. PICK path \in Seq(Words) : path = d[1] /\ path # <<>>
  <2>1. d[1] \in PathsUsed
    BY DEF PathsUsed
  <2>2. d[1] \in Seq(Range(d[1])) /\ d[1] # <<>>
    BY <2>1, NamesAssumption DEF NamesAssumption
  <2>3. Range(d[1]) \subseteq Words
    BY DEF Words
  <2>4. PICK s : s = d[1]
    OBVIOUS
  <2>5. s \in Seq(Words)
    <3>1. Len(s) \in Nat /\ s = [i \in 1..Len(s) |-> s[i]] /\ \A i \in 1..Len(s) : s[i] \in Range(d[1])
      BY <2>2, <2>4
    <3>2. \A i \in 1..Len(s) : s[i] \in Words
      BY <2>3, <3>1
    <3>3. QED
      BY <3>1, <3>2
  <2>6. QED
    BY <2>2, <2>4, <2>5
<1>3. PICK prefix \in Seq(Atoms) : prefix = d[2]
  BY NamesAssumption DEF NamesAssumption
<1>4. PICK K \in Nat \ {0} : K = Len(path)
  BY <1>2
<1>5. PICK f : f = Walk(None, path)
  OBVIOUS
<1>6. Walks(f, nps, outer, None, path) /\ \A k \in 0..K : f[k] \in 0..Len(nps)
  <2>1. None \in 0..Len(nps)
    BY <1>1, ListIs DEF None
  <2>2. QED
    BY <1>1, <1>4, <1>5, <2>1, WalkIs
<1>7. PICK n \in Words : n = path[K]
  BY <1>4
<1>8. PICK x \in 0..Len(nps) : x = f[K - 1]
  <2>1. K - 1 \in 0..K
    OBVIOUS
  <2>2. QED
    BY <1>6, <2>1
<1>9. Last(path) = n
  BY <1>4, <1>7 DEF Last
<1>10. /\ \A k \in 2..(K - 1) : f[k] # None
       /\ \/ f[K] = None /\ create_np(x, n, prefix, path)
          \/ f[K] # None /\ nps' = nps /\ outer' = outer
       /\ met' = met \cup {g \in {"missing-parent"} : K > 1 /\ f[1] = None} \cup {g \in {"global-child"} : x = 1}
       /\ UNCHANGED <<npScopes, scopes, seen, symbols, made>>
  BY <1>2, <1>3, <1>4, <1>5, <1>8, <1>9 DEF parse_np, declVars
<1>11. CASE f[K] # None
  <2>1. UNCHANGED <<nps, outer, npScopes, scopes, seen, symbols, made>>
    BY <1>10, <1>11
  <2>2. made' \in Seq(Kinds)
    BY <1>1, <2>1 DEF Typed
  <2>3. QED
    BY <2>1, <2>2, SameKept
<1>12. CASE f[K] = None
  <2>1. create_np(x, n, prefix, path)
    BY <1>10, <1>12
  <2>2. /\ nps' \in Lists /\ Created(nps, nps', x, n, path)
        /\ outer' \in Seq(1..Len(nps')) /\ Extends(nps, outer, nps', outer')
    BY <1>1, <2>1, CreateIs
  <2>3. PICK m \in Nat \ {0} : m = Len(nps)
    BY <1>1, ListIs
  <2>4. Len(nps') = m + 1
    BY <2>2, <2>3 DEF Created
  <2>5. Typed'
    <3>1. Scopes(m) \subseteq Scopes(m + 1) /\ Scope(m) \subseteq Scope(m + 1)
      BY TypesGrow
    <3>2. npScopes \in Seq(Scopes(m + 1))
      <4>1. PICK S : S = Scopes(m)
        OBVIOUS
      <4>2. PICK R : R = Scopes(m + 1)
        OBVIOUS
      <4>3. npScopes \in Seq(S) /\ S \subseteq R
        BY <1>1, <2>3, <3>1, <4>1, <4>2 DEF Typed
      <4>4. npScopes \in Seq(R)
        BY <4>3, SeqGrows
      <4>5. QED
        BY <4>2, <4>4
    <3>3. scopes \in Seq(Scope(m + 1))
      <4>1. PICK S : S = Scope(m)
        OBVIOUS
      <4>2. PICK R : R = Scope(m + 1)
        OBVIOUS
      <4>3. scopes \in Seq(S) /\ S \subseteq R
        BY <1>1, <2>3, <3>1, <4>1, <4>2 DEF Typed
      <4>4. scopes \in Seq(R)
        BY <4>3, SeqGrows
      <4>5. QED
        BY <4>2, <4>4
    <3>4. QED
      BY <1>1, <1>10, <2>2, <2>4, <3>2, <3>3 DEF Typed
  <2>6. AllSet(nps')
    <3> SUFFICES ASSUME NEW p \in 1..(m + 1), NEW i \in 1..Len(nps'[p].entries)
                 PROVE  np_contains(nps'[p], nps'[p].entries[i].name, nps'[p].entries[i].is_tag) # Dangling
      BY <2>4 DEF AllSet
    <3>1. CASE p = m + 1
      <4>1. nps'[p].entries = <<>>
        BY <2>2, <2>3, <3>1 DEF Created
      <4>2. i \in 1..0
        BY <4>1
      <4>3. QED
        BY <4>2
    <3>2. CASE p # m + 1
      <4>1. p \in 1..Len(nps)
        BY <2>3, <3>2
      <4>2. nps'[p].entries = nps[p].entries
        BY <2>2, <4>1 DEF Created
      <4>3. PICK e : e = nps[p].entries[i]
        OBVIOUS
      <4>4. np_contains(nps'[p], e.name, e.is_tag) = np_contains(nps[p], e.name, e.is_tag)
        BY <4>2, ContainsReads
      <4>5. np_contains(nps[p], e.name, e.is_tag) # Dangling
        BY <1>1, <4>1, <4>2, <4>3 DEF NamesInv, AllSet
      <4>6. QED
        BY <4>2, <4>3, <4>4, <4>5
    <3>3. QED
      BY <3>1, <3>2
  <2>7. Declared'
    <3> SUFFICES ASSUME NEW b \in BOOLEAN PROVE Agree(nps', Table(1, b)', b) /\ AllIn(nps', Table(1, b)', b)
      BY DEF Declared
    <3>1. PICK t : t = Table(1, b) /\ t = Table(1, b)'
      BY <1>10 DEF Table
    <3>2. Agree(nps, t, b) /\ AllIn(nps, t, b)
      BY <1>1, <3>1 DEF NamesInv, Declared
    <3>3. Agree(nps', t, b)
      <4> SUFFICES ASSUME NEW p \in 1..(m + 1), NEW i \in 1..Len(nps'[p].entries), nps'[p].entries[i].is_tag = b
                   PROVE  /\ nps'[p].prefix \o nps'[p].entries[i].name \in DOMAIN t
                          /\ nps'[p].entries[i].entity \in {Dangling, t[nps'[p].prefix \o nps'[p].entries[i].name]}
        BY <2>4 DEF Agree
      <4>1. CASE p = m + 1
        <5>1. nps'[p].entries = <<>>
          BY <2>2, <2>3, <4>1 DEF Created
        <5>2. i \in 1..0
          BY <5>1
        <5>3. QED
          BY <5>2
      <4>2. CASE p # m + 1
        <5>1. p \in 1..Len(nps)
          BY <2>3, <4>2
        <5>2. nps'[p].entries = nps[p].entries /\ nps'[p].prefix = nps[p].prefix
          BY <2>2, <5>1 DEF Created
        <5>3. QED
          BY <3>2, <5>1, <5>2 DEF Agree
      <4>3. QED
        BY <4>1, <4>2
    <3>4. AllIn(nps', t, b)
      <4>1. 1 \in 1..Len(nps)
        BY <2>3
      <4>2. nps'[1].entries = nps[1].entries
        BY <2>2, <4>1 DEF Created
      <4>3. \A k : np_contains(nps'[1], k, b) = np_contains(nps[1], k, b)
        BY <4>2, ContainsReads
      <4>4. QED
        BY <3>2, <4>3 DEF AllIn
    <3>5. QED
      BY <3>1, <3>3, <3>4
  <2>8. BlocksHold'
    BY <1>1, <1>10 DEF NamesInv, BlocksHold
  <2>9. ASSUME Going' PROVE WrittenLeads(nps', outer')
    <3> SUFFICES ASSUME NEW p \in 1..(m + 1) PROVE LeadsTo(nps', outer', nps'[p].written, p)
      BY <2>4 DEF WrittenLeads
    <3>1. CASE p = m + 1
      <4>1. "missing-parent" \notin met' /\ "global-child" \notin met'
        BY <1>1, <2>9, NotMet
      <4>2. x # 1 /\ ~(K > 1 /\ f[1] = None)
        BY <1>10, <4>1
      <4>3. \A k \in 1..(K - 1) : f[k] # None
        <5> SUFFICES ASSUME NEW k \in 1..(K - 1) PROVE f[k] # None
          OBVIOUS
        <5>1. CASE k = 1
          <6>1. K > 1
            OBVIOUS
          <6>2. QED
            BY <4>2, <5>1, <6>1
        <5>2. CASE k # 1
          <6>1. k \in 2..(K - 1)
            BY <5>2
          <6>2. QED
            BY <1>10, <6>1
        <5>3. QED
          BY <5>1, <5>2
      <4>4. create_np(x, path[K], prefix, path)
        BY <1>7, <2>1
      <4>5. LeadsTo(nps', outer', path, Len(nps) + 1)
        BY <1>1, <1>4, <1>6, <1>8, <1>12, <4>2, <4>3, <4>4, NewLeads
      <4>6. nps'[p].written = path
        BY <2>2, <2>3, <3>1 DEF Created
      <4>7. QED
        BY <2>3, <3>1, <4>5, <4>6
    <3>2. CASE p # m + 1
      <4>1. p \in 1..Len(nps)
        BY <2>3, <3>2
      <4>2. PICK q \in Seq(Words) : q = nps[p].written
        BY <1>1, <4>1, ListIs
      <4>3. LeadsTo(nps, outer, q, p)
        BY <1>1, <4>1, <4>2 DEF WrittenLeads
      <4>4. PICK M \in Lists : M = nps'
        BY <2>2
      <4>5. PICK o \in Seq(1..Len(M)) : o = outer'
        BY <2>2, <4>4
      <4>6. Extends(nps, outer, M, o) /\ Len(q) \in Nat
        BY <2>2, <4>2, <4>4, <4>5
      <4>7. LeadsTo(M, o, q, p)
        BY <1>1, <4>3, <4>6, LeadsStay
      <4>8. M[p].written = q
        BY <2>2, <4>1, <4>2, <4>4 DEF Created
      <4>9. QED
        BY <4>4, <4>5, <4>7, <4>8
    <3>3. QED
      BY <3>1, <3>2
  <2>10. QED
    BY <2>5, <2>6, <2>7, <2>8, <2>9 DEF Kept, NamesInv
<1>13. QED
  BY <1>11, <1>12

-----------------------------------------------------------------------------
(* The invariant holds.                                                    *)

(* The inductive invariant.  Typed holds of every program; the rest of those *)
(* that have met no known fault.                                            *)
NamesIInv == FaultsLeftOut /\ Typed /\ (Going => NamesInv /\ WrittenLeads(nps, outer))

LEMMA InitHolds ==
  ASSUME Init, FaultsLeftOut
  PROVE  NamesIInv
<1>1. nps = <<GlobalNp>> /\ outer = <<1>> /\ npScopes = <<[is_capture |-> FALSE, nps |-> <<1>>]>>
      /\ scopes = <<EmptyScope>> /\ seen = <<EmptyMap>> /\ symbols = EmptyMap /\ made = <<>>
  BY DEF Init
<1>2. PICK np \in Np : /\ np = GlobalNp /\ np.name = _Global /\ np.parent = 0 /\ np.prefix = <<>>
                       /\ np.entries = <<>> /\ np.nested = <<>> /\ np.written = <<_Global>>
  <2>1. GlobalNp \in Np
    BY DEF GlobalNp, Np, Words, None, _Global
  <2>2. QED
    BY <2>1 DEF GlobalNp, None
<1>3. PICK L : L = <<np>>
  OBVIOUS
<1>4. L \in Seq(Np) /\ Len(L) = 1 /\ L[1] = np /\ nps = L /\ \A p \in 1..Len(L) : p = 1 /\ L[p] = np
  BY <1>1, <1>2, <1>3
<1>5. nps \in Lists
  <2>1. L # <<>> /\ L[1].prefix = <<>>
    <3>1. L # <<>>
      BY <1>3
    <3>2. L[1].prefix = <<>>
      BY <1>2, <1>4, Zenon
    <3>3. QED
      BY <3>1, <3>2
  <2>2. \A p \in 1..Len(L) : L[p].parent < p /\ L[p].nested \in Seq(1..Len(L))
    <3> SUFFICES ASSUME NEW p \in 1..Len(L) PROVE L[p].parent < p /\ L[p].nested \in Seq(1..Len(L))
      OBVIOUS
    <3>1. L[p].parent = 0 /\ L[p].nested = <<>> /\ p = 1
      BY <1>2, <1>4, Zenon
    <3>2. QED
      BY <3>1
  <2>3. QED
    BY <1>4, <2>1, <2>2 DEF Lists
<1>6. Typed
  <2>1. outer \in Seq(1..1)
    BY <1>1
  <2>2. npScopes \in Seq(Scopes(1)) /\ npScopes # <<>>
    <3>1. PICK s \in Scopes(1) : s = [is_capture |-> FALSE, nps |-> <<1>>]
      <4>1. <<1>> \in Seq(1..1) /\ <<1>> # <<>>
        OBVIOUS
      <4>2. [is_capture |-> FALSE, nps |-> <<1>>] \in Scopes(1)
        BY <4>1 DEF Scopes
      <4>3. QED
        BY <4>2
    <3>2. npScopes = <<s>>
      BY <1>1, <3>1
    <3>3. QED
      BY <3>2
  <2>3. scopes \in Seq(Scope(1)) /\ scopes # <<>> /\ Len(scopes) = 1
    <3>1. PICK s \in Scope(1) : s = EmptyScope
      BY EmptyIs
    <3>2. QED
      BY <1>1, <3>1
  <2>4. seen \in Seq(Seens) /\ Len(seen) = 1
    <3>1. PICK g \in Seens : g = EmptyMap
      BY EmptyIs
    <3>2. QED
      BY <1>1, <3>1
  <2>5. symbols \in Tables
    <3>1. \A R : EmptyMap \in [{} -> R]
      BY DEF EmptyMap
    <3>2. QED
      BY <1>1, <3>1, Zenon DEF Tables
  <2>6. made \in Seq(Kinds)
    BY <1>1
  <2>7. QED
    BY <1>4, <1>5, <2>1, <2>2, <2>3, <2>4, <2>5, <2>6 DEF Typed
<1>7. NamesInv
  <2>1. \A p \in 1..Len(nps) : nps[p].entries = <<>> /\ Len(nps[p].entries) = 0
    <3>1. \A p \in 1..Len(nps) : nps[p].entries = <<>>
      BY <1>2, <1>4, Zenon
    <3>2. QED
      BY <3>1
  <2>2. \A p \in 1..Len(nps) : ~\E i \in 1..Len(nps[p].entries) : TRUE
    <3>1. \A p \in 1..Len(nps) : \A i \in 1..Len(nps[p].entries) : i \in 1..0
      BY <2>1
    <3>2. QED
      BY <3>1
  <2>3. AllSet(nps)
    BY <2>2 DEF AllSet
  <2>4. \A b \in BOOLEAN : DOMAIN Table(1, b) = {}
    <3>1. scopes[1] = EmptyScope
      BY <1>1
    <3>2. DOMAIN EmptyMap = {}
      BY DEF EmptyMap
    <3>3. QED
      BY <3>1, <3>2 DEF Table, EmptyScope
  <2>5. Declared
    BY <2>2, <2>4 DEF Declared, Agree, AllIn
  <2>6. BlocksHold
    <3>1. Len(scopes) = 1
      BY <1>1
    <3>2. QED
      BY <3>1 DEF BlocksHold
  <2>7. QED
    BY <2>3, <2>5, <2>6 DEF NamesInv
<1>8. WrittenLeads(nps, outer)
  <2>1. PICK path : path = <<_Global>>
    OBVIOUS
  <2>2. Len(path) = 1 /\ path[1] = _Global
    BY <2>1
  <2>3. PICK o \in Seq(1..1) : o = outer /\ o = <<1>>
    <3>1. <<1>> \in Seq(1..1)
      OBVIOUS
    <3>2. outer = <<1>>
      BY <1>1
    <3>3. QED
      BY <3>1, <3>2
  <2>4. Called(L, o, _Global) = 1
    <3>1. PICK one \in Nat : one = 1
      OBVIOUS
    <3>2. FoundFirst(L, o, _Global)
      BY <3>1, CalledFirst
    <3>3. Len(o) = 1 /\ o[1] = 1 /\ L[o[1]].name = _Global /\ 1 \in 1..Len(o)
      BY <1>2, <1>4, <2>3
    <3>4. PICK i \in 1..Len(o) : Called(L, o, _Global) = o[i]
      BY <3>2, <3>3 DEF FoundFirst
    <3>5. QED
      BY <3>3, <3>4
  <2>5. FindIn(L, o, None, _Global) = 1
    BY <2>4 DEF FindIn
  <2>6. PICK w : w = [k \in 0..1 |-> k]
    OBVIOUS
  <2>7. w[0] = 0 /\ w[1] = 1
    BY <2>6
  <2>8. Walks(w, L, o, None, path)
    <3>1. w[0] = None
      BY <2>7 DEF None
    <3>2. \A k \in 1..Len(path) : k = 1
      BY <2>2
    <3>3. \A k \in 1..Len(path) : w[k] = FindIn(L, o, w[k - 1], path[k])
      BY <2>2, <2>5, <2>7, <3>1, <3>2
    <3>4. QED
      BY <3>1, <3>3 DEF Walks
  <2>9. LeadsTo(L, o, path, 1)
    <3>1. \A k \in 1..Len(path) : w[k] \in 1..Len(L)
      BY <1>4, <2>2, <2>7
    <3>2. QED
      BY <2>2, <2>7, <2>8, <3>1 DEF LeadsTo
  <2>10. \A p \in 1..Len(L) : LeadsTo(L, o, L[p].written, p)
    BY <1>2, <1>4, <2>1, <2>9
  <2>11. WrittenLeads(L, o)
    BY <2>10 DEF WrittenLeads
  <2>12. QED
    BY <1>1, <1>4, <2>3, <2>11
<1>9. QED
  BY <1>6, <1>7, <1>8 DEF NamesIInv

LEMMA StepHolds ==
  ASSUME NamesIInv, [Next]_vars
  PROVE  NamesIInv'
<1>1. FaultsLeftOut /\ Typed /\ (Going => NamesInv /\ WrittenLeads(nps, outer))
  BY DEF NamesIInv
<1>2. FaultsLeftOut'
  BY <1>1 DEF FaultsLeftOut
<1>3. CASE UNCHANGED vars
  <2>1. UNCHANGED <<nps, outer, npScopes, scopes, symbols, made, seen, met>>
    BY <1>3 DEF vars
  <2>2. Typed' <=> Typed
    BY <2>1 DEF Typed
  <2>3. Going' <=> Going
    BY <2>1 DEF Going
  <2>4. Declared' <=> Declared
    BY <2>1 DEF Declared, Table
  <2>5. BlocksHold' <=> BlocksHold
    BY <2>1 DEF BlocksHold
  <2>6. QED
    BY <1>1, <1>2, <2>1, <2>2, <2>3, <2>4, <2>5 DEF NamesIInv, NamesInv
<1>4. CASE Next
  <2>1. Ready
    BY <1>1, <1>4 DEF Next, Ready
  <2>2. Kept
    <3>1. CASE \E d \in NpDecls : parse_np(d[1], d[2])
      BY <2>1, <3>1, ParseNpKept
    <3>2. CASE \E a \in AliasDecls : parse_np_alias(a[1], a[2])
      BY <2>1, <3>2, AliasKept
    <3>3. CASE \E path \in Paths : OpenApply(path)
      BY <2>1, <3>3, OpenApplyKept
    <3>4. CASE \E paths \in CaptureLists : OpenCapture(paths)
      BY <2>1, <3>4, OpenCaptureKept
    <3>5. CASE CloseNp
      BY <2>1, <3>5, CloseKept
    <3>6. CASE EnterBlock
      BY <2>1, <3>6, EnterKept
    <3>7. CASE LeaveBlock
      BY <2>1, <3>7, LeaveKept
    <3>8. ASSUME NEW id \in Idents,
                 \/ \E is_extern \in BOOLEAN : DeclareVar(id, is_extern)
                 \/ DeclareFunc(id)
                 \/ func_definition(id)
                 \/ push_var_name(id)
                 \/ parse_typedef(id)
                 \/ enum_specifier(id)
                 \/ \E next \in {"{", ";", "*"} : struct_tag(id, next)
          PROVE  Kept
      <4>1. id \in Seq(Atoms)
        BY IdentIs
      <4>2. CASE \E is_extern \in BOOLEAN : DeclareVar(id, is_extern)
        BY <2>1, <4>1, <4>2, DeclareVarKept
      <4>3. CASE DeclareFunc(id)
        BY <2>1, <4>1, <4>3, DeclareFuncKept
      <4>4. CASE func_definition(id)
        BY <2>1, <4>1, <4>4, FuncDefKept
      <4>5. CASE push_var_name(id)
        BY <2>1, <4>1, <4>5, LocalKept
      <4>6. CASE parse_typedef(id)
        BY <2>1, <4>1, <4>6, TypedefKept
      <4>7. CASE enum_specifier(id)
        BY <2>1, <4>1, <4>7, EnumKept
      <4>8. CASE \E next \in {"{", ";", "*"} : struct_tag(id, next)
        BY <2>1, <4>1, <4>8, TagKept, Zenon
      <4>9. QED
        BY <3>8, <4>2, <4>3, <4>4, <4>5, <4>6, <4>7, <4>8, Zenon
    <3>9. QED
      BY <1>4, <3>1, <3>2, <3>3, <3>4, <3>5, <3>6, <3>7, <3>8, Zenon DEF Next
  <2>3. QED
    BY <1>2, <2>2 DEF Kept, NamesIInv
<1>5. QED
  BY <1>3, <1>4

\* As long as no known fault is met, names in the file scope, in the prefixes
\* and in the blocks agree, and written paths lead to their prefixes, whatever
\* is declared, opened and closed (every action of Names).
THEOREM NamesInvariant == Spec /\ FaultsLeftOut => []NamesIInv
<1>1. Init /\ FaultsLeftOut => NamesIInv
  BY InitHolds
<1>2. NamesIInv /\ [Next]_vars => NamesIInv'
  BY StepHolds
<1>3. QED
  BY <1>1, <1>2, PTL DEF Spec

-----------------------------------------------------------------------------
(* What the properties say.                                                *)

LEMMA EntryFound ==
  ASSUME Typed, NamesInv, NEW p \in 1..Len(nps), NEW id, NEW b \in BOOLEAN
  PROVE  /\ <<id, b>> \in EntryNames(p) <=> np_contains(nps[p], id, b) # None
         /\ <<id, b>> \in EntryNames(p) =>
              np_contains(nps[p], id, b) = Get(Table(1, b), nps[p].prefix \o id)
<1>1. nps \in Lists
  BY DEF Typed
<1>2. PICK es \in Seq(Entry) : es = nps[p].entries
  BY <1>1, ListIs
<1>3. Len(es) \in Nat /\ DOMAIN es = 1..Len(es)
  OBVIOUS
<1>4. <<id, b>> \in EntryNames(p) <=> \E i \in 1..Len(es) : Has(es, i, id, b)
  <2>1. EntryNames(p) = {<<es[i].name, es[i].is_tag>> : i \in 1..Len(es)}
    BY <1>2, <1>3 DEF EntryNames
  <2>2. \A i \in 1..Len(es) : <<id, b>> = <<es[i].name, es[i].is_tag>> <=> Has(es, i, id, b)
    BY DEF Has
  <2>3. QED
    BY <2>1, <2>2
<1>5. ASSUME NEW i \in 1..Len(es), Has(es, i, id, b)
      PROVE  np_contains(nps[p], id, b) # None /\ np_contains(nps[p], id, b) = Get(Table(1, b), nps[p].prefix \o id)
  <2>1. PICK j \in 1..Len(es) : Has(es, j, id, b) /\ np_contains(nps[p], id, b) = es[j].entity
                                /\ np_contains(nps[p], id, b) # None
    BY <1>2, <1>5, FirstFound
  <2>2. es[j].name = id /\ es[j].is_tag = b
    BY <2>1 DEF Has
  <2>3. PICK t : t = Table(1, b)
    OBVIOUS
  <2>4. PICK n : n = nps[p].prefix \o id
    OBVIOUS
  <2>5. n \in DOMAIN t /\ es[j].entity \in {Dangling, t[n]}
    BY <1>2, <2>2, <2>3, <2>4 DEF NamesInv, Declared, Agree
  <2>6. np_contains(nps[p], id, b) # Dangling
    BY <1>2, <2>2 DEF NamesInv, AllSet
  <2>7. es[j].entity = Get(t, n)
    BY <2>1, <2>5, <2>6 DEF Get
  <2>8. QED
    BY <2>1, <2>3, <2>4, <2>7
<1>6. ASSUME \A i \in 1..Len(es) : ~Has(es, i, id, b)
      PROVE  np_contains(nps[p], id, b) = None
  <2>1. ~\E i \in 1..Len(es) : Has(es, i, id, b)
    BY <1>6
  <2>2. QED
    BY <1>2, <2>1, ContainsIs
<1>7. QED
  BY <1>4, <1>5, <1>6

LEMMA EntriesHold ==
  ASSUME NamesIInv
  PROVE  EntriesAreDeclared
<1> SUFFICES ASSUME Going
             PROVE  /\ \A np \in DOMAIN nps : \A k \in EntryNames(np) :
                         np_contains(nps[np], k[1], k[2]) = Get(Table(1, k[2]), nps[np].prefix \o k[1])
                    /\ \A is_tag \in BOOLEAN : \A n \in DOMAIN Table(1, is_tag) :
                         np_contains(nps[1], n, is_tag) = Table(1, is_tag)[n]
  BY DEF EntriesAreDeclared
<1>1. Typed /\ NamesInv
  BY DEF NamesIInv
<1>2. ASSUME NEW np \in DOMAIN nps, NEW k \in EntryNames(np)
      PROVE  np_contains(nps[np], k[1], k[2]) = Get(Table(1, k[2]), nps[np].prefix \o k[1])
  <2>1. np \in 1..Len(nps)
    BY <1>1, ListIs DEF Typed
  <2>2. PICK b \in BOOLEAN : \E id : k = <<id, b>>
    <3>1. PICK i \in DOMAIN nps[np].entries : k = <<nps[np].entries[i].name, nps[np].entries[i].is_tag>>
      BY DEF EntryNames
    <3>2. nps[np].entries \in Seq(Entry)
      BY <1>1, <2>1, ListIs DEF Typed
    <3>3. PICK e \in Entry : e = nps[np].entries[i]
      BY <3>1, <3>2
    <3>4. e.is_tag \in BOOLEAN
      BY <3>3 DEF Entry
    <3>5. PICK b \in BOOLEAN : b = e.is_tag
      BY <3>4
    <3>6. k = <<e.name, b>>
      BY <3>1, <3>3, <3>5
    <3>7. QED
      BY <3>6
  <2>3. PICK id : k = <<id, b>>
    BY <2>2
  <2>4. <<id, b>> \in EntryNames(np)
    BY <2>3
  <2>5. np_contains(nps[np], id, b) = Get(Table(1, b), nps[np].prefix \o id)
    BY <1>1, <2>1, <2>4, EntryFound
  <2>6. QED
    BY <2>3, <2>5
<1>3. \A b \in BOOLEAN : \A n \in DOMAIN Table(1, b) : np_contains(nps[1], n, b) = Table(1, b)[n]
  BY <1>1 DEF NamesInv, Declared, AllIn
<1>4. QED
  BY <1>2, <1>3

LEMMA GreatestIs ==
  ASSUME NEW n \in Nat, NEW S \in SUBSET (1..n), S # {}
  PROVE  \E d \in S : (\A e \in S : e <= d) /\ (CHOOSE x \in S : \A e \in S : e <= x) = d
<1> DEFINE B == {n - d : d \in S}
<1>1. B \in SUBSET Nat /\ B # {}
  OBVIOUS
<1>2. PICK b \in B : \A c \in B : b <= c
  <2> HIDE DEF B
  <2>1. QED
    BY <1>1, Least
<1>3. PICK d \in S : b = n - d
  OBVIOUS
<1>4. \A e \in S : n - d <= n - e
  BY <1>2, <1>3
<1>5. \A e \in S : e <= d
  BY <1>4
<1>6. \A x \in S : (\A e \in S : e <= x) => x = d
  BY <1>5
<1>7. QED
  BY <1>5, <1>6

\* The prefix that has the entry, of a list of prefixes.
Holder(s, id, b) == FirstWith(s, LAMBDA p : np_contains(nps[p], id, b) # None)
LEMMA HolderIs ==
  ASSUME Typed, NamesInv, NEW s \in Seq(1..Len(nps)), NEW id, NEW b \in BOOLEAN
  PROVE  /\ FirstWith(s, LAMBDA p : <<id, b>> \in EntryNames(p)) = Holder(s, id, b)
         /\ Holder(s, id, b) # None =>
              Holder(s, id, b) \in 1..Len(nps) /\ <<id, b>> \in EntryNames(Holder(s, id, b))
<1> DEFINE I == {i \in 1..Len(s) : np_contains(nps[s[i]], id, b) # None}
           J == {i \in 1..Len(s) : <<id, b>> \in EntryNames(s[i])}
<1>1. Holder(s, id, b) = LET i == IF I # {} THEN Min(I) ELSE 0 IN IF i = 0 THEN None ELSE s[i]
  BY DEF Holder, FirstWith, SelectInSeq
<1>2. FirstWith(s, LAMBDA p : <<id, b>> \in EntryNames(p)) =
        LET i == IF J # {} THEN Min(J) ELSE 0 IN IF i = 0 THEN None ELSE s[i]
  BY DEF FirstWith, SelectInSeq
<1>3. \A i \in 1..Len(s) : s[i] \in 1..Len(nps)
  OBVIOUS
<1>4. I = J
  BY <1>3, EntryFound
<1>5. Len(s) \in Nat /\ I \subseteq 1..Len(s)
  OBVIOUS
<1>6. I # {} => Min(I) \in I
  <2> HIDE DEF I
  <2>1. QED
    BY <1>5, FirstIn
<1>7. ASSUME Holder(s, id, b) # None
      PROVE  \E i \in J : Holder(s, id, b) = s[i]
  <2> HIDE DEF I, J
  <2>1. I # {}
    BY <1>1, <1>7
  <2>2. PICK i \in 1..Len(s) : i = Min(I) /\ i \in I
    BY <1>5, <1>6, <2>1
  <2>3. i # 0
    BY <1>5
  <2>4. Holder(s, id, b) = s[i]
    BY <1>1, <2>1, <2>2, <2>3
  <2>5. i \in J
    BY <1>4, <2>2
  <2>6. QED
    BY <2>4, <2>5, Zenon
<1>8. FirstWith(s, LAMBDA p : <<id, b>> \in EntryNames(p)) = Holder(s, id, b)
  <2> HIDE DEF I, J
  <2>1. QED
    BY <1>1, <1>2, <1>4
<1>9. ASSUME Holder(s, id, b) # None
      PROVE  Holder(s, id, b) \in 1..Len(nps) /\ <<id, b>> \in EntryNames(Holder(s, id, b))
  <2>1. PICK i \in J : Holder(s, id, b) = s[i]
    BY <1>7, <1>9
  <2>2. QED
    BY <1>3, <2>1
<1>10. QED
  BY <1>8, <1>9

LEMMA LookupHolds ==
  ASSUME NamesIInv
  PROVE  LookupIsScoped
<1> SUFFICES ASSUME Going, NEW id \in Idents, NEW b \in BOOLEAN
             PROVE  LET at == {d \in 2..Len(scopes) : <<id, b>> \in DOMAIN seen[d]}
                        d == CHOOSE d \in at : \A e \in at : e <= d
                        chain == IF Unit THEN Parents(Applied) ELSE <<>>
                        np == FirstWith(chain, LAMBDA p : <<id, b>> \in EntryNames(p))
                    IN  find_ident(id, b) =
                          IF at # {} THEN seen[d][<<id, b>>]
                          ELSE Get(Table(1, b), IF np # None THEN nps[np].prefix \o id ELSE id)
  BY DEF LookupIsScoped
<1>1. Typed /\ NamesInv /\ nps \in Lists /\ id \in Seq(Atoms)
  BY IdentIs DEF NamesIInv, Typed
<1>2. PICK D \in Nat \ {0} : D = Len(scopes) /\ DOMAIN scopes = 1..D
  BY <1>1, ScopesAre DEF Typed
<1> DEFINE at == {d \in 2..D : <<id, b>> \in DOMAIN seen[d]}
           here == {d \in 1..D : id \in DOMAIN Table(d, b)}
           chain == IF Unit THEN Parents(Applied) ELSE <<>>
           np == Holder(chain, id, b)
           ret == IF here = {} THEN None ELSE Table(CHOOSE d \in here : \A e \in here : e <= d, b)[id]
<1>3. chain \in Seq(1..Len(nps))
  <2>1. PICK a \in 0..Len(nps) : a = Applied
    BY <1>1, AppliedIs
  <2>2. Parents(a) \in Seq(1..Len(nps))
    BY <1>1, ParentsAre
  <2>3. <<>> \in Seq(1..Len(nps))
    OBVIOUS
  <2>4. QED
    BY <2>1, <2>2, <2>3
<1>4. find_ident(id, b) = IF here # {} /\ (CHOOSE d \in here : \A e \in here : e <= d) > 1 THEN ret
                          ELSE IF np # None THEN np_contains(nps[np], id, b) ELSE ret
  BY <1>2 DEF find_ident, Holder
<1>5. \A d \in 2..D : /\ d \in at <=> d \in here
                      /\ d \in at => seen[d][<<id, b>>] = Table(d, b)[id]
  <2> SUFFICES ASSUME NEW d \in 2..D
               PROVE  /\ d \in at <=> d \in here
                      /\ d \in at => seen[d][<<id, b>>] = Table(d, b)[id]
    OBVIOUS
  <2>1. d \in 1..Len(scopes) /\ d \in 2..Len(scopes)
    BY <1>2
  <2>2. Holds(seen[d], scopes[d]) /\ Table(d, b) = Of(scopes[d], b)
    BY <1>1, <2>1, ScopesAre DEF NamesInv, BlocksHold
  <2>3. /\ <<id, b>> \in DOMAIN seen[d] <=> id \in DOMAIN Table(d, b)
        /\ <<id, b>> \in DOMAIN seen[d] => seen[d][<<id, b>>] = Table(d, b)[id]
    BY <1>1, <2>2 DEF Holds
  <2>4. QED
    BY <1>2, <2>1, <2>3
<1>6. /\ FirstWith(chain, LAMBDA p : <<id, b>> \in EntryNames(p)) = np
      /\ np # None => np \in 1..Len(nps) /\ <<id, b>> \in EntryNames(np)
  <2> HIDE DEF chain
  <2>1. QED
    BY <1>1, <1>3, HolderIs
<1> HIDE DEF chain, np
<1> SUFFICES find_ident(id, b) =
               IF at # {} THEN seen[CHOOSE d \in at : \A e \in at : e <= d][<<id, b>>]
               ELSE Get(Table(1, b), IF np # None THEN nps[np].prefix \o id ELSE id)
  BY <1>2, <1>6 DEF chain
<1>7. CASE at # {}
  <2> HIDE DEF at, here
  <2>1. PICK d \in at : (\A e \in at : e <= d) /\ (CHOOSE x \in at : \A e \in at : e <= x) = d
    <3>1. at \in SUBSET (1..D)
      BY DEF at
    <3>2. QED
      BY <1>7, <3>1, GreatestIs
  <2>2. here \in SUBSET (1..D) /\ d \in 2..D
    BY DEF at, here
  <2>3. d \in here
    BY <1>5, <2>1, <2>2
  <2>4. PICK f \in here : (\A e \in here : e <= f) /\ (CHOOSE x \in here : \A e \in here : e <= x) = f
    BY <2>2, <2>3, GreatestIs
  <2>5. d <= f /\ f \in 2..D
    BY <2>2, <2>3, <2>4
  <2>6. f \in at
    BY <1>5, <2>4, <2>5
  <2>7. f = d
    BY <2>1, <2>2, <2>5, <2>6
  <2>8. ret = Table(d, b)[id] /\ d > 1
    <3>1. here # {}
      BY <2>3
    <3>2. (CHOOSE x \in here : \A e \in here : e <= x) = d
      BY <2>4, <2>7
    <3>3. ret = Table(d, b)[id]
      BY <3>1, <3>2
    <3>4. d > 1
      BY <1>2, <2>2
    <3>5. QED
      BY <3>3, <3>4
  <2>9. find_ident(id, b) = Table(d, b)[id]
    BY <1>4, <2>3, <2>4, <2>7, <2>8
  <2>10. QED
    BY <1>5, <1>7, <2>1, <2>2, <2>9
<1>8. CASE at = {}
  <2>1. here \subseteq {1}
    BY <1>5, <1>8
  <2>2. ret = Get(Table(1, b), id) /\ (here # {} => ~((CHOOSE d \in here : \A e \in here : e <= d) > 1))
    <3>1. CASE here = {}
      <4>1. id \notin DOMAIN Table(1, b)
        BY <1>2, <3>1
      <4>2. QED
        BY <3>1, <4>1 DEF Get
    <3>2. CASE here # {}
      <4>1. here = {1} /\ id \in DOMAIN Table(1, b)
        BY <2>1, <3>2
      <4>2. (CHOOSE d \in {1} : \A e \in {1} : e <= d) = 1
        OBVIOUS
      <4>3. QED
        BY <3>2, <4>1, <4>2 DEF Get
    <3>3. QED
      BY <3>1, <3>2
  <2> HIDE DEF here, at
  <2>3. find_ident(id, b) = IF np # None THEN np_contains(nps[np], id, b) ELSE Get(Table(1, b), id)
    BY <1>4, <2>2
  <2>4. np # None => np_contains(nps[np], id, b) = Get(Table(1, b), nps[np].prefix \o id)
    BY <1>1, <1>6, EntryFound
  <2>5. QED
    BY <1>8, <2>3, <2>4
<1>9. QED
  BY <1>7, <1>8

LEMMA CalledIn ==
  ASSUME NEW L, NEW m \in Nat, NEW s \in Seq(1..m), NEW n
  PROVE  Called(L, s, n) \in 0..m
<1>1. FoundFirst(L, s, n)
  BY CalledFirst
<1>2. CASE Called(L, s, n) = None
  BY <1>2 DEF None
<1>3. CASE Called(L, s, n) # None
  <2>1. PICK i \in 1..Len(s) : Called(L, s, n) = s[i]
    BY <1>1, <1>3 DEF FoundFirst
  <2>2. s[i] \in 1..m
    OBVIOUS
  <2>3. QED
    BY <2>1, <2>2
<1>4. QED
  BY <1>2, <1>3

\* Where QualifiedIsFound looks for the first name of a path, and what it finds
\* for each name of it.
Inside(n) == {i \in DOMAIN Parents(Applied) :
                \E c \in Range(nps[Parents(Applied)[i]].nested) : nps[c].name = n}
Near(path) ==
  IF AliasDepth(path[1]) > 0
  THEN scopes[AliasDepth(path[1])].aliases[path[1]]
  ELSE IF Inside(path[1]) = {} THEN get_np(None, path[1])
       ELSE Called(nps, nps[Parents(Applied)[CHOOSE i \in Inside(path[1]) : \A j \in Inside(path[1]) : i <= j]].nested,
                   path[1])
InnerStep(f, near, path) ==
  [k \in 1..Len(path) |-> IF k = 1 THEN near ELSE IF f[k - 1] = None THEN None
                          ELSE Called(nps, nps[f[k - 1]].nested, path[k])]
Inner(near, path) == CHOOSE f : f = InnerStep(f, near, path)

LEMMA InnerIs ==
  ASSUME nps \in Lists, NEW near \in 0..Len(nps), NEW path, Len(path) \in Nat \ {0}
  PROVE  /\ Inner(near, path)[1] = near
         /\ \A k \in 2..Len(path) :
              Inner(near, path)[k] = IF Inner(near, path)[k - 1] = None THEN None
                                     ELSE Called(nps, nps[Inner(near, path)[k - 1]].nested, path[k])
         /\ \A k \in 1..Len(path) : Inner(near, path)[k] \in 0..Len(nps)
<1> DEFINE K == Len(path)
           S == 0..Len(nps)
           Next1(x, k) == IF k = 1 THEN near ELSE IF x = None THEN None ELSE Called(nps, nps[x].nested, path[k])
           F == Inner(near, path)
<1>1. K \in Nat \ {0} /\ Len(nps) \in Nat /\ near \in S /\ 0 \in S
  BY ListIs
<1>2. ASSUME NEW k \in 1..K, NEW x \in S PROVE Next1(x, k) \in S
  <2>1. CASE x = None \/ k = 1
    BY <1>1, <2>1 DEF None
  <2>2. CASE x # None /\ k # 1
    <3>1. x \in 1..Len(nps)
      BY <1>1, <2>2 DEF None
    <3>2. PICK m \in Nat : m = Len(nps)
      BY <1>1
    <3>3. PICK s \in Seq(1..m) : s = nps[x].nested
      BY <3>1, <3>2, ListIs
    <3>4. Called(nps, s, path[k]) \in 0..m
      BY CalledIn
    <3>5. QED
      BY <2>2, <3>2, <3>3, <3>4
  <2>3. QED
    BY <2>1, <2>2
<1>3. ASSUME NEW f PROVE InnerStep(f, near, path) = [k \in 1..K |-> Next1(f[k - 1], k)]
  BY DEF InnerStep
<1>4. ASSUME NEW x, NEW y PROVE Next1(x, 1) = Next1(y, 1)
  OBVIOUS
<1>5. F = InnerStep(F, near, path)
  <2> DEFINE h == [k \in 1..K |-> [x \in S |-> Next1(x, k)]]
  <2>1. h \in [1..K -> [S -> S]]
    BY <1>2
  <2>2. \A k \in 1..K, x \in S : h[k][x] = Next1(x, k)
    OBVIOUS
  <2> HIDE DEF h, K, S, Next1
  <2>3. PICK g \in [0..K -> S] : Follows(g, K, near, h)
    BY <1>1, <2>1, Recursion
  <2> DEFINE f == [k \in 1..K |-> g[k]]
  <2>4. ASSUME NEW k \in 1..K PROVE f[k] = Next1(f[k - 1], k)
    <3>1. k - 1 \in 0..K /\ k \in 0..K
      BY <1>1
    <3>2. g[k] = Next1(g[k - 1], k)
      <4>1. g[k] = h[k][g[k - 1]]
        BY <2>3 DEF Follows
      <4>2. QED
        BY <2>2, <3>1, <4>1
    <3>3. CASE k = 1
      BY <1>4, <3>2, <3>3
    <3>4. CASE k # 1
      <4>1. k - 1 \in 1..K
        BY <1>1, <3>4
      <4>2. QED
        BY <3>2, <4>1
    <3>5. QED
      BY <3>3, <3>4
  <2>5. f = [k \in 1..K |-> Next1(f[k - 1], k)]
    <3>1. \A k \in 1..K : f[k] = Next1(f[k - 1], k)
      BY <2>4
    <3> DEFINE v == [k \in 1..K |-> Next1(f[k - 1], k)]
    <3>2. \A k \in 1..K : f[k] = v[k]
      BY <3>1
    <3>3. f = v
      BY <3>2
    <3>4. QED
      BY <3>3
  <2> HIDE DEF f
  <2>6. f = InnerStep(f, near, path)
    BY <1>3, <2>5
  <2>7. QED
    BY <2>6 DEF Inner
<1> HIDE DEF F
<1>6. \A k \in 1..K : F[k] = Next1(F[k - 1], k)
  <2> DEFINE v == [k \in 1..K |-> Next1(F[k - 1], k)]
  <2>1. F = v
    BY <1>3, <1>5
  <2>2. \A k \in 1..K : v[k] = Next1(F[k - 1], k)
    OBVIOUS
  <2> HIDE DEF v, Next1
  <2>3. QED
    BY <2>1, <2>2
<1>7. F[1] = near
  BY <1>1, <1>6
<1>8. \A k \in 2..K : F[k] = IF F[k - 1] = None THEN None ELSE Called(nps, nps[F[k - 1]].nested, path[k])
  BY <1>1, <1>6
<1> DEFINE G == {i \in 0..K : i # 0 => F[i] \in S}
<1> HIDE DEF Next1, K, S
<1>9. 0 \in G
  BY <1>1
<1>10. \A i \in 1..K : i - 1 \in G => i \in G
  <2> SUFFICES ASSUME NEW i \in 1..K, i - 1 \in G PROVE F[i] \in S
    BY <1>1
  <2>1. CASE i = 1
    BY <1>1, <1>7, <2>1
  <2>2. CASE i # 1
    <3>1. F[i - 1] \in S
      BY <1>1, <2>2
    <3>2. QED
      BY <1>2, <1>6, <3>1
  <2>3. QED
    BY <2>1, <2>2
<1> HIDE DEF G
<1>11. \A i \in 0..K : i \in G
  BY <1>1, <1>9, <1>10, Induct, Zenon
<1>12. \A i \in 1..K : F[i] \in S
  BY <1>1, <1>11 DEF G
<1>13. QED
  BY <1>7, <1>8, <1>12 DEF F, K, S

LEMMA InnerLeads ==
  ASSUME nps \in Lists, NEW near \in 0..Len(nps), NEW path, Len(path) \in Nat \ {0},
         Inner(near, path)[Len(path)] # None
  PROVE  /\ \A k \in 1..Len(path) : Inner(near, path)[k] \in 1..Len(nps)
         /\ \A k \in 2..Len(path) :
              Inner(near, path)[k] = Called(nps, nps[Inner(near, path)[k - 1]].nested, path[k])
<1>1. PICK K \in Nat \ {0} : K = Len(path)
  OBVIOUS
<1>2. PICK f : f = Inner(near, path)
  OBVIOUS
<1>3. /\ \A k \in 2..K : f[k] = IF f[k - 1] = None THEN None ELSE Called(nps, nps[f[k - 1]].nested, path[k])
      /\ \A k \in 1..K : f[k] \in 0..Len(nps)
      /\ f[K] # None
  BY <1>1, <1>2, InnerIs
<1> DEFINE G == {j \in 0..(K - 1) : f[K - j] # None}
<1>4. 0 \in G
  BY <1>3
<1>5. ASSUME NEW j \in 1..(K - 1), j - 1 \in G PROVE j \in G
  <2>1. PICK k \in 2..K : k = K - (j - 1) /\ k - 1 = K - j
    <3>1. K - (j - 1) \in 2..K /\ K - (j - 1) - 1 = K - j
      OBVIOUS
    <3>2. QED
      BY <3>1
  <2>2. f[k] # None
    BY <1>5, <2>1
  <2>3. f[k - 1] # None
    BY <1>3, <2>2
  <2>4. QED
    BY <2>1, <2>3
<1> HIDE DEF G
<1>6. \A j \in 0..(K - 1) : j \in G
  <2>1. \A j \in 1..(K - 1) : j - 1 \in G => j \in G
    BY <1>5
  <2>2. PICK m \in Nat : m = K - 1
    OBVIOUS
  <2>3. QED
    BY <1>4, <2>1, <2>2, Induct, Zenon
<1>7. \A k \in 1..K : f[k] # None
  <2> SUFFICES ASSUME NEW k \in 1..K PROVE f[k] # None
    OBVIOUS
  <2>1. K - k \in 0..(K - 1) /\ K - (K - k) = k
    OBVIOUS
  <2>2. QED
    BY <1>6, <2>1 DEF G
<1>8. \A k \in 1..K : f[k] \in 1..Len(nps)
  <2>1. Len(nps) \in Nat
    BY ListIs
  <2>2. QED
    BY <1>3, <1>7, <2>1 DEF None
<1>9. \A k \in 2..K : f[k] = Called(nps, nps[f[k - 1]].nested, path[k])
  BY <1>3, <1>7
<1>10. QED
  BY <1>1, <1>2, <1>8, <1>9

LEMMA NearFirst ==
  ASSUME Typed, NEW path, Len(path) \in Nat \ {0}, AliasDepth(path[1]) = 0, Near(path) # None
  PROVE  First(Applied, path[1], Near(path)) /\ Near(path) \in 0..Len(nps)
<1>1. nps \in Lists /\ outer \in Seq(1..Len(nps)) /\ Applied \in 0..Len(nps) /\ Len(nps) \in Nat
  BY AppliedIs, ListIs DEF Typed
<1>2. PICK n : n = path[1]
  OBVIOUS
<1>3. PICK a \in 0..Len(nps) : a = Applied
  BY <1>1
<1>4. PICK around \in Seq(1..Len(nps)) : around = Parents(a)
  BY <1>1, ParentsAre
<1>5. PICK lists \in Seq(Seq(1..Len(nps))) :
        /\ lists = Searched(a) /\ Len(lists) = Len(around) + 1 /\ lists[Len(around) + 1] = outer
        /\ \A i \in 1..Len(around) : lists[i] = nps[around[i]].nested
  BY <1>1, <1>4, SearchedIs
<1>6. PICK I : I = Inside(n)
  OBVIOUS
<1>7. Len(around) \in Nat /\ DOMAIN around = 1..Len(around)
  OBVIOUS
<1>8. I = {i \in 1..Len(around) : \E c \in Range(nps[around[i]].nested) : nps[c].name = n}
  BY <1>3, <1>4, <1>6, <1>7 DEF Inside
<1>9. Near(path) = IF I = {} THEN get_np(None, n)
                   ELSE Called(nps, nps[around[CHOOSE i \in I : \A j \in I : i <= j]].nested, n)
  BY <1>2, <1>3, <1>4, <1>6 DEF Near
<1>10. ASSUME NEW h \in 1..Len(around), h \notin I, NEW j \in 1..Len(lists[h])
       PROVE  nps[lists[h][j]].name # n
  <2>1. PICK s \in Seq(1..Len(nps)) : s = nps[around[h]].nested /\ s = lists[h]
    <3>1. lists[h] = nps[around[h]].nested /\ h \in 1..Len(lists)
      BY <1>5, <1>7, SMTT(30)
    <3>2. QED
      BY <3>1, SMTT(30)
  <2>2. s[j] \in Range(s)
    BY <1>10, <2>1, SMTT(30) DEF Range
  <2>3. QED
    BY <1>8, <1>10, <2>1, <2>2
<1>11. \E i \in 1..Len(lists) : /\ Near(path) = Called(nps, lists[i], n)
                                /\ \A h \in 1..(i - 1) : \A j \in 1..Len(lists[h]) : nps[lists[h][j]].name # n
  <2>1. CASE I = {}
    <3>1. Near(path) = Called(nps, outer, n)
      BY <1>9, <2>1 DEF get_np, Called
    <3>2. PICK i \in 1..Len(lists) : i = Len(around) + 1 /\ i - 1 = Len(around)
      BY <1>5, <1>7
    <3>3. Near(path) = Called(nps, lists[i], n)
      BY <1>5, <3>1, <3>2
    <3>4. \A h \in 1..(i - 1) : \A j \in 1..Len(lists[h]) : nps[lists[h][j]].name # n
      BY <1>10, <2>1, <3>2
    <3>5. QED
      BY <3>3, <3>4
  <2>2. CASE I # {}
    <3>1. I \subseteq 1..Len(around)
      BY <1>8
    <3>2. PICK i \in I : i = (CHOOSE x \in I : \A y \in I : x <= y) /\ \A y \in I : i <= y
      BY <1>7, <2>2, <3>1, FirstIn DEF Min
    <3>3. i \in 1..Len(around) /\ i \in 1..Len(lists)
      BY <1>5, <1>7, <3>1
    <3>4. Near(path) = Called(nps, nps[around[i]].nested, n)
      BY <1>9, <2>2, <3>2
    <3>5. lists[i] = nps[around[i]].nested
      BY <1>5, <3>3
    <3>6. ASSUME NEW h \in 1..(i - 1) PROVE h \in 1..Len(around) /\ h \notin I
      <4>1. h \in Nat /\ i \in Nat /\ h < i /\ h \in 1..Len(around)
        BY <1>7, <3>3
      <4>2. ~(i <= h)
        BY <4>1
      <4>3. QED
        BY <3>2, <4>1, <4>2
    <3>7. \A h \in 1..(i - 1) : \A j \in 1..Len(lists[h]) : nps[lists[h][j]].name # n
      BY <1>10, <3>6
    <3>8. QED
      BY <3>3, <3>4, <3>5, <3>7
  <2>3. QED
    BY <2>1, <2>2
<1>12. PICK i \in 1..Len(lists) : /\ Near(path) = Called(nps, lists[i], n)
                                  /\ \A h \in 1..(i - 1) : \A j \in 1..Len(lists[h]) : nps[lists[h][j]].name # n
  BY <1>11
<1>13. First(a, n, Called(nps, Searched(a)[i], n))
  <2>1. i \in 1..Len(Searched(a)) /\ Called(nps, Searched(a)[i], n) # None
    BY <1>5, <1>12
  <2>2. \A h \in 1..(i - 1) : \A j \in 1..Len(Searched(a)[h]) : nps[Searched(a)[h][j]].name # n
    BY <1>5, <1>12
  <2>3. QED
    BY <1>1, <2>1, <2>2, FirstAt
<1>14. Near(path) \in 0..Len(nps)
  <2>1. PICK m \in Nat : m = Len(nps)
    BY <1>1
  <2>2. lists[i] \in Seq(1..m)
    BY <2>1
  <2>3. Called(nps, lists[i], n) \in 0..m
    BY <2>2, CalledIn
  <2>4. QED
    BY <1>12, <2>1, <2>3
<1>15. QED
  BY <1>2, <1>3, <1>5, <1>12, <1>13, <1>14

\* What QualifiedIsFound says of one name.
LeadsOn(path, id, b) ==
  LET np == Inner(Near(path), path)[Len(path)]
  IN  np # None /\ <<id, b>> \in EntryNames(np)
      => find_qualified(path, id, b) = Get(Table(1, b), nps[np].prefix \o id)

LEMMA NearIs ==
  ASSUME Typed, NEW path, Len(path) \in Nat \ {0}
  PROVE  Near(path) \in 0..Len(nps)
<1>1. CASE AliasDepth(path[1]) # 0
  <2>1. AliasDepth(path[1]) > 0
    <3>1. AliasDepth(path[1]) \in 0..Len(scopes)
      BY AliasIs
    <3>2. QED
      BY <1>1, <3>1
  <2>2. Near(path) \in 1..Len(nps)
    BY <1>1, <2>1, AliasIs DEF Near
  <2>3. QED
    BY <2>2
<1>2. CASE AliasDepth(path[1]) = 0
  <2>1. CASE Near(path) = None
    BY <2>1, ScopesAre DEF None
  <2>2. CASE Near(path) # None
    BY <1>2, <2>2, NearFirst
  <2>3. QED
    BY <2>1, <2>2
<1>3. QED
  BY <1>1, <1>2

LEMMA LeadsOnHolds ==
  ASSUME Typed, NamesInv, NEW path \in Paths, NEW id, NEW b \in BOOLEAN
  PROVE  LeadsOn(path, id, b)
<1>1. path \in Seq(Range(path)) /\ Len(path) \in Nat \ {0}
  BY PathIs DEF PathsUsed
<1>2. nps \in Lists /\ outer \in Seq(1..Len(nps)) /\ Applied \in 0..Len(nps)
  BY AppliedIs DEF Typed
<1>3. PICK near \in 0..Len(nps) : near = Near(path)
  BY <1>1, NearIs
<1>4. PICK K \in Nat \ {0} : K = Len(path)
  BY <1>1
<1>5. PICK f : f = Inner(near, path)
  OBVIOUS
<1> SUFFICES ASSUME f[K] # None, <<id, b>> \in EntryNames(f[K])
             PROVE  find_qualified(path, id, b) = Get(Table(1, b), nps[f[K]].prefix \o id)
  BY <1>3, <1>4, <1>5 DEF LeadsOn
<1>6. /\ f[1] = near
      /\ \A k \in 1..K : f[k] \in 1..Len(nps)
      /\ \A k \in 2..K : f[k] = Called(nps, nps[f[k - 1]].nested, path[k])
  <2>1. Inner(near, path)[Len(path)] # None
    BY <1>4, <1>5
  <2>2. Inner(near, path)[1] = near
    BY <1>1, <1>2, InnerIs
  <2>3. /\ \A k \in 1..Len(path) : Inner(near, path)[k] \in 1..Len(nps)
        /\ \A k \in 2..Len(path) :
             Inner(near, path)[k] = Called(nps, nps[Inner(near, path)[k - 1]].nested, path[k])
    BY <1>1, <1>2, <2>1, InnerLeads
  <2>4. QED
    BY <1>4, <1>5, <2>2, <2>3
<1>7. PICK p \in 1..Len(nps) : p = f[K]
  BY <1>6
<1>8. PICK e : e = np_contains(nps[p], id, b)
  OBVIOUS
<1>9. e # None /\ e = Get(Table(1, b), nps[p].prefix \o id)
  BY <1>7, <1>8, EntryFound
<1>10. PICK want : want = <<id, b>>
  OBVIOUS
<1>11. Leaf(p, want) = [np |-> p, entity |-> e]
  <2>1. want # <<>> /\ want[1] = id /\ want[2] = b
    BY <1>10
  <2>2. QED
    BY <1>8, <1>9, <2>1 DEF Leaf
<1>12. Leaf(p, want) # Nothing
  BY <1>9, <1>11 DEF Nothing
<1>13. near \in 1..Len(nps)
  <2>1. 1 \in 1..K
    OBVIOUS
  <2>2. QED
    BY <1>6, <2>1
<1>14. get_np_from_access(path, want) = Leaf(p, want)
  <2>1. CASE AliasDepth(path[1]) # 0
    <3>1. near = scopes[AliasDepth(path[1])].aliases[path[1]]
      <4>1. AliasDepth(path[1]) \in 0..Len(scopes) /\ Len(scopes) \in Nat
        BY AliasIs, ScopesAre
      <4>2. AliasDepth(path[1]) > 0
        BY <2>1, <4>1
      <4>3. QED
        BY <1>3, <4>2 DEF Near
    <3>2. CASE K = 1
      <4>1. p = near
        BY <1>6, <1>7, <3>2
      <4>2. QED
        BY <1>4, <1>12, <2>1, <3>1, <3>2, <4>1 DEF get_np_from_access
    <3>3. CASE K # 1
      <4>1. PICK access \in Seq(Range(path)) : access = Tail(path)
        <5>1. path # <<>>
          BY <1>1
        <5>2. Tail(path) \in Seq(Range(path))
          BY <1>1, <5>1, HeadTailProperties
        <5>3. QED
          BY <5>2
      <4>2. Len(access) = K - 1 /\ \A k \in 1..(K - 1) : access[k] = path[k + 1]
        BY <1>1, <1>4, <3>3, <4>1
      <4>3. PICK M \in Nat \ {0} : M = K - 1
        BY <3>3
      <4> DEFINE inner == [k \in 1..M |-> f[k + 1]]
      <4>4. \A k \in 1..M : inner[k] = f[k + 1] /\ k + 1 \in 2..K /\ inner[k] \in 1..Len(nps)
        BY <1>6, <4>3
      <4> HIDE DEF inner
      <4>5. \A k \in 2..M : inner[k] = Called(nps, nps[inner[k - 1]].nested, access[k])
        <5> SUFFICES ASSUME NEW k \in 2..M
                     PROVE  inner[k] = Called(nps, nps[inner[k - 1]].nested, access[k])
          OBVIOUS
        <5>1. PICK j \in 2..K : j = k + 1
          BY <4>3
        <5>2. inner[k] = f[j] /\ inner[k - 1] = f[j - 1] /\ access[k] = path[j]
          <6>1. k \in 1..M /\ k - 1 \in 1..M /\ (k - 1) + 1 = j - 1 /\ k \in 1..(K - 1)
            BY <4>3, <5>1
          <6>2. QED
            BY <4>2, <4>4, <5>1, <6>1
        <5>3. QED
          BY <1>6, <5>1, <5>2
      <4>6. First(near, access[1], inner[1])
        <5>1. PICK c \in 1..Len(nps) : c = f[2]
          BY <1>6, <3>3
        <5>2. PICK n : n = path[2]
          OBVIOUS
        <5>3. c = Called(nps, nps[near].nested, n)
          <6>1. 2 \in 2..K /\ 2 - 1 = 1
            BY <3>3
          <6>2. PICK j \in 2..K : j = 2 /\ j - 1 = 1
            BY <6>1
          <6>3. f[j] = Called(nps, nps[f[j - 1]].nested, path[j])
            BY <1>6
          <6>4. QED
            BY <1>6, <5>1, <5>2, <6>2, <6>3
        <5>4. c # None
          BY DEF None
        <5>5. First(near, n, c)
          BY <1>2, <1>13, <5>3, <5>4, FirstInside
        <5>6. inner[1] = c /\ access[1] = n
          BY <4>2, <4>3, <4>4, <5>1, <5>2
        <5>7. QED
          BY <5>5, <5>6
      <4>7. Len(access) = M
        BY <4>2, <4>3
      <4>8. Leads(near, access, inner)
        BY <4>4, <4>5, <4>6, <4>7 DEF Leads
      <4>9. inner[M] = p
        BY <1>7, <4>3, <4>4
      <4>10. get_np_from_access_starting_from(near, access, want) = Leaf(p, want)
        <5>1. Leaf(inner[Len(access)], want) # Nothing /\ near \in 0..Len(nps) /\ Len(access) \in Nat \ {0}
          BY <1>12, <4>7, <4>9
        <5>2. get_np_from_access_starting_from(near, access, want) = Leaf(inner[Len(access)], want)
          BY <1>2, <4>8, <5>1, StraightOn
        <5>3. QED
          BY <4>7, <4>9, <5>2
      <4>11. QED
        BY <1>4, <1>12, <2>1, <3>1, <3>3, <4>1, <4>10 DEF get_np_from_access
    <3>4. QED
      BY <3>2, <3>3
  <2>2. CASE AliasDepth(path[1]) = 0
    <3>1. near # None
      BY <1>13 DEF None
    <3>2. First(Applied, path[1], near)
      BY <1>1, <1>3, <2>2, <3>1, NearFirst
    <3>3. Leads(Applied, path, f)
      BY <1>4, <1>6, <3>2 DEF Leads
    <3>4. get_np_from_access_starting_from(Applied, path, want) = Leaf(p, want)
      BY <1>2, <1>4, <1>7, <1>12, <3>3, StraightOn
    <3>5. QED
      BY <2>2, <3>4 DEF get_np_from_access
  <2>3. QED
    BY <2>1, <2>2
<1>15. find_qualified(path, id, b) = e
  BY <1>10, <1>11, <1>14 DEF find_qualified
<1>16. QED
  BY <1>7, <1>9, <1>15

LEMMA QualifiedHolds ==
  ASSUME NamesIInv
  PROVE  QualifiedIsFound
<1> SUFFICES ASSUME Going
             PROVE  /\ \A np \in DOMAIN nps : get_np_by_name(None, nps[np].written) = np
                    /\ \A path \in Paths, id \in Idents, b \in BOOLEAN : LeadsOn(path, id, b)
  BY DEF QualifiedIsFound, LeadsOn, Inner, InnerStep, Near, Inside, Called
<1>1. Typed /\ NamesInv /\ WrittenLeads(nps, outer) /\ nps \in Lists /\ outer \in Seq(1..Len(nps))
  BY DEF NamesIInv, Typed
<1>2. ASSUME NEW np \in DOMAIN nps PROVE get_np_by_name(None, nps[np].written) = np
  <2>1. np \in 1..Len(nps) /\ Len(nps) \in Nat
    BY <1>1, ListIs
  <2>2. PICK path \in Seq(Words) : path = nps[np].written
    BY <1>1, <2>1, ListIs
  <2>3. LeadsTo(nps, outer, path, np)
    BY <1>1, <2>1, <2>2 DEF WrittenLeads
  <2>4. Len(path) # 0
    <3>1. ASSUME Len(path) = 0 PROVE FALSE
      <4>1. np = None
        BY <2>3, <3>1 DEF LeadsTo, Walks
      <4>2. QED
        BY <2>1, <4>1 DEF None
    <3>2. QED
      BY <3>1
  <2>5. Len(path) \in Nat \ {0} /\ None \in 0..Len(nps)
    BY <2>1, <2>4 DEF None
  <2>6. get_np_by_name(None, path) = np
    BY <1>1, <2>3, <2>5, ByName
  <2>7. QED
    BY <2>2, <2>6
<1>3. \A path \in Paths, id \in Idents, b \in BOOLEAN : LeadsOn(path, id, b)
  BY <1>1, LeadsOnHolds
<1>4. QED
  BY <1>2, <1>3

\* Whatever is declared, and whatever prefix scopes are open, A::x and A_x are
\* one thing: each entry of a prefix is what the file scope knows under the
\* prefixed name, and _Global has all the file scope has (push_gvar_name,
\* push_tag_scope, consider_ident_for_all_capture_prefix_scopes).
THEOREM EntriesDeclared == Spec /\ FaultsLeftOut => []EntriesAreDeclared
<1>1. NamesIInv => EntriesAreDeclared
  BY EntriesHold
<1>2. QED
  BY <1>1, NamesInvariant, PTL

\* A plain name is its innermost declaration in a block, then the member of the
\* innermost open prefix that has it, then what the file scope has, at every
\* depth of blocks and of prefixes (find_ident).
THEOREM LookupScoped == Spec /\ FaultsLeftOut => []LookupIsScoped
<1>1. NamesIInv => LookupIsScoped
  BY LookupHolds
<1>2. QED
  BY <1>1, NamesInvariant, PTL

\* The search of an access takes the entry that its names lead to one inside
\* the other, for paths of any length, and the path a prefix was written with
\* goes on leading to it (get_np_from_access_starting_from, get_np_by_name).
THEOREM QualifiedFound == Spec /\ FaultsLeftOut => []QualifiedIsFound
<1>1. NamesIInv => QualifiedIsFound
  BY QualifiedHolds
<1>2. QED
  BY <1>1, NamesInvariant, PTL

=============================================================================
