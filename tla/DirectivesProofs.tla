-------------------------- MODULE DirectivesProofs --------------------------
(***************************************************************************)
(* Proofs about Directives, for every set of files.                        *)
(*                                                                         *)
(* That skip_cond_incl, its counter and two flags per group amount to the  *)
(* rule of C needs to know that a group outside of a skipped part has had  *)
(* its turn or is in its #else (TakenOrElse), and that nothing is counted  *)
(* outside of skip_cond_incl (SkipState).                                  *)
(*                                                                         *)
(* That #pragma once at the head of a file works needs to know where lines *)
(* of that file can be before the pragma is seen: nowhere, or in front of  *)
(* everything else, beginning with the pragma (Ready).                     *)
(*                                                                         *)
(* That an include guard hides nothing needs to know how many groups are   *)
(* open at each line to come, in this file and in those that include it    *)
(* (Queued), and that the lines read of a file whose first group may be    *)
(* its guard are inside of that group and begin no other part of it        *)
(* (Openers).                                                              *)
(***************************************************************************)
EXTENDS Directives, SequenceTheorems, WellFoundedInduction, TLAPS

Files == DOMAIN tree
Lines == UNION {{tree[f][i] : i \in 1..Len(tree[f])} : f \in Files}
Tokens == [d : {l.d : l \in Lines}, n : {l.n : l \in Lines}, file : Files,
           nth : Nat, at : Nat, is_incl_guard : BOOLEAN]
Conds(T) == [tok : T, is_else : BOOLEAN, been_active : BOOLEAN]

Typed ==
  /\ tree \in Trees
  /\ input \in Seq(Tokens) /\ compiled \in Seq(Tokens)
  /\ cond_incl \in Seq(Conds(Tokens))
  /\ skipping \in BOOLEAN /\ lvl \in Nat /\ includes \in Nat

SkipState ==
  /\ skipping => cond_incl # <<>>
  /\ ~skipping => lvl = 0

TakenOrElse ==
  \A i \in 1..Len(cond_incl) :
    ~(skipping /\ i = Len(cond_incl)) => cond_incl[i].been_active \/ cond_incl[i].is_else

GroupInv == Typed /\ SkipState /\ TakenOrElse

(* Lines are those of the files.                                           *)
IsLine(x) ==
  /\ x.at \in 1..Len(tree[x.file])
  /\ x.d = tree[x.file][x.at].d /\ x.n = tree[x.file][x.at].n
FromFiles ==
  /\ \A i \in 1..Len(input) : IsLine(input[i])
  /\ \A i \in 1..Len(compiled) : IsLine(compiled[i])

(* No line of f is compiled twice, or compiled and still to come, or to    *)
(* come twice.                                                             *)
Apart(x, y, f) == x.file = f /\ y.file = f => x.at # y.at
Unrepeated(f) ==
  /\ \A i, j \in 1..Len(compiled) : i # j => Apart(compiled[i], compiled[j], f)
  /\ \A i \in 1..Len(compiled), j \in 1..Len(input) : Apart(compiled[i], input[j], f)
  /\ \A i, j \in 1..Len(input) : i # j => Apart(input[i], input[j], f)

Unread(f) ==
  /\ \A i \in 1..Len(compiled) : compiled[i].file # f
  /\ \A i \in 1..Len(input) : input[i].file # f
AtPragma(f) == ~skipping /\ input # <<>> /\ input[1].file = f /\ input[1].at = 1
Ready(f) == f \in pragma_once \/ Unread(f) \/ AtPragma(f)

OnceFiles == {f \in Files : Len(tree[f]) > 0 /\ tree[f][1].d = "once"}
OnceInv == FromFiles /\ \A f \in OnceFiles : Unrepeated(f) /\ Ready(f)

----------------------------------------------------------------------------
(* Groups as a function of the state of the preprocessor; s is the group   *)
(* that is being skipped, or 0.                                            *)
TurnAt(c, s, i) ==
  IF i # s THEN "now" ELSE IF c[i].been_active THEN "past" ELSE "later"
Skipped == IF skipping THEN Len(cond_incl) ELSE 0
GroupAt(c, s, i) ==
  IF i <= Len(c) THEN [turn |-> TurnAt(c, s, i), is_else |-> c[i].is_else]
  ELSE [turn |-> "past", is_else |-> FALSE]
GroupsOf(c, s, l) == [i \in 1..(Len(c) + l) |-> GroupAt(c, s, i)]
Groups == [turn : {"now", "past", "later"}, is_else : BOOLEAN]

LEMMA GroupsAreGroupsOf == Typed => groups = GroupsOf(cond_incl, Skipped, lvl)
<1> SUFFICES ASSUME Typed PROVE groups = GroupsOf(cond_incl, Skipped, lvl)
  OBVIOUS
<1>1. Len(cond_incl) \in Nat /\ lvl \in Nat
  BY LenProperties DEF Typed
<1>2. \A i \in 1..Len(cond_incl) : TurnOf(i) = TurnAt(cond_incl, Skipped, i)
  BY <1>1 DEF TurnOf, TurnAt, Skipped
<1>3. QED
  BY <1>1, <1>2 DEF groups, GroupsOf, GroupAt

LEMMA FrontLast ==
  ASSUME NEW S, NEW q \in Seq(S), q # <<>>
  PROVE  /\ Len(q) \in Nat \ {0}
         /\ Last(q) \in S
         /\ Front(q) \in Seq(S)
         /\ Len(Front(q)) = Len(q) - 1
         /\ \A i \in 1..(Len(q) - 1) : Front(q)[i] = q[i]
<1>1. Len(q) \in Nat \ {0}
  BY EmptySeq
<1>2. PICK n \in Int : n = Len(q) - 1
  BY <1>1
<1>3. \A i \in 1..n : q[i] \in S
  BY <1>1, <1>2, ElementOfSeq
<1>4. /\ SubSeq(q, 1, n) \in Seq(S)
      /\ Len(SubSeq(q, 1, n)) = IF 1 <= n THEN n - 1 + 1 ELSE 0
      /\ \A i \in 1..n - 1 + 1 : SubSeq(q, 1, n)[i] = q[1 + i - 1]
  BY <1>3, SubSeqProperties
<1>5. Last(q) \in S
  BY <1>1, ElementOfSeq DEF Last
<1>6. QED
  BY <1>1, <1>2, <1>4, <1>5 DEF Front

LEMMA SameEnds == \A q : C!Front(q) = Front(q) /\ C!Last(q) = Last(q)
BY DEF C!Front, C!Last, Front, Last

LEMMA GroupFields ==
  ASSUME NEW c, NEW s, NEW i
  PROVE  /\ i <= Len(c) => /\ GroupAt(c, s, i).turn = TurnAt(c, s, i)
                           /\ GroupAt(c, s, i).is_else = c[i].is_else
         /\ i # s => TurnAt(c, s, i) = "now"
         /\ i = s => TurnAt(c, s, i) = IF c[i].been_active THEN "past" ELSE "later"
BY DEF GroupAt, TurnAt

LEMMA GroupsTyped ==
  ASSUME NEW T, NEW c \in Seq(Conds(T)), NEW s \in Nat, NEW l \in Nat
  PROVE  /\ GroupsOf(c, s, l) \in Seq(Groups)
         /\ Len(GroupsOf(c, s, l)) = Len(c) + l
         /\ \A i \in 1..(Len(c) + l) : GroupsOf(c, s, l)[i] = GroupAt(c, s, i)
<1>1. Len(c) \in Nat /\ \A i \in 1..Len(c) : c[i] \in Conds(T)
  BY LenProperties, ElementOfSeq
<1>2. \A i \in 1..(Len(c) + l) : GroupAt(c, s, i) \in Groups
  BY <1>1 DEF GroupAt, TurnAt, Groups, Conds
<1>3. PICK n \in Nat : n = Len(c) + l
  BY <1>1
<1>4. GroupsOf(c, s, l) \in [1..n -> Groups]
  BY <1>2, <1>3 DEF GroupsOf
<1>5. GroupsOf(c, s, l) \in Seq(Groups)
  BY <1>4, SeqDef
<1>6. Len(GroupsOf(c, s, l)) = n
  BY <1>4, <1>5, LenProperties
<1>7. QED
  BY <1>3, <1>5, <1>6 DEF GroupsOf

LEMMA NoneCounted ==
  ASSUME NEW T, NEW c \in Seq(Conds(T)), NEW s \in Nat
  PROVE  /\ GroupsOf(c, s, 0) \in Seq(Groups)
         /\ Len(GroupsOf(c, s, 0)) = Len(c)
         /\ \A i \in 1..Len(c) : GroupsOf(c, s, 0)[i] = GroupAt(c, s, i)
<1>1. Len(c) \in Nat /\ Len(c) + 0 = Len(c)
  BY LenProperties
<1>2. /\ GroupsOf(c, s, 0) \in Seq(Groups)
      /\ Len(GroupsOf(c, s, 0)) = Len(c) + 0
      /\ \A i \in 1..(Len(c) + 0) : GroupsOf(c, s, 0)[i] = GroupAt(c, s, i)
  BY GroupsTyped
<1>3. QED
  BY <1>1, <1>2

(* Two sequences of groups of the same length are equal group by group.    *)
LEMMA Opened ==
  ASSUME NEW T, NEW c \in Seq(Conds(T)), NEW t \in T, NEW h \in BOOLEAN
  PROVE  GroupsOf(Append(c, [tok |-> t, is_else |-> FALSE, been_active |-> h]),
                  IF h THEN 0 ELSE Len(c) + 1, 0)
           = C!Open(GroupsOf(c, 0, 0), h)
<1> DEFINE x == [tok |-> t, is_else |-> FALSE, been_active |-> h]
           d == Append(c, x)
           gs == GroupsOf(c, 0, 0)
           g == [turn |-> IF h THEN "now" ELSE "later", is_else |-> FALSE]
<1>k. PICK k \in Nat : k = IF h THEN 0 ELSE Len(c) + 1
  BY LenProperties
<1>1. x \in Conds(T)
  BY DEF Conds
<1>2. /\ d \in Seq(Conds(T)) /\ Len(d) = Len(c) + 1 /\ Len(c) \in Nat
      /\ \A i \in 1..Len(c) : d[i] = c[i]
      /\ d[Len(c) + 1] = x
  BY <1>1, AppendProperties, LenProperties
<1> HIDE DEF d
<1>3. /\ gs \in Seq(Groups) /\ Len(gs) = Len(c)
      /\ \A i \in 1..Len(c) : gs[i] = GroupAt(c, 0, i)
  BY <1>2, NoneCounted
<1>4. C!Open(gs, h) = Append(gs, g)
  <2>1. C!Active(gs)
    <3> SUFFICES ASSUME NEW i \in 1..Len(gs) PROVE gs[i].turn = "now"
      BY DEF C!Active
    <3>1. i # 0 /\ i <= Len(c) /\ gs[i] = GroupAt(c, 0, i)
      BY <1>2, <1>3
    <3>2. QED
      BY <3>1, GroupFields
  <2>2. QED
    BY <2>1 DEF C!Open, C!Group
<1>5. g \in Groups
  BY DEF Groups
<1> HIDE DEF gs
<1>6. /\ Append(gs, g) \in Seq(Groups) /\ Len(Append(gs, g)) = Len(c) + 1
      /\ \A i \in 1..Len(c) : Append(gs, g)[i] = gs[i]
      /\ Append(gs, g)[Len(c) + 1] = g
  BY <1>3, <1>5, AppendProperties
<1>7. /\ GroupsOf(d, k, 0) \in Seq(Groups) /\ Len(GroupsOf(d, k, 0)) = Len(c) + 1
      /\ \A i \in 1..(Len(c) + 1) : GroupsOf(d, k, 0)[i] = GroupAt(d, k, i)
  BY <1>2, NoneCounted
<1>8. \A i \in 1..Len(c) : GroupAt(d, k, i) = GroupAt(c, 0, i)
  BY <1>k, <1>2 DEF GroupAt, TurnAt
<1>9. GroupAt(d, k, Len(c) + 1) = g
  <2>1. PICK m \in Nat : m = Len(c) + 1
    BY <1>2
  <2>2. TurnAt(d, k, m) = (IF h THEN "now" ELSE "later") /\ d[m].is_else = FALSE
    BY <1>k, <1>2, <2>1 DEF TurnAt
  <2>3. GroupAt(d, k, m) = [turn |-> TurnAt(d, k, m), is_else |-> d[m].is_else]
    BY <1>2, <2>1 DEF GroupAt
  <2>4. QED
    BY <2>1, <2>2, <2>3
<1>10. \A i \in 1..(Len(c) + 1) : GroupsOf(d, k, 0)[i] = Append(gs, g)[i]
  BY <1>2, <1>3, <1>6, <1>7, <1>8, <1>9
<1>11. GroupsOf(d, k, 0) = Append(gs, g)
  BY <1>6, <1>7, <1>10, SeqEqual
<1>12. QED
  BY <1>k, <1>4, <1>11 DEF d, gs

LEMMA PartTurned ==
  ASSUME NEW T, NEW c \in Seq(Conds(T)), c # <<>>, NEW s \in Nat,
         NEW h \in BOOLEAN, NEW e \in BOOLEAN, NEW x \in Conds(T),
         ~Last(c).is_else, s \in {0, Len(c)}, s = 0 => Last(c).been_active,
         x.is_else = e, Last(c).been_active => x.been_active,
         NEW taken \in BOOLEAN, taken <=> ~Last(c).been_active /\ (h \/ e),
         ~taken => (x.been_active <=> Last(c).been_active)
  PROVE  /\ C!MayTurn(GroupsOf(c, s, 0))
         /\ GroupsOf(Append(Front(c), x), IF taken THEN 0 ELSE Len(c), 0)
              = C!Turn(GroupsOf(c, s, 0), h \/ e, e)
<1> DEFINE d == Append(Front(c), x)
           gs == GroupsOf(c, s, 0)
           n == Len(c)
           g == C!Turned(Last(gs), h \/ e, e)
<1>k. PICK k \in Nat : k = IF taken THEN 0 ELSE Len(c)
  BY LenProperties
<1>1. /\ n \in Nat \ {0} /\ Front(c) \in Seq(Conds(T)) /\ Len(Front(c)) = n - 1
      /\ Last(c) \in Conds(T) /\ Last(c) = c[n]
      /\ \A i \in 1..(n - 1) : Front(c)[i] = c[i]
  BY FrontLast DEF Last
<1>2. /\ d \in Seq(Conds(T)) /\ Len(d) = n /\ d[n] = x
      /\ \A i \in 1..(n - 1) : d[i] = c[i]
  BY <1>1, AppendProperties
<1> HIDE DEF d
<1>3. /\ gs \in Seq(Groups) /\ Len(gs) = n
      /\ \A i \in 1..n : gs[i] = GroupAt(c, s, i)
  BY <1>1, NoneCounted
<1>4. gs # <<>>
  BY <1>1, <1>3, EmptySeq
<1> HIDE DEF gs, n
<1>5. /\ Front(gs) \in Seq(Groups) /\ Len(Front(gs)) = n - 1
      /\ \A i \in 1..(n - 1) : Front(gs)[i] = gs[i]
      /\ Last(gs) = gs[n]
  BY <1>3, <1>4, FrontLast DEF Last
<1>6. C!Active(Front(gs))
  <2> SUFFICES ASSUME NEW i \in 1..Len(Front(gs)) PROVE Front(gs)[i].turn = "now"
    BY DEF C!Active
  <2>1. i # s /\ i <= Len(c) /\ Front(gs)[i] = GroupAt(c, s, i)
    BY <1>1, <1>3, <1>5 DEF n
  <2>2. QED
    BY <2>1, GroupFields
<1>7. Last(gs) = [turn |-> TurnAt(c, s, n), is_else |-> FALSE]
  <2>1. Last(gs) = GroupAt(c, s, n) /\ n <= Len(c)
    BY <1>1, <1>3, <1>5 DEF n
  <2>2. c[n].is_else = FALSE
    BY <1>1 DEF n, Conds
  <2>3. QED
    BY <2>1, <2>2 DEF GroupAt
<1>8. C!MayTurn(gs)
  <2>1. Last(gs).is_else = FALSE
    BY <1>7
  <2>2. QED
    BY <1>4, <2>1, SameEnds DEF C!MayTurn
<1>9. C!Turn(gs, h \/ e, e) = Append(Front(gs), g)
  BY <1>6, SameEnds DEF C!Turn
<1>10. g = GroupAt(d, k, n) /\ g \in Groups
  <2>1. GroupAt(d, k, n) =
          [turn |-> IF taken THEN "now" ELSE IF x.been_active THEN "past" ELSE "later", is_else |-> e]
    BY <1>k, <1>1, <1>2 DEF GroupAt, TurnAt, Conds, n
  <2>2. TurnAt(c, s, n) = IF s = 0 THEN "now" ELSE IF Last(c).been_active THEN "past" ELSE "later"
    BY <1>1 DEF TurnAt, n
  <2>3. g = [turn |-> IF Last(gs).turn = "later" THEN (IF h \/ e THEN "now" ELSE "later") ELSE "past",
             is_else |-> e]
    BY DEF C!Turned
  <2>4. Last(gs).turn = TurnAt(c, s, n)
    BY <1>7
  <2>5. CASE s # 0 /\ ~Last(c).been_active
    <3>1. Last(gs).turn = "later" /\ (taken <=> h \/ e) /\ (~taken => ~x.been_active)
      BY <2>2, <2>4, <2>5
    <3>2. g = [turn |-> IF h \/ e THEN "now" ELSE "later", is_else |-> e]
      BY <2>3, <3>1
    <3>3. GroupAt(d, k, n) = [turn |-> IF taken THEN "now" ELSE "later", is_else |-> e]
      BY <2>1, <3>1
    <3>4. QED
      BY <3>1, <3>2, <3>3 DEF Groups
  <2>6. CASE Last(c).been_active
    <3>1. Last(gs).turn # "later" /\ ~taken /\ x.been_active
      BY <2>2, <2>4, <2>6
    <3>2. QED
      BY <2>1, <2>3, <3>1 DEF Groups
  <2>7. QED
    BY <2>5, <2>6
<1> HIDE DEF g
<1>11. /\ Append(Front(gs), g) \in Seq(Groups) /\ Len(Append(Front(gs), g)) = n
       /\ \A i \in 1..(n - 1) : Append(Front(gs), g)[i] = gs[i]
       /\ Append(Front(gs), g)[n] = g
  BY <1>1, <1>5, <1>10, AppendProperties DEF n
<1>12. /\ GroupsOf(d, k, 0) \in Seq(Groups) /\ Len(GroupsOf(d, k, 0)) = n
       /\ \A i \in 1..n : GroupsOf(d, k, 0)[i] = GroupAt(d, k, i)
  BY <1>1, <1>2, NoneCounted DEF n
<1>13. \A i \in 1..(n - 1) : GroupAt(d, k, i) = GroupAt(c, s, i)
  BY <1>k, <1>1, <1>2 DEF GroupAt, TurnAt, n
<1>14. \A i \in 1..n : GroupsOf(d, k, 0)[i] = Append(Front(gs), g)[i]
  BY <1>1, <1>3, <1>10, <1>11, <1>12, <1>13 DEF n
<1>15. GroupsOf(d, k, 0) = Append(Front(gs), g)
  BY <1>11, <1>12, <1>14, SeqEqual
<1>16. QED
  BY <1>k, <1>8, <1>9, <1>15 DEF d, gs

LEMMA GroupEnded ==
  ASSUME NEW T, NEW c \in Seq(Conds(T)), c # <<>>, NEW s \in {0, Len(c)}
  PROVE  /\ GroupsOf(c, s, 0) # <<>>
         /\ GroupsOf(Front(c), 0, 0) = Front(GroupsOf(c, s, 0))
<1>1. /\ Len(c) \in Nat \ {0} /\ Front(c) \in Seq(Conds(T)) /\ Len(Front(c)) = Len(c) - 1
      /\ \A i \in 1..(Len(c) - 1) : Front(c)[i] = c[i]
  BY FrontLast
<1>2. PICK gs \in Seq(Groups) :
        /\ gs = GroupsOf(c, s, 0) /\ Len(gs) = Len(c)
        /\ \A i \in 1..Len(c) : gs[i] = GroupAt(c, s, i)
  BY <1>1, NoneCounted
<1>3. gs # <<>>
  BY <1>1, <1>2, EmptySeq
<1>f. /\ Front(gs) \in Seq(Groups) /\ Len(Front(gs)) = Len(gs) - 1
      /\ \A i \in 1..(Len(gs) - 1) : Front(gs)[i] = gs[i]
  BY <1>3, FrontLast
<1>4. /\ Front(gs) \in Seq(Groups) /\ Len(Front(gs)) = Len(c) - 1
      /\ \A i \in 1..(Len(c) - 1) : Front(gs)[i] = GroupAt(c, s, i)
  <2>1. Len(Front(gs)) = Len(c) - 1 /\ \A i \in 1..(Len(c) - 1) : Front(gs)[i] = gs[i]
    BY <1>2, <1>f
  <2>2. \A i \in 1..(Len(c) - 1) : i \in 1..Len(c)
    BY <1>1
  <2>3. QED
    BY <1>2, <1>f, <2>1, <2>2
<1>5. /\ GroupsOf(Front(c), 0, 0) \in Seq(Groups) /\ Len(GroupsOf(Front(c), 0, 0)) = Len(c) - 1
      /\ \A i \in 1..(Len(c) - 1) : GroupsOf(Front(c), 0, 0)[i] = GroupAt(Front(c), 0, i)
  BY <1>1, NoneCounted
<1>6. \A i \in 1..(Len(c) - 1) : GroupAt(Front(c), 0, i) = GroupAt(c, s, i)
  BY <1>1 DEF GroupAt, TurnAt
<1>7. GroupsOf(Front(c), 0, 0) = Front(gs)
  BY <1>4, <1>5, <1>6, SeqEqual
<1>8. QED
  BY <1>2, <1>3, <1>7

LEMMA SkippedOpened ==
  ASSUME NEW T, NEW c \in Seq(Conds(T)), c # <<>>, NEW k \in Nat, k = Len(c),
         NEW l \in Nat, NEW h \in BOOLEAN
  PROVE  GroupsOf(c, k, l + 1) = C!Open(GroupsOf(c, k, l), h)
<1> DEFINE gs == GroupsOf(c, k, l)
           g == [turn |-> "past", is_else |-> FALSE]
<1>1. k > 0
  BY FrontLast
<1>2. /\ gs \in Seq(Groups) /\ Len(gs) = k + l
      /\ \A i \in 1..(k + l) : gs[i] = GroupAt(c, k, i)
  BY GroupsTyped
<1> HIDE DEF gs
<1>3. ~C!Active(gs)
  <2>1. gs[k] = GroupAt(c, k, k) /\ k \in 1..Len(gs)
    BY <1>1, <1>2
  <2>2. gs[k].turn # "now"
    BY <2>1, GroupFields
  <2>3. QED
    BY <2>1, <2>2 DEF C!Active
<1>4. C!Open(gs, h) = Append(gs, g)
  BY <1>3 DEF C!Open, C!Group
<1>5. g \in Groups
  BY DEF Groups
<1> HIDE DEF g
<1>a. /\ Append(gs, g) \in Seq(Groups) /\ Len(Append(gs, g)) = Len(gs) + 1
      /\ \A i \in 1..Len(gs) : Append(gs, g)[i] = gs[i]
      /\ Append(gs, g)[Len(gs) + 1] = g
  <2>1. PICK q \in Seq(Groups) : q = gs
    BY <1>2
  <2>2. /\ Append(q, g) \in Seq(Groups) /\ Len(Append(q, g)) = Len(q) + 1
        /\ \A i \in 1..Len(q) : Append(q, g)[i] = q[i]
        /\ Append(q, g)[Len(q) + 1] = g
    BY <1>5, AppendProperties
  <2>3. QED
    BY <2>1, <2>2
<1>6. PICK m \in Nat : m = l + 1
  OBVIOUS
<1>b. k + m = Len(gs) + 1 /\ k + l = Len(gs)
  BY <1>2, <1>6
<1>7. PICK after \in Seq(Groups) :
        /\ after = Append(gs, g) /\ Len(after) = k + m
        /\ \A i \in 1..(k + l) : after[i] = gs[i]
        /\ after[k + m] = g
  BY <1>a, <1>b
<1>8. PICK now \in Seq(Groups) :
        /\ now = GroupsOf(c, k, m) /\ Len(now) = k + m
        /\ \A i \in 1..(k + m) : now[i] = GroupAt(c, k, i)
  BY GroupsTyped
<1>9. GroupAt(c, k, k + m) = g
  BY <1>6 DEF GroupAt, g
<1>10. \A i \in 1..(k + m) : now[i] = after[i]
  <2> TAKE i \in 1..(k + m)
  <2>1. CASE i = k + m
    BY <1>7, <1>8, <1>9, <2>1
  <2>2. CASE i # k + m
    <3>1. i \in 1..(k + l)
      BY <1>6, <2>2
    <3>2. QED
      BY <1>2, <1>7, <1>8, <3>1
  <2>3. QED
    BY <2>1, <2>2
<1>11. now = after
  BY <1>7, <1>8, <1>10, SeqEqual
<1>12. QED
  BY <1>4, <1>6, <1>7, <1>8, <1>11 DEF gs

LEMMA SkippedEnded ==
  ASSUME NEW T, NEW c \in Seq(Conds(T)), NEW k \in Nat, k = Len(c), NEW l \in Nat \ {0}
  PROVE  /\ GroupsOf(c, k, l) # <<>>
         /\ GroupsOf(c, k, l - 1) = Front(GroupsOf(c, k, l))
<1>1. PICK gs \in Seq(Groups) :
        /\ gs = GroupsOf(c, k, l) /\ Len(gs) = k + l
        /\ \A i \in 1..(k + l) : gs[i] = GroupAt(c, k, i)
  BY GroupsTyped
<1>2. gs # <<>>
  BY <1>1, EmptySeq
<1>f. /\ Front(gs) \in Seq(Groups) /\ Len(Front(gs)) = Len(gs) - 1
      /\ \A i \in 1..(Len(gs) - 1) : Front(gs)[i] = gs[i]
  BY <1>2, FrontLast
<1>3. /\ Front(gs) \in Seq(Groups) /\ Len(Front(gs)) = k + l - 1
      /\ \A i \in 1..(k + l - 1) : Front(gs)[i] = GroupAt(c, k, i)
  BY <1>1, <1>f
<1>4. PICK m \in Nat : m = l - 1
  OBVIOUS
<1>5. /\ GroupsOf(c, k, m) \in Seq(Groups) /\ Len(GroupsOf(c, k, m)) = k + m
      /\ \A i \in 1..(k + m) : GroupsOf(c, k, m)[i] = GroupAt(c, k, i)
  BY GroupsTyped
<1>6. GroupsOf(c, k, m) = Front(gs)
  BY <1>3, <1>4, <1>5, SeqEqual
<1>7. QED
  BY <1>1, <1>2, <1>4, <1>6
----------------------------------------------------------------------------
(* The invariant of the conditional groups.                                *)
LEMMA TokenizeTyped ==
  ASSUME tree \in Trees, NEW f \in Files, NEW n \in Nat
  PROVE  /\ tokenize(f, n) \in Seq(Tokens)
         /\ Len(tree[f]) \in Nat /\ Len(tokenize(f, n)) = Len(tree[f])
         /\ \A i \in 1..Len(tree[f]) :
              /\ tokenize(f, n)[i].file = f
              /\ tokenize(f, n)[i].at = i
              /\ tokenize(f, n)[i].d = tree[f][i].d
              /\ tokenize(f, n)[i].n = tree[f][i].n
<1>1. PICK len \in Nat : len = Len(tree[f])
  BY TreesAssumption DEF Files
<1> DEFINE b(i) == n > 0 /\ Guarded(tree[f]) /\ i \in {1, len}
           tok(i) == [d |-> tree[f][i].d, n |-> tree[f][i].n, file |-> f, nth |-> n, at |-> i,
                      is_incl_guard |-> b(i)]
<1>2. tokenize(f, n) = [i \in 1..len |-> tok(i)]
  BY <1>1 DEF tokenize
<1>3. \A i \in 1..len : tok(i) \in Tokens
  <2> TAKE i \in 1..len
  <2>1. tree[f][i] \in Lines
    BY <1>1 DEF Lines
  <2>2. b(i) \in BOOLEAN
    OBVIOUS
  <2> HIDE DEF b
  <2>3. QED
    BY <2>1, <2>2 DEF Tokens
<1>4. tokenize(f, n) \in [1..len -> Tokens]
  BY <1>2, <1>3
<1>5. tokenize(f, n) \in Seq(Tokens) /\ Len(tokenize(f, n)) = len
  <2>1. tokenize(f, n) \in Seq(Tokens)
    BY <1>4, SeqDef
  <2>2. QED
    BY <1>4, <2>1, LenProperties
<1>6. \A i \in 1..len : /\ tokenize(f, n)[i].file = f
                        /\ tokenize(f, n)[i].at = i
                        /\ tokenize(f, n)[i].d = tree[f][i].d
                        /\ tokenize(f, n)[i].n = tree[f][i].n
  <2> HIDE DEF b
  <2>1. QED
    BY <1>2
<1>7. QED
  BY <1>1, <1>5, <1>6

LEMMA LineTyped ==
  ASSUME Typed, Reading
  PROVE  /\ line \in Tokens /\ Tail(input) \in Seq(Tokens)
         /\ Len(input) \in Nat \ {0} /\ Len(Tail(input)) = Len(input) - 1
         /\ line = input[1]
         /\ \A i \in 1..(Len(input) - 1) : Tail(input)[i] = input[i + 1]
BY HeadTailProperties, EmptySeq DEF Typed, Reading, line

LEMMA InitGroups == ASSUME Init PROVE GroupInv /\ C!Init
<1>1. Main \in Files
  BY TreesAssumption DEF Init, Files
<1>2. input \in Seq(Tokens)
  BY <1>1, TokenizeTyped DEF Init
<1>3. Typed
  <2>1. cond_incl \in Seq(Conds(Tokens)) /\ compiled \in Seq(Tokens)
    BY EmptySeq DEF Init
  <2>2. QED
    BY <1>2, <2>1 DEF Init, Typed
<1>4. Len(cond_incl) = 0
  BY DEF Init
<1>5. GroupInv
  BY <1>3, <1>4 DEF Init, GroupInv, SkipState, TakenOrElse
<1>6. groups = <<>>
  BY <1>4 DEF Init, groups
<1>7. QED
  BY <1>5, <1>6 DEF Init, C!Init

LEMMA GroupsNext == Typed' => groups' = GroupsOf(cond_incl', Skipped', lvl')
<1>1. (Typed => groups = GroupsOf(cond_incl, Skipped, lvl))'
  BY GroupsAreGroupsOf, PTL
<1>2. QED
  BY <1>1

LEMMA SameTokens ==
  ASSUME [Next]_vars
  PROVE  tree' = tree /\ Files' = Files /\ Lines' = Lines /\ Tokens' = Tokens
<1>1. tree' = tree
  BY DEF Next, Conditional, Skip, Other, OpenGroup, ElseIf, Else, Endif, Stray, SkipOpen, SkipEnd,
     SkipLine, Text, Define, Undef, PragmaOnce, IncludeKnown, IncludeFile, Finish, Advance, Error, vars
<1>2. QED
  BY <1>1 DEF Files, Lines, Tokens

(* The steps that leave the groups alone.                                  *)
LEMMA GroupsUnchanged ==
  ASSUME GroupInv, Tokens' = Tokens, tree' = tree,
         UNCHANGED <<cond_incl, skipping, lvl>>,
         input' \in Seq(Tokens), compiled' \in Seq(Tokens), includes' \in Nat
  PROVE  GroupInv' /\ groups' = groups
<1>1. GroupInv'
  BY DEF GroupInv, Typed, SkipState, TakenOrElse
<1>2. groups' = groups
  BY <1>1, GroupsAreGroupsOf, GroupsNext DEF GroupInv, Skipped
<1>3. QED
  BY <1>1, <1>2

LEMMA HoldsIsBoolean == Holds \in BOOLEAN
<1>1. CASE line.d = "ifndef"
  <2>1. Holds = (line.n \notin macros)
    BY <1>1 DEF Holds
  <2>2. QED
    BY <2>1
<1>2. CASE line.d # "ifndef"
  <2>1. Holds = (line.n \in macros)
    BY <1>2 DEF Holds
  <2>2. QED
    BY <2>1
<1>3. QED
  BY <1>1, <1>2

LEMMA OpenGroupStep ==
  ASSUME GroupInv, Tokens' = Tokens, OpenGroup
  PROVE  GroupInv' /\ C!Next
<1> DEFINE new == [tok |-> line, is_else |-> FALSE, been_active |-> Holds]
<1>1. /\ Reading /\ ~skipping /\ lvl = 0 /\ lvl' = 0 /\ tree' = tree /\ includes' = includes
      /\ input' = Tail(input) /\ cond_incl' = Append(cond_incl, new) /\ skipping' = ~Holds
      /\ compiled' = compiled
  BY DEF OpenGroup, At, Advance, GroupInv, SkipState
<1>2. line \in Tokens /\ input' \in Seq(Tokens)
  BY <1>1, LineTyped DEF GroupInv
<1>3. PICK h \in BOOLEAN : h = Holds
  BY HoldsIsBoolean
<1>4. new \in Conds(Tokens)
  BY <1>2, <1>3 DEF Conds
<1>5. PICK c \in Seq(Conds(Tokens)) : c = cond_incl
  BY DEF GroupInv, Typed
<1>6. PICK d : d = cond_incl'
  OBVIOUS
<1>7. /\ d \in Seq(Conds(Tokens)) /\ d # <<>> /\ Len(c) \in Nat /\ Len(d) = Len(c) + 1
      /\ \A i \in 1..Len(c) : d[i] = c[i]
      /\ d[Len(c) + 1] = new
  BY <1>1, <1>4, <1>5, <1>6, AppendProperties, LenProperties
<1>8. Typed'
  BY <1>1, <1>2, <1>3, <1>6, <1>7 DEF GroupInv, Typed
<1>9. (SkipState /\ TakenOrElse)'
  <2>1. SkipState'
    BY <1>1, <1>6, <1>7 DEF SkipState
  <2>2. SUFFICES ASSUME NEW i \in 1..Len(d), ~(~h /\ i = Len(d))
                 PROVE  d[i].been_active \/ d[i].is_else
    BY <1>1, <1>3, <1>6, <2>1 DEF TakenOrElse
  <2>3. CASE i = Len(c) + 1
    BY <1>3, <1>7, <2>2, <2>3
  <2>4. CASE i # Len(c) + 1
    BY <1>1, <1>5, <1>7, <2>4 DEF GroupInv, TakenOrElse
  <2>5. QED
    BY <1>7, <2>3, <2>4
<1>10. groups = GroupsOf(c, 0, 0) /\ groups' = GroupsOf(d, IF h THEN 0 ELSE Len(c) + 1, 0)
  <2>1. Skipped = 0 /\ Skipped' = IF h THEN 0 ELSE Len(c) + 1
    BY <1>1, <1>3, <1>6, <1>7 DEF Skipped
  <2>2. QED
    BY <1>1, <1>5, <1>6, <1>8, <2>1, GroupsAreGroupsOf, GroupsNext DEF GroupInv
<1>11. groups' = C!Open(groups, h)
  BY <1>1, <1>2, <1>3, <1>5, <1>6, <1>10, Opened
<1>12. QED
  BY <1>1, <1>8, <1>9, <1>11 DEF GroupInv, C!Next, C!If

LEMMA PartStep ==
  ASSUME GroupInv, Tokens' = Tokens, Reading, lvl = 0, cond_incl # <<>>, ~Cond.is_else,
         NEW h \in BOOLEAN, NEW e \in BOOLEAN, NEW x \in Conds(Tokens),
         NEW taken \in BOOLEAN, taken <=> ~Cond.been_active /\ (h \/ e),
         x.is_else = e, x.been_active <=> Cond.been_active \/ (taken /\ ~e),
         cond_incl' = Append(Front(cond_incl), x), skipping' \in BOOLEAN, skipping' <=> ~taken,
         Advance, UNCHANGED <<lvl, compiled>>
  PROVE  GroupInv' /\ C!MayTurn(groups) /\ groups' = C!Turn(groups, h \/ e, e)
<1>1. /\ tree' = tree /\ includes' = includes /\ compiled' = compiled /\ lvl' = 0
      /\ input' \in Seq(Tokens)
  BY LineTyped DEF Advance, GroupInv
<1>2. PICK c \in Seq(Conds(Tokens)) : c = cond_incl
  BY DEF GroupInv, Typed
<1>3. PICK d : d = cond_incl'
  OBVIOUS
<1>4. /\ Len(c) \in Nat \ {0} /\ Cond = c[Len(c)] /\ Cond = Last(c) /\ Cond \in Conds(Tokens)
      /\ Front(c) \in Seq(Conds(Tokens)) /\ Len(Front(c)) = Len(c) - 1
      /\ \A i \in 1..(Len(c) - 1) : Front(c)[i] = c[i]
  BY <1>2, FrontLast DEF Cond, Last
<1>5. /\ d \in Seq(Conds(Tokens)) /\ d # <<>> /\ Len(d) = Len(c) /\ d[Len(c)] = x
      /\ \A i \in 1..(Len(c) - 1) : d[i] = c[i]
  BY <1>2, <1>3, <1>4, AppendProperties
<1>6. Typed'
  BY <1>1, <1>3, <1>5 DEF GroupInv, Typed
<1>7. SkipState' /\ TakenOrElse'
  <2>1. SkipState'
    BY <1>1, <1>3, <1>5 DEF SkipState
  <2>2. SUFFICES ASSUME NEW i \in 1..Len(d), ~(~taken /\ i = Len(d))
                 PROVE  d[i].been_active \/ d[i].is_else
    BY <1>3, <2>1 DEF TakenOrElse
  <2>3. CASE i = Len(c)
    <3>1. x.is_else \/ x.been_active
      BY <1>5, <2>2, <2>3
    <3>2. QED
      BY <1>5, <2>3, <3>1
  <2>4. CASE i # Len(c)
    BY <1>2, <1>4, <1>5, <2>4 DEF GroupInv, TakenOrElse
  <2>5. QED
    BY <2>3, <2>4
<1>8. PICK s \in {0, Len(c)} : s = Skipped
  BY <1>2 DEF Skipped
<1>9. s \in Nat /\ (s = 0 => Last(c).been_active)
  <2>1. s = 0 => ~skipping
    BY <1>2, <1>4, <1>8 DEF Skipped
  <2>2. ~skipping => Cond.been_active \/ Cond.is_else
    <3>1. Len(c) \in 1..Len(cond_incl) /\ cond_incl[Len(c)] = Cond
      BY <1>2, <1>4
    <3>2. QED
      BY <3>1 DEF GroupInv, TakenOrElse
  <2>3. QED
    BY <1>4, <1>8, <2>1, <2>2
<1>10. groups = GroupsOf(c, s, 0) /\ groups' = GroupsOf(d, IF taken THEN 0 ELSE Len(c), 0)
  <2>1. Skipped' = IF taken THEN 0 ELSE Len(c)
    BY <1>3, <1>5 DEF Skipped
  <2>2. groups = GroupsOf(cond_incl, Skipped, lvl) /\ groups' = GroupsOf(cond_incl', Skipped', lvl')
    BY <1>6, GroupsAreGroupsOf, GroupsNext DEF GroupInv
  <2>3. QED
    BY <1>1, <1>2, <1>3, <1>8, <2>1, <2>2
<1>11. d = Append(Front(c), x) /\ c # <<>>
  BY <1>2, <1>3
<1>12. /\ ~Last(c).is_else /\ (Last(c).been_active => x.been_active)
       /\ taken <=> ~Last(c).been_active /\ (h \/ e)
       /\ ~taken => (x.been_active <=> Last(c).been_active)
  <2>1. Cond.been_active \in BOOLEAN /\ x.been_active \in BOOLEAN
    BY <1>4 DEF Conds
  <2>2. QED
    BY <1>4, <2>1
<1>13. /\ C!MayTurn(GroupsOf(c, s, 0))
       /\ GroupsOf(Append(Front(c), x), IF taken THEN 0 ELSE Len(c), 0)
            = C!Turn(GroupsOf(c, s, 0), h \/ e, e)
  BY <1>8, <1>9, <1>11, <1>12, PartTurned
<1>14. QED
  BY <1>6, <1>7, <1>10, <1>11, <1>13 DEF GroupInv

LEMMA NotAGuardTyped ==
  ASSUME Typed, cond_incl # <<>>
  PROVE  /\ Cond \in Conds(Tokens) /\ NotAGuard(Cond) \in Conds(Tokens)
         /\ NotAGuard(Cond).is_else = Cond.is_else
         /\ NotAGuard(Cond).been_active = Cond.been_active
<1>1. PICK g \in Conds(Tokens) : g = Cond
  BY FrontLast DEF Typed, Cond
<1>2. PICK t \in Tokens : t = g.tok
  BY DEF Conds
<1>3. PICK u \in Tokens : u = [t EXCEPT !.is_incl_guard = FALSE]
  BY DEF Tokens
<1>4. NotAGuard(g) = [g EXCEPT !.tok = u]
  BY <1>2, <1>3 DEF NotAGuard, Conds
<1>5. QED
  BY <1>1, <1>4 DEF Conds

LEMMA ElseIfStep ==
  ASSUME GroupInv, Tokens' = Tokens, ElseIf
  PROVE  GroupInv' /\ C!Next
<1> DEFINE taken == ~Cond.been_active /\ Holds
           x == [NotAGuard(Cond) EXCEPT !.been_active = @ \/ taken]
<1>1. /\ Reading /\ lvl = 0 /\ cond_incl # <<>> /\ ~Cond.is_else
      /\ cond_incl' = Append(Front(cond_incl), x) /\ skipping' = ~taken
      /\ Advance /\ UNCHANGED <<lvl, compiled>>
  BY DEF ElseIf, AtPart, GroupInv, SkipState
<1>2. PICK h \in BOOLEAN : h = Holds
  BY HoldsIsBoolean
<1>3. /\ Cond \in Conds(Tokens) /\ NotAGuard(Cond) \in Conds(Tokens)
      /\ NotAGuard(Cond).is_else = Cond.is_else
      /\ NotAGuard(Cond).been_active = Cond.been_active
  BY <1>1, NotAGuardTyped DEF GroupInv
<1>4. PICK t \in BOOLEAN : t = taken
  BY <1>2
<1> HIDE DEF taken
<1>7. PICK e \in BOOLEAN : e = FALSE
  OBVIOUS
<1>5. /\ x \in Conds(Tokens) /\ x.is_else = e
      /\ (x.been_active <=> Cond.been_active \/ (t /\ ~e))
  <2>1. Cond.been_active \in BOOLEAN /\ Cond.is_else = FALSE
    BY <1>1, <1>3 DEF Conds
  <2>2. x.been_active = (Cond.been_active \/ t)
    BY <1>3, <1>4 DEF Conds
  <2>3. x \in Conds(Tokens) /\ x.is_else = FALSE
    BY <1>3, <1>4, <2>1 DEF Conds
  <2>4. QED
    BY <1>7, <2>1, <2>2, <2>3
<1> HIDE DEF x
<1>6. (t <=> ~Cond.been_active /\ (h \/ e)) /\ skipping' \in BOOLEAN /\ (skipping' <=> ~t)
  BY <1>1, <1>2, <1>4, <1>7 DEF taken
<1>8. GroupInv' /\ C!MayTurn(groups) /\ groups' = C!Turn(groups, h \/ e, e)
  BY <1>1, <1>4, <1>5, <1>6, <1>7, PartStep
<1>9. C!Elif
  BY <1>1, <1>7, <1>8 DEF C!Elif
<1>10. QED
  BY <1>8, <1>9 DEF C!Next

LEMMA ElseStep ==
  ASSUME GroupInv, Tokens' = Tokens, Else
  PROVE  GroupInv' /\ C!Next
<1> DEFINE x == [NotAGuard(Cond) EXCEPT !.is_else = TRUE]
<1>1. /\ Reading /\ lvl = 0 /\ cond_incl # <<>> /\ ~Cond.is_else
      /\ cond_incl' = Append(Front(cond_incl), x) /\ skipping' = Cond.been_active
      /\ Advance /\ UNCHANGED <<lvl, compiled>>
  BY DEF Else, AtPart, GroupInv, SkipState
<1>2. /\ Cond \in Conds(Tokens) /\ NotAGuard(Cond) \in Conds(Tokens)
      /\ NotAGuard(Cond).been_active = Cond.been_active
  BY <1>1, NotAGuardTyped DEF GroupInv
<1>3. PICK t \in BOOLEAN : t = ~Cond.been_active
  OBVIOUS
<1>4. PICK e \in BOOLEAN : e = TRUE
  OBVIOUS
<1>5. /\ x \in Conds(Tokens) /\ x.is_else = e /\ x.been_active = Cond.been_active
  BY <1>2, <1>4 DEF Conds
<1>6. Cond.been_active \in BOOLEAN
  BY <1>2 DEF Conds
<1>7. /\ (t <=> ~Cond.been_active /\ (e \/ e)) /\ skipping' \in BOOLEAN /\ (skipping' <=> ~t)
      /\ (x.been_active <=> Cond.been_active \/ (t /\ ~e))
  BY <1>1, <1>3, <1>4, <1>5, <1>6
<1> HIDE DEF x
<1>8. GroupInv' /\ C!MayTurn(groups) /\ groups' = C!Turn(groups, e \/ e, e)
  BY <1>1, <1>5, <1>7, PartStep
<1>9. C!Else
  BY <1>1, <1>4, <1>8 DEF C!Else
<1>10. QED
  BY <1>8, <1>9 DEF C!Next

LEMMA EndifStep ==
  ASSUME GroupInv, Tokens' = Tokens, Endif
  PROVE  GroupInv' /\ C!Next
<1>1. /\ Reading /\ lvl = 0 /\ lvl' = 0 /\ cond_incl # <<>> /\ cond_incl' = Front(cond_incl)
      /\ skipping' = FALSE /\ tree' = tree /\ includes' = includes /\ compiled' = compiled
      /\ input' = Tail(input)
  BY DEF Endif, AtPart, Advance, GroupInv, SkipState
<1>2. input' \in Seq(Tokens)
  BY <1>1, LineTyped DEF GroupInv
<1>3. PICK c \in Seq(Conds(Tokens)) : c = cond_incl
  BY DEF GroupInv, Typed
<1>4. PICK d : d = cond_incl'
  OBVIOUS
<1>5. /\ Len(c) \in Nat \ {0} /\ d \in Seq(Conds(Tokens)) /\ Len(d) = Len(c) - 1
      /\ \A i \in 1..(Len(c) - 1) : d[i] = c[i]
  BY <1>1, <1>3, <1>4, FrontLast
<1>6. Typed'
  BY <1>1, <1>2, <1>4, <1>5 DEF GroupInv, Typed
<1>7. SkipState'
  BY <1>1 DEF SkipState
<1>8. TakenOrElse'
  <2>1. \A i \in 1..Len(d) : i \in 1..Len(c) /\ i # Len(c) /\ d[i] = c[i]
    BY <1>5
  <2>2. QED
    BY <1>3, <1>4, <2>1 DEF GroupInv, TakenOrElse
<1>9. PICK s \in {0, Len(c)} : s = Skipped
  BY <1>3 DEF Skipped
<1>10. groups = GroupsOf(c, s, 0) /\ groups' = GroupsOf(Front(c), 0, 0)
  <2>1. Skipped' = 0
    BY <1>1 DEF Skipped
  <2>2. groups = GroupsOf(cond_incl, Skipped, lvl) /\ groups' = GroupsOf(cond_incl', Skipped', lvl')
    BY <1>6, GroupsAreGroupsOf, GroupsNext DEF GroupInv
  <2>3. QED
    BY <1>1, <1>3, <1>9, <2>1, <2>2
<1>11. groups # <<>> /\ groups' = Front(groups)
  BY <1>1, <1>3, <1>10, GroupEnded
<1>12. C!Endif
  BY <1>1, <1>11, SameEnds DEF C!Endif
<1>13. QED
  BY <1>6, <1>7, <1>8, <1>12 DEF GroupInv, C!Next

LEMMA SkipOpenStep ==
  ASSUME GroupInv, Tokens' = Tokens, SkipOpen
  PROVE  GroupInv' /\ C!Next
<1>1. /\ Reading /\ skipping /\ skipping' = skipping /\ lvl' = lvl + 1 /\ cond_incl' = cond_incl
      /\ tree' = tree /\ includes' = includes /\ compiled' = compiled /\ input' = Tail(input)
      /\ cond_incl # <<>>
  BY DEF SkipOpen, Advance, GroupInv, SkipState
<1>2. input' \in Seq(Tokens)
  BY <1>1, LineTyped DEF GroupInv
<1>3. Typed'
  BY <1>1, <1>2 DEF GroupInv, Typed
<1>4. SkipState' /\ TakenOrElse'
  BY <1>1 DEF GroupInv, SkipState, TakenOrElse
<1>5. PICK c \in Seq(Conds(Tokens)) : c = cond_incl
  BY DEF GroupInv, Typed
<1>6. PICK k \in Nat : k = Len(c)
  BY LenProperties
<1>7. groups = GroupsOf(c, k, lvl) /\ groups' = GroupsOf(c, k, lvl + 1)
  <2>1. Skipped = k /\ Skipped' = k
    BY <1>1, <1>5, <1>6 DEF Skipped
  <2>2. groups = GroupsOf(cond_incl, Skipped, lvl) /\ groups' = GroupsOf(cond_incl', Skipped', lvl')
    BY <1>3, GroupsAreGroupsOf, GroupsNext DEF GroupInv
  <2>3. QED
    BY <1>1, <1>5, <2>1, <2>2
<1>8. PICK l \in Nat : l = lvl
  BY DEF GroupInv, Typed
<1>9. PICK h \in BOOLEAN : h = TRUE
  OBVIOUS
<1>10. GroupsOf(c, k, l + 1) = C!Open(GroupsOf(c, k, l), h)
  BY <1>1, <1>5, <1>6, SkippedOpened
<1>11. C!If
  BY <1>1, <1>7, <1>8, <1>10 DEF C!If
<1>12. QED
  BY <1>3, <1>4, <1>11 DEF GroupInv, C!Next

LEMMA SkipEndStep ==
  ASSUME GroupInv, Tokens' = Tokens, SkipEnd
  PROVE  GroupInv' /\ C!Next
<1>1. /\ Reading /\ skipping /\ skipping' = skipping /\ lvl > 0 /\ lvl' = lvl - 1
      /\ cond_incl' = cond_incl /\ cond_incl # <<>>
      /\ tree' = tree /\ includes' = includes /\ compiled' = compiled /\ input' = Tail(input)
  BY DEF SkipEnd, Advance, GroupInv, SkipState
<1>2. input' \in Seq(Tokens)
  BY <1>1, LineTyped DEF GroupInv
<1>3. Typed'
  BY <1>1, <1>2 DEF GroupInv, Typed
<1>4. SkipState' /\ TakenOrElse'
  BY <1>1 DEF GroupInv, SkipState, TakenOrElse
<1>5. PICK c \in Seq(Conds(Tokens)) : c = cond_incl
  BY DEF GroupInv, Typed
<1>6. PICK k \in Nat : k = Len(c)
  BY LenProperties
<1>7. groups = GroupsOf(c, k, lvl) /\ groups' = GroupsOf(c, k, lvl - 1)
  <2>1. Skipped = k /\ Skipped' = k
    BY <1>1, <1>5, <1>6 DEF Skipped
  <2>2. groups = GroupsOf(cond_incl, Skipped, lvl) /\ groups' = GroupsOf(cond_incl', Skipped', lvl')
    BY <1>3, GroupsAreGroupsOf, GroupsNext DEF GroupInv
  <2>3. QED
    BY <1>1, <1>5, <2>1, <2>2
<1>8. PICK l \in Nat \ {0} : l = lvl
  BY <1>1 DEF GroupInv, Typed
<1>9. GroupsOf(c, k, l) # <<>> /\ GroupsOf(c, k, l - 1) = Front(GroupsOf(c, k, l))
  BY <1>6, SkippedEnded
<1>10. C!Endif
  BY <1>1, <1>7, <1>8, <1>9, SameEnds DEF C!Endif
<1>11. QED
  BY <1>3, <1>4, <1>10 DEF GroupInv, C!Next

LEMMA AllNow ==
  ASSUME GroupInv, ~skipping
  PROVE  C!Active(groups)
<1>1. PICK c \in Seq(Conds(Tokens)) : c = cond_incl
  BY DEF GroupInv, Typed
<1>2. groups = GroupsOf(c, 0, 0)
  BY <1>1, GroupsAreGroupsOf DEF GroupInv, SkipState, Skipped
<1>3. /\ GroupsOf(c, 0, 0) \in Seq(Groups) /\ Len(GroupsOf(c, 0, 0)) = Len(c)
      /\ \A i \in 1..Len(c) : GroupsOf(c, 0, 0)[i] = GroupAt(c, 0, i)
  BY NoneCounted
<1> SUFFICES ASSUME NEW i \in 1..Len(groups) PROVE groups[i].turn = "now"
  BY DEF C!Active
<1>4. i # 0 /\ i <= Len(c) /\ groups[i] = GroupAt(c, 0, i)
  BY <1>2, <1>3, LenProperties
<1>5. QED
  BY <1>4, GroupFields

LEMMA CompileStep ==
  ASSUME GroupInv, Tokens' = Tokens, tree' = tree, Reading, ~skipping, Process,
         input' \in Seq(Tokens), includes' \in Nat
  PROVE  GroupInv' /\ C!Next
<1>1. UNCHANGED <<cond_incl, skipping, lvl>> /\ compiled' = Append(compiled, line)
  BY DEF Process
<1>2. PICK x \in Tokens : x = line
  BY LineTyped DEF GroupInv
<1>3. PICK c \in Seq(Tokens) : c = compiled
  BY DEF GroupInv, Typed
<1>4. PICK d \in Seq(Tokens) : d = compiled'
  BY <1>1, <1>2, <1>3, AppendProperties
<1>5. d # <<>> /\ Last(d) = x
  BY <1>1, <1>2, <1>3, <1>4, AppendProperties, LenProperties DEF Last
<1>6. GroupInv' /\ groups' = groups
  BY <1>1, <1>4, GroupsUnchanged
<1>7. C!Compile
  <2>1. C!Active(groups)
    BY AllNow
  <2>2. compiled' # <<>> /\ compiled' = Append(compiled, C!Last(compiled'))
    BY <1>1, <1>2, <1>4, <1>5, SameEnds
  <2>3. QED
    BY <1>6, <2>1, <2>2 DEF C!Compile
<1>8. QED
  BY <1>6, <1>7 DEF C!Next

LEMMA IncludedExists ==
  ASSUME GroupInv, FromFiles, At({"include"})
  PROVE  line.n \in Files
<1>1. Reading /\ line.d = "include"
  BY DEF At
<1>2. line = input[1] /\ 1 \in 1..Len(input) /\ line \in Tokens
  BY <1>1, LineTyped DEF GroupInv
<1>3. /\ line.file \in Files /\ line.at \in 1..Len(tree[line.file])
      /\ line.d = tree[line.file][line.at].d /\ line.n = tree[line.file][line.at].n
  BY <1>2 DEF FromFiles, IsLine, Tokens
<1>4. QED
  BY <1>1, <1>3, TreesAssumption DEF GroupInv, Typed, Files

LEMMA GroupStep ==
  ASSUME GroupInv, FromFiles, Next
  PROVE  GroupInv' /\ [C!Next]_<<groups, compiled>>
<1>1. Tokens' = Tokens /\ tree' = tree
  BY SameTokens
<1>2. /\ input \in Seq(Tokens) /\ compiled \in Seq(Tokens) /\ includes \in Nat
      /\ Reading => Tail(input) \in Seq(Tokens)
  BY LineTyped DEF GroupInv, Typed
<1>3. CASE OpenGroup
  BY <1>1, <1>3, OpenGroupStep
<1>4. CASE ElseIf
  BY <1>1, <1>4, ElseIfStep
<1>5. CASE Else
  BY <1>1, <1>5, ElseStep
<1>6. CASE Endif
  BY <1>1, <1>6, EndifStep
<1>7. CASE SkipOpen
  BY <1>1, <1>7, SkipOpenStep
<1>8. CASE SkipEnd
  BY <1>1, <1>8, SkipEndStep
<1>9. CASE Stray \/ Finish
  <2>1. UNCHANGED <<cond_incl, skipping, lvl, input, compiled, includes>>
    BY <1>9 DEF Stray, Error, Finish
  <2>2. GroupInv' /\ groups' = groups
    BY <1>1, <1>2, <2>1, GroupsUnchanged
  <2>3. QED
    BY <2>1, <2>2
<1>10. CASE SkipLine
  <2>1. UNCHANGED <<cond_incl, skipping, lvl, compiled, includes>> /\ Reading /\ input' = Tail(input)
    BY <1>10 DEF SkipLine, Advance
  <2>2. GroupInv' /\ groups' = groups
    BY <1>1, <1>2, <2>1, GroupsUnchanged
  <2>3. QED
    BY <2>1, <2>2
<1>11. CASE Text \/ Define \/ Undef \/ PragmaOnce \/ IncludeKnown
  <2>1. Reading /\ ~skipping /\ Process /\ input' = Tail(input) /\ includes' = includes
    BY <1>11 DEF Text, Define, Undef, PragmaOnce, IncludeKnown, At, Advance
  <2>2. QED
    BY <1>1, <1>2, <2>1, CompileStep
<1>12. CASE IncludeFile
  <2>1. /\ At({"include"}) /\ Reading /\ ~skipping /\ Process /\ includes' = includes + 1
        /\ input' = tokenize(line.n, includes + 1) \o Tail(input)
    BY <1>12 DEF IncludeFile, At
  <2>2. line.n \in Files /\ tree \in Trees
    BY <2>1, IncludedExists DEF GroupInv, Typed
  <2>3. PICK n \in Nat : n = includes + 1
    BY <1>2
  <2>4. tokenize(line.n, n) \in Seq(Tokens)
    BY <2>2, TokenizeTyped
  <2>5. input' \in Seq(Tokens) /\ includes' \in Nat
    BY <1>2, <2>1, <2>3, <2>4, ConcatProperties
  <2>6. QED
    BY <1>1, <2>1, <2>5, CompileStep
<1>13. QED
  BY <1>3, <1>4, <1>5, <1>6, <1>7, <1>8, <1>9, <1>10, <1>11, <1>12
     DEF Next, Conditional, Skip, Other

----------------------------------------------------------------------------
(* The invariant of #pragma once.                                          *)
LEMMA InitOnce == ASSUME Init PROVE OnceInv
<1>1. Main \in Files /\ tree \in Trees
  BY TreesAssumption DEF Init, Files
<1>2. /\ Len(input) = Len(tree[Main]) /\ Len(tree[Main]) \in Nat /\ input \in Seq(Tokens)
      /\ \A i \in 1..Len(input) : /\ input[i].file = Main /\ input[i].at = i
                                 /\ input[i].d = tree[Main][i].d /\ input[i].n = tree[Main][i].n
  BY <1>1, TokenizeTyped DEF Init
<1>3. compiled = <<>> /\ Len(compiled) = 0 /\ ~skipping
  BY DEF Init
<1>4. FromFiles
  BY <1>2, <1>3 DEF FromFiles, IsLine
<1>5. \A f \in OnceFiles : Unrepeated(f)
  BY <1>2, <1>3 DEF Unrepeated, Apart
<1>6. ASSUME NEW f \in OnceFiles PROVE Ready(f)
  <2>1. CASE f = Main
    <3>1. 1 \in 1..Len(input) /\ input # <<>>
      BY <1>2, <2>1, EmptySeq DEF OnceFiles
    <3>2. QED
      BY <1>2, <1>3, <2>1, <3>1 DEF Ready, AtPragma
  <2>2. CASE f # Main
    BY <1>2, <1>3, <2>2 DEF Ready, Unread
  <2>3. QED
    BY <2>1, <2>2
<1>7. QED
  BY <1>4, <1>5, <1>6 DEF OnceInv

(* A line that is taken from the input is compiled, or it is skipped.      *)
LEMMA AdvanceOnce ==
  ASSUME Typed, OnceInv, Reading, tree' = tree, Files' = Files, input' = Tail(input),
         compiled' = Append(compiled, line) \/ compiled' = compiled,
         pragma_once \subseteq pragma_once',
         ~skipping /\ line.d = "once" => line.file \in pragma_once'
  PROVE  OnceInv'
<1>1. /\ line \in Tokens /\ line = input[1] /\ Len(input) \in Nat \ {0}
      /\ input' \in Seq(Tokens) /\ Len(input') = Len(input) - 1
      /\ \A i \in 1..(Len(input) - 1) : input'[i] = input[i + 1]
  BY LineTyped
<1>2. PICK n \in Nat \ {0} : n = Len(input)
  BY <1>1
<1>3. PICK a : a = input'
  OBVIOUS
<1>4. Len(a) = n - 1 /\ \A i \in 1..Len(a) : i + 1 \in 1..n /\ i + 1 # 1 /\ a[i] = input[i + 1]
  BY <1>1, <1>2, <1>3
<1>5. PICK m \in Nat : m = Len(compiled)
  BY LenProperties DEF Typed
<1>6. PICK c : c = compiled'
  OBVIOUS
<1>7. \A i \in 1..Len(c) : (i \in 1..m /\ c[i] = compiled[i]) \/ (i = m + 1 /\ c[i] = input[1])
  <2>1. CASE compiled' = compiled
    BY <1>5, <1>6, <2>1
  <2>2. CASE compiled' = Append(compiled, line)
    <3>1. /\ Len(c) = m + 1 /\ c[m + 1] = line
          /\ \A i \in 1..m : c[i] = compiled[i]
      BY <1>1, <1>5, <1>6, <2>2, AppendProperties DEF Typed
    <3>2. QED
      BY <1>1, <1>5, <3>1
  <2>3. QED
    BY <2>1, <2>2
<1>8. FromFiles'
  <2>1. \A i \in 1..Len(a) : IsLine(a[i])
    BY <1>2, <1>4 DEF OnceInv, FromFiles
  <2>2. \A i \in 1..Len(c) : IsLine(c[i])
    BY <1>2, <1>5, <1>7 DEF OnceInv, FromFiles
  <2>3. QED
    BY <1>3, <1>6, <2>1, <2>2 DEF FromFiles, IsLine
<1>9. ASSUME NEW f \in OnceFiles PROVE Unrepeated(f)'
  <2>1. /\ \A i, j \in 1..m : i # j => Apart(compiled[i], compiled[j], f)
        /\ \A i \in 1..m, j \in 1..n : Apart(compiled[i], input[j], f)
        /\ \A i, j \in 1..n : i # j => Apart(input[i], input[j], f)
    BY <1>2, <1>5, <1>9 DEF OnceInv, Unrepeated
  <2>2. \A i, j \in 1..Len(a) : i # j => Apart(a[i], a[j], f)
    BY <1>4, <2>1
  <2>3. \A i \in 1..Len(c), j \in 1..Len(a) : Apart(c[i], a[j], f)
    <3> TAKE i \in 1..Len(c), j \in 1..Len(a)
    <3>1. a[j] = input[j + 1] /\ j + 1 \in 1..n /\ 1 \in 1..n /\ j + 1 # 1
      BY <1>4
    <3>2. CASE i \in 1..m /\ c[i] = compiled[i]
      BY <2>1, <3>1, <3>2
    <3>3. CASE c[i] = input[1]
      BY <2>1, <3>1, <3>3
    <3>4. QED
      BY <1>7, <3>2, <3>3
  <2>4. \A i, j \in 1..Len(c) : i # j => Apart(c[i], c[j], f)
    <3> TAKE i, j \in 1..Len(c)
    <3>1. Apart(compiled[j], input[1], f) => Apart(input[1], compiled[j], f)
      BY DEF Apart
    <3>2. QED
      BY <1>7, <2>1, <3>1
  <2>5. QED
    BY <1>3, <1>6, <2>2, <2>3, <2>4 DEF Unrepeated, Apart
<1>10. ASSUME NEW f \in OnceFiles PROVE Ready(f)'
  <2>1. CASE f \in pragma_once
    BY <2>1 DEF Ready
  <2>2. CASE Unread(f)
    <3>1. \A i \in 1..Len(a) : a[i].file # f
      BY <1>2, <1>4, <2>2 DEF Unread
    <3>2. \A i \in 1..Len(c) : c[i].file # f
      BY <1>2, <1>5, <1>7, <2>2 DEF Unread
    <3>3. QED
      BY <1>3, <1>6, <3>1, <3>2 DEF Ready, Unread
  <2>3. CASE AtPragma(f)
    <3>1. line.file = f /\ line.at = 1 /\ ~skipping
      BY <1>1, <2>3 DEF AtPragma
    <3>2. IsLine(line)
      BY <1>1 DEF OnceInv, FromFiles
    <3>3. line.d = "once"
      BY <1>10, <3>1, <3>2 DEF IsLine, OnceFiles
    <3>4. QED
      BY <3>1, <3>3 DEF Ready
  <2>4. QED
    BY <1>10, <2>1, <2>2, <2>3 DEF OnceInv, Ready
<1>11. OnceFiles' = OnceFiles
  BY DEF OnceFiles
<1>12. QED
  BY <1>8, <1>9, <1>10, <1>11 DEF OnceInv

LEMMA IncludeOnce ==
  ASSUME GroupInv, OnceInv, tree' = tree, Files' = Files, IncludeFile
  PROVE  OnceInv'
<1> DEFINE g == line.n
<1>1. /\ Reading /\ ~skipping /\ skipping' = skipping /\ line.d = "include"
      /\ input' = tokenize(g, includes + 1) \o Tail(input)
      /\ compiled' = Append(compiled, line) /\ pragma_once' = pragma_once
      /\ g \notin pragma_once /\ g \in Files
  <2>1. /\ At({"include"}) /\ ~Known(g) /\ UNCHANGED tables /\ Process
        /\ input' = tokenize(g, includes + 1) \o Tail(input)
    BY DEF IncludeFile
  <2>2. g \in Files
    BY <2>1, IncludedExists DEF OnceInv
  <2> HIDE DEF g
  <2>3. QED
    BY <2>1, <2>2 DEF At, Process, Known, tables
<1>2. /\ line \in Tokens /\ line = input[1] /\ Len(input) \in Nat \ {0}
      /\ Tail(input) \in Seq(Tokens) /\ Len(Tail(input)) = Len(input) - 1
      /\ \A i \in 1..(Len(input) - 1) : Tail(input)[i] = input[i + 1]
  BY <1>1, LineTyped DEF GroupInv
<1>3. PICK n \in Nat \ {0} : n = Len(input)
  BY <1>2
<1>4. PICK b \in Seq(Tokens) :
        /\ b = Tail(input) /\ Len(b) = n - 1
        /\ \A i \in 1..(n - 1) : b[i] = input[i + 1]
  BY <1>2, <1>3
<1>5. PICK k \in Nat : k = Len(tree[g])
  BY <1>1, TreesAssumption DEF GroupInv, Typed, Files
<1>6. PICK nth \in Nat : nth = includes + 1
  BY DEF GroupInv, Typed
<1>7. PICK t \in Seq(Tokens) :
        /\ t = tokenize(g, nth) /\ Len(t) = k
        /\ \A i \in 1..k : /\ t[i].file = g /\ t[i].at = i
                           /\ t[i].d = tree[g][i].d /\ t[i].n = tree[g][i].n
  BY <1>1, <1>5, TokenizeTyped DEF GroupInv, Typed
<1>8. PICK a : a = input'
  OBVIOUS
<1>9. /\ a = t \o b /\ Len(a) = k + (n - 1) /\ a \in Seq(Tokens)
      /\ \A i \in 1..(k + (n - 1)) : a[i] = IF i <= k THEN t[i] ELSE b[i - k]
  <2>1. a = t \o b
    BY <1>1, <1>4, <1>6, <1>7, <1>8
  <2>2. /\ t \o b \in Seq(Tokens) /\ Len(t \o b) = Len(t) + Len(b)
        /\ \A i \in 1..(Len(t) + Len(b)) : (t \o b)[i] = IF i <= Len(t) THEN t[i] ELSE b[i - Len(t)]
    BY ConcatProperties
  <2>3. QED
    BY <1>4, <1>7, <2>1, <2>2
<1>10. \A i \in 1..Len(a) :
         \/ i \in 1..k /\ a[i] = t[i]
         \/ i - k + 1 \in 2..n /\ a[i] = input[i - k + 1]
  BY <1>4, <1>9
<1>11. PICK m \in Nat : m = Len(compiled)
  BY LenProperties DEF GroupInv, Typed
<1>12. PICK c : c = compiled'
  OBVIOUS
<1>13. \A i \in 1..Len(c) : (i \in 1..m /\ c[i] = compiled[i]) \/ (i = m + 1 /\ c[i] = input[1])
  <2>1. /\ Len(c) = m + 1 /\ c[m + 1] = line
        /\ \A i \in 1..m : c[i] = compiled[i]
    BY <1>1, <1>2, <1>11, <1>12, AppendProperties DEF GroupInv, Typed
  <2>2. QED
    BY <1>2, <1>11, <2>1
<1>14. FromFiles'
  <2>1. /\ \A i \in 1..n : IsLine(input[i])
        /\ \A i \in 1..m : IsLine(compiled[i])
    BY <1>3, <1>11 DEF OnceInv, FromFiles
  <2>2. \A i \in 1..k : IsLine(t[i])
    BY <1>5, <1>7 DEF IsLine
  <2>3. \A i \in 1..Len(a) : IsLine(a[i])
    BY <1>10, <2>1, <2>2
  <2>4. \A i \in 1..Len(c) : IsLine(c[i])
    BY <1>13, <2>1
  <2>5. QED
    BY <1>8, <1>12, <2>3, <2>4 DEF FromFiles, IsLine
<1>15. g \in OnceFiles => Unread(g)
  <2> SUFFICES ASSUME g \in OnceFiles, AtPragma(g) PROVE FALSE
    BY <1>1 DEF OnceInv, Ready
  <2>1. line.file = g /\ line.at = 1
    BY <1>2 DEF AtPragma
  <2>2. IsLine(line)
    BY <1>2 DEF OnceInv, FromFiles
  <2>3. QED
    BY <1>1, <2>1, <2>2 DEF IsLine, OnceFiles
<1> HIDE DEF g
<1>16. ASSUME NEW f \in OnceFiles PROVE Unrepeated(f)'
  <2>1. /\ \A i, j \in 1..m : i # j => Apart(compiled[i], compiled[j], f)
        /\ \A i \in 1..m, j \in 1..n : Apart(compiled[i], input[j], f)
        /\ \A i, j \in 1..n : i # j => Apart(input[i], input[j], f)
    BY <1>3, <1>11, <1>16 DEF OnceInv, Unrepeated
  <2>2. \A x, y : Apart(x, y, f) => Apart(y, x, f)
    BY DEF Apart
  <2>3. \A i \in 1..k, j \in 1..m : Apart(t[i], compiled[j], f)
    BY <1>7, <1>11, <1>15, <1>16 DEF Apart, Unread
  <2>4. \A i \in 1..k, j \in 1..n : Apart(t[i], input[j], f)
    BY <1>3, <1>7, <1>15, <1>16 DEF Apart, Unread
  <2>5. \A i, j \in 1..k : i # j => Apart(t[i], t[j], f)
    BY <1>7 DEF Apart
  <2>6. \A i, j \in 1..Len(a) : i # j => Apart(a[i], a[j], f)
    <3> TAKE i, j \in 1..Len(a)
    <3>1. CASE i \in 1..k /\ a[i] = t[i] /\ j \in 1..k /\ a[j] = t[j]
      BY <2>5, <3>1
    <3>2. CASE i \in 1..k /\ a[i] = t[i] /\ j - k + 1 \in 2..n /\ a[j] = input[j - k + 1]
      BY <2>4, <3>2
    <3>3. CASE j \in 1..k /\ a[j] = t[j] /\ i - k + 1 \in 2..n /\ a[i] = input[i - k + 1]
      BY <2>2, <2>4, <3>3
    <3>4. CASE /\ i - k + 1 \in 2..n /\ a[i] = input[i - k + 1]
               /\ j - k + 1 \in 2..n /\ a[j] = input[j - k + 1]
      BY <2>1, <3>4
    <3>5. QED
      BY <1>10, <3>1, <3>2, <3>3, <3>4
  <2>7. \A i \in 1..Len(c), j \in 1..Len(a) : Apart(c[i], a[j], f)
    <3> TAKE i \in 1..Len(c), j \in 1..Len(a)
    <3>1. CASE j \in 1..k /\ a[j] = t[j]
      BY <1>13, <2>2, <2>3, <2>4, <3>1
    <3>2. CASE j - k + 1 \in 2..n /\ a[j] = input[j - k + 1]
      BY <1>13, <2>1, <3>2
    <3>3. QED
      BY <1>10, <3>1, <3>2
  <2>8. \A i, j \in 1..Len(c) : i # j => Apart(c[i], c[j], f)
    BY <1>13, <2>1, <2>2
  <2>9. QED
    BY <1>8, <1>12, <2>6, <2>7, <2>8 DEF Unrepeated, Apart
<1>17. ASSUME NEW f \in OnceFiles PROVE Ready(f)'
  <2>1. CASE f \in pragma_once
    BY <1>1, <2>1 DEF Ready
  <2>2. CASE f = g
    <3>1. k > 0
      BY <1>5, <1>17, <2>2 DEF OnceFiles
    <3>2. a[1] = t[1] /\ Len(a) > 0
      BY <1>9, <3>1
    <3>3. a # <<>>
      BY <1>9, <3>2, EmptySeq
    <3>4. QED
      <4>1. 1 \in 1..k /\ a[1].file = f /\ a[1].at = 1
        BY <1>7, <2>2, <3>1, <3>2
      <4>2. AtPragma(f)'
        BY <1>1, <1>8, <3>3, <4>1 DEF AtPragma
      <4>3. QED
        BY <4>2 DEF Ready
  <2>3. CASE Unread(f) /\ f # g
    <3>1. \A i \in 1..Len(a) : a[i].file # f
      BY <1>3, <1>7, <1>10, <2>3 DEF Unread
    <3>2. \A i \in 1..Len(c) : c[i].file # f
      BY <1>3, <1>11, <1>13, <2>3 DEF Unread
    <3>3. QED
      BY <1>8, <1>12, <3>1, <3>2 DEF Ready, Unread
  <2>4. CASE AtPragma(f)
    <3>1. line.file = f /\ line.at = 1
      BY <1>2, <2>4 DEF AtPragma
    <3>2. IsLine(line)
      BY <1>2 DEF OnceInv, FromFiles
    <3>3. QED
      BY <1>1, <1>17, <3>1, <3>2 DEF IsLine, OnceFiles
  <2>5. QED
    BY <1>17, <2>1, <2>2, <2>3, <2>4 DEF OnceInv, Ready
<1>18. OnceFiles' = OnceFiles
  BY DEF OnceFiles
<1>19. QED
  BY <1>14, <1>16, <1>17, <1>18 DEF OnceInv

LEMMA OnceStep ==
  ASSUME GroupInv, OnceInv, Next
  PROVE  OnceInv'
<1>1. tree' = tree /\ Files' = Files
  BY SameTokens
<1>2. Typed
  BY DEF GroupInv
<1>3. CASE IncludeFile
  BY <1>1, <1>3, IncludeOnce
<1>4. CASE Stray \/ Finish
  <2>1. UNCHANGED <<skipping, input, compiled, pragma_once>>
    BY <1>4 DEF Stray, Error, Finish, tables
  <2>2. QED
    BY <1>1, <2>1 DEF OnceInv, FromFiles, IsLine, OnceFiles, Unrepeated, Apart, Ready, Unread, AtPragma
<1>5. CASE OpenGroup \/ ElseIf \/ Else \/ Endif \/ SkipOpen \/ SkipEnd \/ SkipLine
  <2>1. /\ Reading /\ input' = Tail(input) /\ compiled' = compiled /\ pragma_once' = pragma_once
        /\ ~skipping => line.d # "once"
    BY <1>5 DEF OpenGroup, ElseIf, Else, Endif, SkipOpen, SkipEnd, SkipLine, At, AtPart, Advance,
       Opening, tables
  <2>2. QED
    BY <1>1, <1>2, <2>1, AdvanceOnce
<1>6. CASE Text \/ Define \/ Undef \/ PragmaOnce \/ IncludeKnown
  <2>1. /\ Reading /\ input' = Tail(input) /\ compiled' = Append(compiled, line)
        /\ pragma_once \subseteq pragma_once'
        /\ line.d = "once" => line.file \in pragma_once'
    BY <1>6 DEF Text, Define, Undef, PragmaOnce, IncludeKnown, At, Process, Advance, tables
  <2>2. QED
    BY <1>1, <1>2, <2>1, AdvanceOnce
<1>7. QED
  BY <1>3, <1>4, <1>5, <1>6 DEF Next, Conditional, Skip, Other

----------------------------------------------------------------------------
Inv == GroupInv /\ OnceInv

LEMMA Invariance == Spec => []Inv
<1>1. Init => Inv
  BY InitGroups, InitOnce DEF Inv
<1>2. Inv /\ [Next]_vars => Inv'
  <2> SUFFICES ASSUME Inv, [Next]_vars PROVE Inv'
    OBVIOUS
  <2>1. CASE Next
    BY <2>1, GroupStep, OnceStep DEF Inv, OnceInv
  <2>2. CASE UNCHANGED vars
    <3>1. UNCHANGED <<tree, input, compiled, cond_incl, skipping, lvl, includes, pragma_once>>
      BY <2>2 DEF vars
    <3>2. Files' = Files /\ Tokens' = Tokens
      BY <3>1 DEF Files, Tokens, Lines
    <3>3. GroupInv'
      BY <3>1, <3>2 DEF Inv, GroupInv, Typed, SkipState, TakenOrElse
    <3>4. OnceInv'
      BY <3>1, <3>2 DEF Inv, OnceInv, FromFiles, IsLine, OnceFiles, Unrepeated, Apart, Ready, Unread,
         AtPragma
    <3>5. QED
      BY <3>3, <3>4 DEF Inv
  <2>3. QED
    BY <2>1, <2>2
<1>3. QED
  BY <1>1, <1>2, PTL DEF Spec

\* Whatever the files hold, skip_cond_incl with its counter and the flags of
\* cond_incl compile exactly the lines that the rule of C compiles
\* (preprocess.c, directives and skip_cond_incl).
THEOREM ConditionalsAreThoseOfC == Spec => IsConditional
<1>1. Init => C!Init
  BY InitGroups
<1>2. Inv /\ [Next]_vars => [C!Next]_<<groups, compiled>>
  <2> SUFFICES ASSUME Inv, [Next]_vars PROVE [C!Next]_<<groups, compiled>>
    OBVIOUS
  <2>1. CASE Next
    BY <2>1, GroupStep DEF Inv, OnceInv
  <2>2. CASE UNCHANGED vars
    BY <2>2 DEF vars, groups, TurnOf
  <2>3. QED
    BY <2>1, <2>2
<1>3. QED
  BY <1>1, <1>2, Invariance, PTL DEF Spec, IsConditional, C!Spec

\* However files include each other, the lines after #pragma once at the head
\* of a file are compiled at most once (preprocess.c, include_file).
THEOREM PragmaOnceHolds == Spec => []OnceIsOnce
<1>1. Inv => OnceIsOnce
  <2> SUFFICES ASSUME Inv, NEW i \in 1..Len(compiled), NEW j \in 1..Len(compiled), i < j,
                      compiled[i].file = compiled[j].file, compiled[i].at = compiled[j].at,
                      tree[compiled[i].file][1].d = "once"
               PROVE  FALSE
    BY DEF OnceIsOnce
  <2>1. PICK f \in Files : f = compiled[i].file
    <3>1. compiled[i] \in Tokens
      BY ElementOfSeq DEF Inv, GroupInv, Typed
    <3>2. QED
      BY <3>1 DEF Tokens
  <2>2. IsLine(compiled[i])
    BY DEF Inv, OnceInv, FromFiles
  <2>3. Len(tree[f]) \in Nat
    BY TreesAssumption DEF Inv, GroupInv, Typed, Files
  <2>4. f \in OnceFiles
    BY <2>1, <2>2, <2>3 DEF IsLine, OnceFiles
  <2>5. Len(compiled) \in Nat
    BY LenProperties DEF Inv, GroupInv, Typed
  <2>6. QED
    BY <2>1, <2>4, <2>5 DEF Inv, OnceInv, Unrepeated, Apart
<1>2. QED
  BY <1>1, Invariance, PTL

----------------------------------------------------------------------------
(* Induction up to a bound, without an operator as a parameter.            *)
Less == {p \in Nat \X Nat : p[1] < p[2]}

LEMMA Least ==
  ASSUME NEW S \in SUBSET Nat, S # {}
  PROVE  \E x \in S : \A y \in S : x <= y
<1>1. IsWellFoundedOn(Less, Nat)
  <2>1. Less = OpToRel(<, Nat)
    BY DEF Less, OpToRel
  <2>2. QED
    BY <2>1, NatLessThanWellFounded
<1>2. PICK x \in S : \A y \in S : ~(<<y, x>> \in Less)
  BY <1>1, WFMin
<1>3. \A y \in Nat, z \in Nat : y < z => <<y, z>> \in Less
  BY DEF Less
<1>4. ASSUME NEW y \in S PROVE x <= y
  <2>1. x \in Nat /\ y \in Nat /\ ~(y < x)
    BY <1>2, <1>3, <1>4
  <2>2. QED
    BY <2>1
<1>5. QED
  BY <1>4

LEMMA Induct ==
  ASSUME NEW n \in Nat, NEW G, 0 \in G, \A i \in 1..n : i - 1 \in G => i \in G
  PROVE  \A i \in 0..n : i \in G
<1> DEFINE B == {i \in 0..n : i \notin G}
<1>1. SUFFICES ASSUME B # {} PROVE FALSE
  OBVIOUS
<1>2. PICK x \in B : \A y \in B : x <= y
  <2>1. B \in SUBSET Nat
    OBVIOUS
  <2> HIDE DEF B
  <2>2. QED
    BY <1>1, <2>1, Least
<1>3. x \in 1..n /\ x \notin G
  OBVIOUS
<1>4. x - 1 \notin B
  BY <1>2, <1>3
<1>5. x - 1 \in G
  BY <1>3, <1>4
<1>6. QED
  BY <1>3, <1>5

----------------------------------------------------------------------------
(* What reading a guarded file again would compile.                        *)
Depth(lines) == CHOOSE depth \in Nesting(lines) : TRUE

LEMMA DepthFits ==
  ASSUME NEW lines, Len(lines) \in Nat, Nesting(lines) # {}
  PROVE  /\ \A i \in 0..Len(lines) : Depth(lines)[i] \in Nat
         /\ Depth(lines)[0] = 0 /\ Depth(lines)[Len(lines)] = 0
         /\ \A i \in 1..Len(lines) : Depth(lines)[i] = Depth(lines)[i - 1] + Change(lines[i].d)
<1>1. Depth(lines) \in Nesting(lines)
  BY DEF Depth
<1>2. PICK n \in Nat : n = Len(lines)
  OBVIOUS
<1>d. PICK depth : depth = Depth(lines)
  OBVIOUS
<1>3. /\ depth \in [0..n -> 0..n] /\ depth[0] = 0 /\ depth[n] = 0
      /\ \A i \in 1..n : depth[i] = depth[i - 1] + Change(lines[i].d)
  BY <1>1, <1>2, <1>d DEF Nesting
<1>4. \A i \in 0..n : depth[i] \in Nat
  BY <1>3
<1>5. QED
  BY <1>2, <1>d, <1>3, <1>4

(* Line i is inside the group of the first line, and begins no other part  *)
(* of it.                                                                  *)
Inside(lines, i) ==
  /\ Depth(lines)[i] >= 1
  /\ lines[i].d \in Turning => Depth(lines)[i - 1] >= 2

IsGuardOf(m, lines) ==
  /\ Guarded(lines) /\ lines[1].n = m
  /\ \A i \in 1..(Len(lines) - 1) : Inside(lines, i)

(* The groups after the first i lines of a file.                           *)
GroupsAfter(f, lines, n) ==
  f = [i \in 0..n |-> IF i = 0 THEN <<>> ELSE Step(f[i - 1], lines[i])]

LEMMA GroupsAfterExist ==
  ASSUME NEW n \in Nat, NEW lines
  PROVE  \E f : GroupsAfter(f, lines, n)
<1> DEFINE Upto(m) == \E f : GroupsAfter(f, lines, m)
           G == {m \in 0..n : Upto(m)}
<1>1. Upto(0)
  <2> DEFINE f == [i \in 0..0 |-> <<>>]
  <2>1. f = [i \in 0..0 |-> IF i = 0 THEN <<>> ELSE Step(f[i - 1], lines[i])]
    OBVIOUS
  <2> HIDE DEF f
  <2>2. QED
    BY <2>1 DEF GroupsAfter
<1>2. ASSUME NEW m \in 1..n, Upto(m - 1) PROVE Upto(m)
  <2>1. PICK f : GroupsAfter(f, lines, m - 1)
    BY <1>2
  <2> DEFINE s(i) == Step(f[i - 1], lines[i])
             g == [i \in 0..m |-> IF i = 0 THEN <<>> ELSE s(i)]
  <2>2. \A i \in 0..(m - 1) : f[i] = IF i = 0 THEN <<>> ELSE s(i)
    <3>1. f = [i \in 0..(m - 1) |-> IF i = 0 THEN <<>> ELSE s(i)]
      BY <2>1 DEF GroupsAfter
    <3> HIDE DEF s
    <3>2. QED
      BY <3>1
  <2>3. \A i \in 1..m : g[i - 1] = f[i - 1]
    <3> HIDE DEF s
    <3>1. QED
      BY <2>2
  <2>4. \A i \in 1..m : s(i) = Step(g[i - 1], lines[i])
    <3> TAKE i \in 1..m
    <3>1. PICK x : x = g[i - 1] /\ x = f[i - 1]
      BY <2>3
    <3>2. QED
      BY <3>1
  <2>5. g = [i \in 0..m |-> IF i = 0 THEN <<>> ELSE Step(g[i - 1], lines[i])]
    <3> DEFINE u(i) == Step(g[i - 1], lines[i])
    <3>1. \A i \in 1..m : s(i) = u(i)
      BY <2>4
    <3>2. g = [i \in 0..m |-> IF i = 0 THEN <<>> ELSE s(i)]
      OBVIOUS
    <3> HIDE DEF s, u, g
    <3>3. [i \in 0..m |-> IF i = 0 THEN <<>> ELSE s(i)] = [i \in 0..m |-> IF i = 0 THEN <<>> ELSE u(i)]
      BY <3>1
    <3>4. g = [i \in 0..m |-> IF i = 0 THEN <<>> ELSE u(i)]
      BY <3>2, <3>3
    <3>5. QED
      BY <3>4 DEF u
  <2> HIDE DEF g
  <2>6. QED
    BY <2>5 DEF GroupsAfter
<1> HIDE DEF Upto
<1>3. 0 \in G
  BY <1>1
<1>4. \A i \in 1..n : i - 1 \in G => i \in G
  BY <1>2
<1> HIDE DEF G
<1>5. \A i \in 0..n : i \in G
  BY <1>3, <1>4, Induct, Zenon
<1>6. n \in G
  BY <1>5
<1>7. QED
  BY <1>6 DEF G, Upto

LEMMA GroupsAfterAre ==
  ASSUME NEW n \in Nat, NEW lines, NEW f, GroupsAfter(f, lines, n)
  PROVE  /\ f[0] = <<>>
         /\ \A i \in 1..n : f[i] = Step(f[i - 1], lines[i])
<1> DEFINE s(i) == Step(f[i - 1], lines[i])
<1>2. f = [i \in 0..n |-> IF i = 0 THEN <<>> ELSE s(i)]
  BY DEF GroupsAfter
<1>3. \A i \in 0..n : f[i] = IF i = 0 THEN <<>> ELSE s(i)
  <2> HIDE DEF s
  <2>1. QED
    BY <1>2
<1>4. f[0] = <<>>
  BY <1>3
<1>5. \A i \in 1..n : f[i] = s(i)
  <2> HIDE DEF s
  <2>1. QED
    BY <1>3
<1>6. QED
  BY <1>4, <1>5

(* Inside of a group whose part is skipped.                                *)
Later == [turn |-> "later", is_else |-> FALSE]
Closed(gs, n) == gs \in Seq(Groups) /\ Len(gs) = n /\ n >= 1 /\ gs[1] = Later

LEMMA NotActive ==
  ASSUME NEW gs, NEW n \in Nat, Closed(gs, n)
  PROVE  ~C!Active(gs) /\ gs # <<>> /\ (n >= 2 => ~C!Active(Front(gs)))
<1>1. gs \in Seq(Groups) /\ Len(gs) = n /\ n >= 1 /\ gs[1].turn # "now"
  BY DEF Closed, Later
<1>2. ~C!Active(gs)
  BY <1>1 DEF C!Active
<1>3. gs # <<>>
  BY <1>1, EmptySeq
<1>4. ASSUME n >= 2 PROVE ~C!Active(Front(gs))
  <2>1. Len(Front(gs)) = n - 1 /\ Front(gs)[1] = gs[1]
    BY <1>1, <1>3, <1>4, FrontLast
  <2>2. QED
    BY <1>1, <1>4, <2>1 DEF C!Active
<1>5. QED
  BY <1>2, <1>3, <1>4

LEMMA ClosedStep ==
  ASSUME NEW gs, NEW n \in Nat, NEW l, Closed(gs, n), n + Change(l.d) >= 1, l.d \in Turning => n >= 2
  PROVE  Closed(Step(gs, l), n + Change(l.d))
<1>1. ~C!Active(gs) /\ gs # <<>> /\ (n >= 2 => ~C!Active(Front(gs)))
  BY NotActive
<1>2. gs \in Seq(Groups) /\ Len(gs) = n /\ n >= 1 /\ gs[1] = Later
  BY DEF Closed
<1>3. CASE l.d \in Opening
  <2> DEFINE past == [turn |-> "past", is_else |-> FALSE]
  <2>1. Step(gs, l) = Append(gs, past)
    <3>1. PICK c : c = ((l.d = "if") = (l.n \in macros))
      OBVIOUS
    <3>2. Step(gs, l) = C!Open(gs, c)
      BY <1>3, <3>1 DEF Step
    <3>3. QED
      BY <1>1, <3>2 DEF C!Open, C!Group
  <2>2. past \in Groups
    BY DEF Groups
  <2> HIDE DEF past
  <2>3. /\ Append(gs, past) \in Seq(Groups) /\ Len(Append(gs, past)) = n + 1
        /\ Append(gs, past)[1] = gs[1]
    BY <1>2, <2>2, AppendProperties
  <2>4. Change(l.d) = 1
    BY <1>3 DEF Change
  <2>5. QED
    BY <1>2, <2>1, <2>3, <2>4 DEF Closed
<1>4. CASE l.d \in Turning
  <2>1. Step(gs, l) = gs
    <3>1. PICK c, e : c = (l.d = "else" \/ l.n \in macros) /\ e = (l.d = "else")
      OBVIOUS
    <3>2. l.d \notin Opening
      BY <1>4 DEF Turning, Opening
    <3>3. Step(gs, l) = C!Turn(gs, c, e)
      BY <1>4, <3>1, <3>2 DEF Step
    <3>4. QED
      BY <1>1, <1>4, <3>3, SameEnds DEF C!Turn
  <2>2. Change(l.d) = 0
    BY <1>4 DEF Change, Turning, Opening
  <2>3. QED
    BY <1>2, <2>1, <2>2 DEF Closed
<1>5. CASE l.d = "endif"
  <2>1. Change(l.d) = -1 /\ Step(gs, l) = Front(gs)
    BY <1>5 DEF Change, Step, Turning, Opening
  <2>2. /\ Front(gs) \in Seq(Groups) /\ Len(Front(gs)) = n - 1
        /\ \A i \in 1..(n - 1) : Front(gs)[i] = gs[i]
    BY <1>1, <1>2, FrontLast
  <2>3. n - 1 >= 1
    BY <2>1
  <2>4. QED
    BY <1>2, <2>1, <2>2, <2>3 DEF Closed
<1>6. CASE l.d \notin Opening \cup Turning \cup {"endif"}
  <2>1. Change(l.d) = 0 /\ Step(gs, l) = gs
    BY <1>6 DEF Change, Step
  <2>2. QED
    BY <1>2, <2>1 DEF Closed
<1>7. QED
  BY <1>3, <1>4, <1>5, <1>6

(* The first line opens the group, the last one ends it.                   *)
LEMMA GuardOpens ==
  ASSUME NEW q, q = <<>>, NEW l, l.d = "ifndef", l.n \in macros
  PROVE  Closed(Step(q, l), 1)
<1>1. q \in Seq(Groups) /\ Len(q) = 0
  BY EmptySeq
<1>2. C!Active(q)
  BY <1>1 DEF C!Active
<1>3. Step(q, l) = Append(q, Later)
  <2>1. PICK c : c = ((l.d = "if") = (l.n \in macros))
    OBVIOUS
  <2>2. ~c
    <3>1. (l.d = "if") = FALSE /\ (l.n \in macros) = TRUE
      OBVIOUS
    <3>2. QED
      BY <2>1, <3>1
  <2>3. Step(q, l) = C!Open(q, c)
    BY <2>1 DEF Step, Opening
  <2>4. QED
    BY <1>2, <2>2, <2>3 DEF C!Open, C!Group, Later
<1>4. Later \in Groups
  BY DEF Later, Groups
<1> HIDE DEF Later
<1>5. /\ Append(q, Later) \in Seq(Groups) /\ Len(Append(q, Later)) = Len(q) + 1
      /\ Append(q, Later)[Len(q) + 1] = Later
  BY <1>1, <1>4, AppendProperties
<1>6. PICK r : r = Append(q, Later)
  OBVIOUS
<1>7. r \in Seq(Groups) /\ Len(r) = 1 /\ r[1] = Later
  <2>1. PICK k : k = Len(q) + 1
    OBVIOUS
  <2>2. r \in Seq(Groups) /\ Len(r) = k /\ r[k] = Later
    BY <1>5, <1>6, <2>1
  <2>3. k = 1
    BY <1>1, <2>1
  <2>4. QED
    BY <2>2, <2>3
<1>8. Closed(r, 1)
  BY <1>7 DEF Closed
<1>9. QED
  BY <1>3, <1>6, <1>8

LEMMA GuardEnds ==
  ASSUME NEW gs, Closed(gs, 1), NEW l, l.d = "endif"
  PROVE  Step(gs, l) = <<>>
<1>1. gs \in Seq(Groups) /\ Len(gs) = 1 /\ gs # <<>>
  BY NotActive DEF Closed
<1>2. Front(gs) \in Seq(Groups) /\ Len(Front(gs)) = 0
  BY <1>1, FrontLast
<1>3. Step(gs, l) = Front(gs)
  BY DEF Step, Turning, Opening
<1>4. QED
  BY <1>2, <1>3, EmptySeq

NothingAfter(f, lines) ==
  /\ \A i \in 1..Len(lines) : IF lines[i].d \in Plain THEN ~C!Active(f[i - 1])
                             ELSE lines[i].d \in Opening \/ f[i - 1] # <<>>
  /\ f[Len(lines)] = <<>>

Rereads(f, lines, n) ==
  /\ f[0] = <<>>
  /\ \A i \in 1..n : f[i] = Step(f[i - 1], lines[i])
  /\ CompilesNothing(lines) <=> NothingAfter(f, lines)

LEMMA CompiledAfter ==
  ASSUME NEW lines, NEW n \in Nat, n = Len(lines)
  PROVE  \E f : Rereads(f, lines, n)
<1> DEFINE From(g) == [i \in 0..Len(lines) |-> IF i = 0 THEN <<>> ELSE Step(g[i - 1], lines[i])]
           f == CHOOSE g : g = From(g)
<1>1. f = From(f)
  <2>1. \E g : g = From(g)
    BY GroupsAfterExist DEF GroupsAfter
  <2> HIDE DEF From
  <2>2. QED
    BY <2>1
<1>2. CompilesNothing(lines) <=> NothingAfter(f, lines)
  <2> DEFINE Nothing(g) ==
               /\ \A i \in 1..Len(lines) : IF lines[i].d \in Plain THEN ~C!Active(g[i - 1])
                                          ELSE lines[i].d \in Opening \/ g[i - 1] # <<>>
               /\ g[Len(lines)] = <<>>
  <2>1. CompilesNothing(lines) <=> Nothing(f)
    BY DEF CompilesNothing
  <2> HIDE DEF f
  <2>2. Nothing(f) <=> NothingAfter(f, lines)
    BY DEF NothingAfter
  <2>3. QED
    BY <2>1, <2>2
<1>3. GroupsAfter(f, lines, n)
  BY <1>1 DEF GroupsAfter
<1> HIDE DEF f
<1>4. f[0] = <<>> /\ \A i \in 1..n : f[i] = Step(f[i - 1], lines[i])
  BY <1>3, GroupsAfterAre
<1>5. QED
  BY <1>2, <1>4 DEF Rereads

LEMMA GuardedIsEmpty ==
  ASSUME NEW lines, Len(lines) \in Nat, Nesting(lines) # {}, NEW m \in macros, IsGuardOf(m, lines)
  PROVE  CompilesNothing(lines)
<1>1. PICK n \in Nat : n = Len(lines)
  OBVIOUS
<1>f. PICK f : Rereads(f, lines, n)
  BY <1>1, CompiledAfter
<1>2. PICK depth : depth = Depth(lines)
  OBVIOUS
<1>3. /\ \A i \in 0..n : depth[i] \in Nat
      /\ depth[0] = 0 /\ depth[n] = 0
      /\ \A i \in 1..n : depth[i] = depth[i - 1] + Change(lines[i].d)
  BY <1>1, <1>2, DepthFits
<1>4. /\ lines[1].d = "ifndef" /\ lines[1].n \in macros /\ lines[n].d = "endif"
      /\ \A i \in 1..(n - 1) : /\ depth[i] >= 1
                               /\ lines[i].d \in Turning => depth[i - 1] >= 2
  BY <1>1, <1>2 DEF IsGuardOf, Inside, Guarded, Last
<1>5. CASE n = 0
  <2>1. f[n] = <<>> /\ Len(lines) = 0
    BY <1>1, <1>5, <1>f DEF Rereads
  <2>2. NothingAfter(f, lines)
    BY <1>5, <2>1 DEF NothingAfter
  <2>3. QED
    BY <1>f, <2>2 DEF Rereads
<1>6. CASE n > 0
  <2>1. n >= 2
    BY <1>4, <1>6
  <2>3. f[0] = <<>> /\ \A i \in 1..n : f[i] = Step(f[i - 1], lines[i])
    BY <1>f DEF Rereads
  <2> DEFINE G == {i \in 0..(n - 1) : i >= 1 => Closed(f[i], depth[i])}
  <2>4. 0 \in G
    BY <2>1
  <2>5. \A i \in 1..(n - 1) : i - 1 \in G => i \in G
    <3> SUFFICES ASSUME NEW i \in 1..(n - 1), i - 1 \in G PROVE Closed(f[i], depth[i])
      OBVIOUS
    <3>1. i \in 1..n /\ f[i] = Step(f[i - 1], lines[i]) /\ depth[i] = depth[i - 1] + Change(lines[i].d)
      BY <1>3, <2>3
    <3>2. CASE i = 1
      <4>2. depth[1] = 1
        BY <1>3, <1>4, <3>1, <3>2 DEF Change, Opening
      <4>3. QED
        <5>1. PICK q : q = f[0] /\ q = <<>>
          BY <2>3
        <5>2. f[1] = Step(q, lines[1])
          BY <2>3, <3>1, <3>2, <5>1
        <5>3. Closed(f[1], 1)
          BY <1>4, <5>1, <5>2, GuardOpens
        <5>4. QED
          BY <3>2, <4>2, <5>3
    <3>3. CASE i # 1
      <4>1. PICK k \in Nat : k = depth[i - 1]
        BY <1>3
      <4>2. Closed(f[i - 1], k)
        BY <3>3, <4>1
      <4>3. k + Change(lines[i].d) >= 1 /\ (lines[i].d \in Turning => k >= 2)
        BY <1>4, <3>1, <4>1
      <4>4. Closed(Step(f[i - 1], lines[i]), k + Change(lines[i].d))
        BY <4>2, <4>3, ClosedStep
      <4>5. QED
        BY <3>1, <4>1, <4>4
    <3>4. QED
      BY <3>2, <3>3
  <2> HIDE DEF G
  <2>6. PICK n1 \in Nat : n1 = n - 1
    BY <2>1
  <2>7. \A i \in 0..n1 : i \in G
    BY <2>4, <2>5, <2>6, Induct
  <2>8. \A i \in 1..(n - 1) : Closed(f[i], depth[i]) /\ depth[i] \in Nat
    <3> TAKE i \in 1..(n - 1)
    <3>1. i \in G /\ depth[i] \in Nat
      BY <1>3, <2>6, <2>7
    <3>2. QED
      BY <3>1 DEF G
  <2>9. f[n] = <<>>
    <3>1. depth[n - 1] = 1
      <4>1. n \in 1..n /\ depth[n] = depth[n - 1] + Change(lines[n].d) /\ depth[n - 1] \in Nat
        BY <1>3, <2>1
      <4>2. Change(lines[n].d) = -1
        BY <1>4 DEF Change, Opening
      <4>3. QED
        BY <1>3, <4>1, <4>2
    <3>2. Closed(f[n - 1], 1)
      BY <2>1, <2>8, <3>1
    <3>3. f[n] = Step(f[n - 1], lines[n])
      BY <2>1, <2>3
    <3>4. QED
      BY <1>4, <3>2, <3>3, GuardEnds
  <2>10. ASSUME NEW i \in 1..n
         PROVE  IF lines[i].d \in Plain THEN ~C!Active(f[i - 1])
                ELSE lines[i].d \in Opening \/ f[i - 1] # <<>>
    <3>1. CASE i = 1
      BY <1>4, <3>1 DEF Plain, Opening
    <3>2. CASE i # 1
      <4>1. PICK k \in Nat : Closed(f[i - 1], k)
        BY <2>8, <3>2
      <4>2. ~C!Active(f[i - 1]) /\ f[i - 1] # <<>>
        BY <4>1, NotActive
      <4>3. QED
        BY <4>2
    <3>3. QED
      BY <3>1, <3>2
  <2>11. QED
    BY <1>1, <1>f, <2>9, <2>10 DEF NothingAfter, Rereads
<1>7. QED
  BY <1>5, <1>6

----------------------------------------------------------------------------
(* Where the groups of a reading of a file begin.  Reading r was begun     *)
(* with base[r] groups open, its next line is next[r], and it reads        *)
(* path[r]; the lines of the input are consistent with that, and with the  *)
(* number of groups that are open, top.                                    *)
DepthBefore(x) == Depth(tree[x.file])[x.at - 1]
DepthAfter(x) == Depth(tree[x.file])[x.at]

Marked(x) == x.is_incl_guard => Guarded(tree[x.file]) /\ x.at \in {1, Len(tree[x.file])}
LineIn(x, path, incl) == x.nth <= incl /\ x.file = path[x.nth] /\ Marked(x)

Continued(q, next) ==
  \A i \in 1..Len(q) : \/ q[i].at = next[q[i].nth]
                       \/ i # 1 /\ q[i - 1].nth = q[i].nth /\ q[i].at = q[i - 1].at + 1
Levelled(q, base, top) ==
  \A i \in 1..Len(q) : IF i = 1 THEN base[q[i].nth] + DepthBefore(q[i]) = top
                       ELSE base[q[i].nth] + DepthBefore(q[i]) = base[q[i - 1].nth] + DepthAfter(q[i - 1])

Queued(q, base, next, path, incl, top) ==
  /\ \A i \in 1..Len(q) : LineIn(q[i], path, incl)
  /\ \A i, j \in 1..Len(q) : i < j /\ q[i].nth = q[j].nth => q[i].at < q[j].at
  /\ Continued(q, next)
  /\ Levelled(q, base, top)

(* The k-th open group was opened by line x, the first one of a file that  *)
(* looks guarded, and every line read of that file since is inside of it.  *)
Inner(x, next) == \A i \in 1..Len(tree[x.file]) : i < next[x.nth] => Inside(tree[x.file], i)
Opener(x, k, base, next, path, incl) ==
  /\ LineIn(x, path, incl) /\ x.at = 1 /\ x.n = tree[x.file][1].n
  /\ base[x.nth] = k - 1 /\ Inner(x, next)
Openers(c, base, next, path, incl) ==
  \A k \in 1..Len(c) : c[k].tok.is_incl_guard => Opener(c[k].tok, k, base, next, path, incl)

Top == Len(cond_incl) + lvl
Whole == \A f \in Files : Nesting(tree[f]) # {}
Numbers == [Nat -> Nat]
Paths == [Nat -> Files]
At1(f, f2, r, v) == \A m \in Nat : f2[m] = IF m = r THEN v ELSE f[m]
FreshFrom(next, incl) == \A r \in Nat : r > incl => next[r] = 1

ReadsOf(base, next, path) ==
  /\ FreshFrom(next, includes)
  /\ Queued(input, base, next, path, includes, Top)
  /\ Openers(cond_incl, base, next, path, includes)
Reads == \E base, next \in Numbers, path \in Paths : ReadsOf(base, next, path)

GuardsAreGuards ==
  \A f \in DOMAIN include_guards : f \in Files /\ IsGuardOf(include_guards[f], tree[f])

GuardInv == Whole /\ Reads /\ GuardsAreGuards

----------------------------------------------------------------------------
LEMMA DepthOfLine ==
  ASSUME Typed, Whole, NEW x \in Tokens, IsLine(x)
  PROVE  /\ DepthBefore(x) \in Nat /\ DepthAfter(x) \in Nat
         /\ DepthAfter(x) = DepthBefore(x) + Change(x.d)
         /\ x.file \in Files /\ x.at \in 1..Len(tree[x.file]) /\ Len(tree[x.file]) \in Nat
<1>1. x.file \in Files
  BY DEF Tokens
<1>2. PICK lines : lines = tree[x.file] /\ Nesting(lines) # {} /\ Len(lines) \in Nat
  BY <1>1, TreesAssumption DEF Whole, Typed, Files
<1>3. PICK i \in 1..Len(lines) : i = x.at /\ x.d = lines[i].d
  BY <1>2 DEF IsLine
<1>4. /\ Depth(lines)[i - 1] \in Nat /\ Depth(lines)[i] \in Nat
      /\ Depth(lines)[i] = Depth(lines)[i - 1] + Change(lines[i].d)
  BY <1>2, <1>3, DepthFits
<1>5. QED
  BY <1>1, <1>2, <1>3, <1>4 DEF DepthBefore, DepthAfter

(* A line is taken from the input.                                         *)
LEMMA TailQueued ==
  ASSUME Typed, FromFiles, Whole, Reading, NEW base \in Numbers, NEW next \in Numbers, NEW path,
         NEW incl \in Nat, NEW top \in Nat, NEW top2 \in Int, top2 = top + Change(line.d),
         NEW next2, At1(next, next2, line.nth, next[line.nth] + 1),
         Queued(input, base, next, path, incl, top)
  PROVE  /\ Queued(Tail(input), base, next2, path, incl, top2)
         /\ line.at = next[line.nth] /\ LineIn(line, path, incl)
         /\ base[line.nth] + DepthBefore(line) = top
         /\ base[line.nth] + DepthAfter(line) = top2
<1>1. /\ line \in Tokens /\ Len(input) \in Nat \ {0} /\ line = input[1]
      /\ Len(Tail(input)) = Len(input) - 1
      /\ \A i \in 1..(Len(input) - 1) : Tail(input)[i] = input[i + 1]
  BY LineTyped
<1>2. PICK n \in Nat \ {0} : n = Len(input)
  BY <1>1
<1>3. PICK q : q = input /\ Queued(q, base, next, path, incl, top) /\ Len(q) = n
               /\ \A i \in 1..n : q[i] \in Tokens /\ IsLine(q[i])
  BY <1>2, ElementOfSeq DEF FromFiles, Typed
<1>4. PICK s : s = Tail(input) /\ Len(s) = n - 1 /\ \A i \in 1..(n - 1) : s[i] = q[i + 1]
  BY <1>1, <1>2, <1>3
<1>5. line = q[1]
  BY <1>1, <1>3
<1>6. \A i \in 1..n : /\ DepthBefore(q[i]) \in Nat /\ DepthAfter(q[i]) \in Nat
                      /\ DepthAfter(q[i]) = DepthBefore(q[i]) + Change(q[i].d)
                      /\ q[i].nth \in Nat /\ q[i].at \in Nat
  BY <1>3, DepthOfLine DEF Tokens
<1>7. line.at = next[line.nth] /\ LineIn(line, path, incl) /\ base[line.nth] + DepthBefore(line) = top
  BY <1>2, <1>3, <1>5 DEF Queued, Continued, Levelled
<1>8. base[line.nth] + DepthAfter(line) = top2
  <2>0. PICK c \in Int : c = Change(line.d)
    BY DEF Change
  <2>1. /\ DepthBefore(line) \in Nat /\ DepthAfter(line) = DepthBefore(line) + c
        /\ line.nth \in Nat
    BY <1>2, <1>5, <1>6, <2>0
  <2>3. base[line.nth] \in Nat
    BY <2>1 DEF Numbers
  <2>2. QED
    BY <1>7, <2>0, <2>1, <2>3
<1>9. \A r \in Nat : next2[r] = IF r = line.nth THEN next[line.nth] + 1 ELSE next[r]
  BY DEF At1
<1>10. \A i \in 1..(n - 1) : LineIn(s[i], path, incl)
  BY <1>3, <1>4 DEF Queued, Continued, Levelled
<1>11. \A i, j \in 1..(n - 1) : i < j /\ s[i].nth = s[j].nth => s[i].at < s[j].at
  <2> TAKE i, j \in 1..(n - 1)
  <2>0. \A m \in 1..(n - 1) : s[m] = q[m + 1] /\ m + 1 \in 1..n
    BY <1>4
  <2>1. s[i] = q[i + 1] /\ s[j] = q[j + 1] /\ i + 1 \in 1..n /\ j + 1 \in 1..n
    BY <2>0
  <2>2. QED
    BY <1>3, <2>1 DEF Queued, Continued, Levelled
<1>12. \A i \in 1..(n - 1) : \/ s[i].at = next2[s[i].nth]
                             \/ i # 1 /\ s[i - 1].nth = s[i].nth /\ s[i].at = s[i - 1].at + 1
  <2> TAKE i \in 1..(n - 1)
  <2>1. s[i] = q[i + 1] /\ i + 1 \in 1..n /\ i + 1 # 1 /\ (i + 1) - 1 = i
    BY <1>4
  <2>2. \/ q[i + 1].at = next[q[i + 1].nth]
        \/ q[i].nth = q[i + 1].nth /\ q[i + 1].at = q[i].at + 1
    BY <1>3, <2>1 DEF Queued, Continued, Levelled
  <2>3. CASE q[i].nth = q[i + 1].nth /\ q[i + 1].at = q[i].at + 1
    <3>1. CASE i = 1
      <4>1. next2[s[i].nth] = next[line.nth] + 1
        BY <1>5, <1>6, <1>9, <2>1, <2>3, <3>1
      <4>2. QED
        BY <1>5, <1>7, <2>1, <2>3, <3>1, <4>1
    <3>2. CASE i # 1
      <4>1. i - 1 \in 1..(n - 1) /\ (i - 1) + 1 = i
        BY <3>2
      <4>2. s[i - 1] = q[i]
        BY <1>4, <4>1
      <4>3. QED
        BY <2>1, <2>3, <3>2, <4>2
    <3>3. QED
      BY <3>1, <3>2
  <2>4. CASE q[i + 1].at = next[q[i + 1].nth]
    <3>1. q[i + 1].nth # q[1].nth
      <4>1. 1 \in 1..n /\ 1 < i + 1
        BY <2>1
      <4>2. q[1].nth = q[i + 1].nth => q[1].at < q[i + 1].at
        BY <1>3, <2>1, <4>1 DEF Queued, Continued, Levelled
      <4>3. QED
        BY <1>5, <1>6, <1>7, <2>1, <2>4, <4>1, <4>2
    <3>2. next2[q[i + 1].nth] = next[q[i + 1].nth]
      BY <1>5, <1>6, <1>9, <2>1, <3>1
    <3>3. QED
      BY <2>1, <2>4, <3>2
  <2>5. QED
    BY <2>2, <2>3, <2>4
<1>13. \A i \in 1..(n - 1) :
         IF i = 1 THEN base[s[i].nth] + DepthBefore(s[i]) = top2
         ELSE base[s[i].nth] + DepthBefore(s[i]) = base[s[i - 1].nth] + DepthAfter(s[i - 1])
  <2> TAKE i \in 1..(n - 1)
  <2>1. s[i] = q[i + 1] /\ i + 1 \in 1..n /\ i + 1 # 1 /\ (i + 1) - 1 = i
    BY <1>4
  <2>2. base[q[i + 1].nth] + DepthBefore(q[i + 1]) = base[q[i].nth] + DepthAfter(q[i])
    BY <1>3, <2>1 DEF Queued, Continued, Levelled
  <2>3. CASE i = 1
    BY <1>5, <1>8, <2>1, <2>2, <2>3
  <2>4. CASE i # 1
    <3>1. i - 1 \in 1..(n - 1) /\ (i - 1) + 1 = i
      BY <2>4
    <3>2. s[i - 1] = q[i]
      BY <1>4, <3>1
    <3>3. QED
      BY <2>1, <2>2, <2>4, <3>2
  <2>5. QED
    BY <2>3, <2>4
<1>14. Queued(s, base, next2, path, incl, top2)
  BY <1>4, <1>10, <1>11, <1>12, <1>13 DEF Queued, Continued, Levelled
<1>15. QED
  BY <1>4, <1>7, <1>8, <1>14

(* The lines of one reading.                                               *)
LEMMA TokenizeQueued ==
  ASSUME Typed, Whole, NEW g \in Files, NEW r \in Nat, NEW base \in Numbers, NEW next \in Numbers, NEW path,
         NEW top \in Nat, base[r] = top, next[r] = 1, path[r] = g
  PROVE  Queued(tokenize(g, r), base, next, path, r, top)
<1>1. PICK k \in Nat : k = Len(tree[g])
  BY TreesAssumption DEF Typed, Files
<1>2. PICK t \in Seq(Tokens) :
        /\ t = tokenize(g, r) /\ Len(t) = k
        /\ \A i \in 1..k : t[i].file = g /\ t[i].at = i
  BY <1>1, TokenizeTyped DEF Typed
<1>3. \A i \in 1..k : t[i].nth = r /\ Marked(t[i])
  <2> TAKE i \in 1..k
  <2> DEFINE b == r > 0 /\ Guarded(tree[g]) /\ i \in {1, k}
  <2>1. t[i] = [d |-> tree[g][i].d, n |-> tree[g][i].n, file |-> g, nth |-> r, at |-> i,
                is_incl_guard |-> b]
    BY <1>1, <1>2 DEF tokenize
  <2> HIDE DEF b
  <2>2. t[i].is_incl_guard <=> b
    BY <2>1
  <2>3. t[i].nth = r
    BY <2>1
  <2>4. t[i].is_incl_guard => Guarded(tree[g]) /\ i \in {1, k}
    BY <2>2 DEF b
  <2>5. QED
    BY <1>1, <1>2, <2>3, <2>4 DEF Marked
<1>4. Depth(tree[g])[0] = 0
  <2>1. Len(tree[g]) \in Nat /\ Nesting(tree[g]) # {}
    BY <1>1 DEF Whole
  <2>2. QED
    BY <2>1, DepthFits
<1>5. \A i \in 1..k : LineIn(t[i], path, r)
  BY <1>2, <1>3 DEF LineIn
<1>6. \A i, j \in 1..k : i < j /\ t[i].nth = t[j].nth => t[i].at < t[j].at
  BY <1>2
<1>7. \A i \in 1..k : \/ t[i].at = next[t[i].nth]
                      \/ i # 1 /\ t[i - 1].nth = t[i].nth /\ t[i].at = t[i - 1].at + 1
  <2> TAKE i \in 1..k
  <2>1. CASE i = 1
    BY <1>2, <1>3, <2>1
  <2>2. CASE i # 1
    <3>1. i - 1 \in 1..k
      BY <2>2
    <3>2. QED
      BY <1>2, <1>3, <2>2, <3>1
  <2>3. QED
    BY <2>1, <2>2
<1>8. \A i \in 1..k : IF i = 1 THEN base[t[i].nth] + DepthBefore(t[i]) = top
                      ELSE base[t[i].nth] + DepthBefore(t[i]) = base[t[i - 1].nth] + DepthAfter(t[i - 1])
  <2> TAKE i \in 1..k
  <2>1. CASE i = 1
    BY <1>2, <1>3, <1>4, <2>1 DEF DepthBefore
  <2>2. CASE i # 1
    <3>1. i - 1 \in 1..k
      BY <2>2
    <3>2. QED
      BY <1>2, <1>3, <2>2, <3>1 DEF DepthBefore, DepthAfter
  <2>3. QED
    BY <2>1, <2>2
<1>9. Queued(t, base, next, path, r, top)
  BY <1>2, <1>5, <1>6, <1>7, <1>8 DEF Queued, Continued, Levelled
<1>10. QED
  BY <1>2, <1>9

(* A file is read in front of the lines that remain.                       *)
LEMMA SplicedQueued ==
  ASSUME Typed, Whole, NEW g \in Files, NEW incl \in Nat, NEW r \in Nat, r = incl + 1,
         NEW base \in Numbers, NEW next \in Numbers, NEW path \in Paths, NEW top \in Nat,
         NEW base2 \in Numbers, At1(base, base2, r, top),
         NEW path2 \in Paths, At1(path, path2, r, g), next[r] = 1,
         NEW s \in Seq(Tokens), Queued(s, base, next, path, incl, top)
  PROVE  Queued(tokenize(g, r) \o s, base2, next, path2, r, top)
<1>1. PICK k \in Nat : k = Len(tree[g]) /\ Nesting(tree[g]) # {}
  BY TreesAssumption DEF Typed, Files, Whole
<1>2. PICK t \in Seq(Tokens) :
        /\ t = tokenize(g, r) /\ Len(t) = k
        /\ \A i \in 1..k : t[i].file = g /\ t[i].at = i /\ t[i] \in Tokens
  BY <1>1, TokenizeTyped, ElementOfSeq DEF Typed
<1>3. Queued(t, base2, next, path2, r, top)
  <2>1. base2[r] = top /\ path2[r] = g
    BY DEF At1
  <2>2. QED
    BY <1>2, <2>1, TokenizeQueued
<1>q. \A i \in 1..k : LineIn(t[i], path2, r)
  BY <1>2, <1>3 DEF Queued
<1>u. \A i, j \in 1..k : i < j /\ t[i].nth = t[j].nth => t[i].at < t[j].at
  BY <1>2
<1>v. \A i \in 1..k : \/ t[i].at = next[t[i].nth]
                      \/ i # 1 /\ t[i - 1].nth = t[i].nth /\ t[i].at = t[i - 1].at + 1
  <2> TAKE i \in 1..k
  <2>1. Continued(t, next)
    BY <1>3 DEF Queued
  <2>2. i \in 1..Len(t)
    BY <1>2
  <2>3. QED
    BY <2>1, <2>2 DEF Continued
<1>w. \A i \in 1..k : IF i = 1 THEN base2[t[i].nth] + DepthBefore(t[i]) = top
                    ELSE base2[t[i].nth] + DepthBefore(t[i]) = base2[t[i - 1].nth] + DepthAfter(t[i - 1])
  <2>1. Levelled(t, base2, top)
    BY <1>3 DEF Queued
  <2>2. Len(t) = k
    BY <1>2
  <2>3. QED
    BY <2>1, <2>2 DEF Levelled
<1>t. \A i \in 1..k : t[i].nth = r
  BY <1>2 DEF tokenize
<1>4. PICK n \in Nat : n = Len(s)
  BY LenProperties
<1>5. \A i \in 1..n : s[i] \in Tokens /\ s[i].nth \in Nat
  <2>1. \A i \in 1..n : s[i] \in Tokens
    BY <1>4, ElementOfSeq
  <2>2. \A x \in Tokens : x.nth \in Nat
    BY DEF Tokens
  <2>3. QED
    BY <2>1, <2>2
<1>6. \A i \in 1..n : /\ s[i].nth <= incl /\ s[i].nth # r
                      /\ base2[s[i].nth] = base[s[i].nth] /\ path2[s[i].nth] = path[s[i].nth]
  <2> TAKE i \in 1..n
  <2>1. s[i].nth <= incl
    BY <1>4 DEF Queued, LineIn
  <2>2. QED
    BY <1>5, <2>1 DEF At1
<1>7. PICK a : a = t \o s
  OBVIOUS
<1>c. Len(a) = k + n /\ (\A i \in 1..k : a[i] = t[i]) /\ (\A m \in 1..n : a[k + m] = s[m])
  <2>1. /\ Len(a) = Len(t) + Len(s)
        /\ \A i \in 1..(Len(t) + Len(s)) : a[i] = IF i <= Len(t) THEN t[i] ELSE s[i - Len(t)]
    BY <1>7, ConcatProperties
  <2>2. Len(a) = k + n /\ \A i \in 1..(k + n) : a[i] = IF i <= k THEN t[i] ELSE s[i - k]
    BY <1>2, <1>4, <2>1
  <2>3. ASSUME NEW m \in 1..n PROVE a[k + m] = s[m]
    <3>1. PICK i \in 1..(k + n) : i = k + m
      OBVIOUS
    <3>2. ~(i <= k) /\ i - k = m
      BY <3>1
    <3>3. QED
      BY <2>2, <3>1, <3>2
  <2>4. QED
    BY <2>2, <2>3
<1>d. \A i \in 1..(k + n) : i \in 1..k \/ \E m \in 1..n : i = k + m
  <2> TAKE i \in 1..(k + n)
  <2>1. CASE i > k
    <3>1. i - k \in 1..n /\ i = k + (i - k)
      BY <2>1
    <3>2. QED
      BY <3>1
  <2>2. QED
    BY <2>1
<1>8. \A i \in 1..(k + n) : LineIn(a[i], path2, r)
  <2> TAKE i \in 1..(k + n)
  <2>1. CASE i \in 1..k
    BY <1>q, <1>c, <2>1
  <2>2. CASE \E m \in 1..n : i = k + m
    <3>1. PICK m \in 1..n : i = k + m
      BY <2>2
    <3>2. LineIn(s[m], path, incl)
      BY <1>4 DEF Queued, Continued, Levelled
    <3>3. LineIn(s[m], path2, r)
      BY <1>5, <1>6, <3>2 DEF LineIn
    <3>4. QED
      BY <1>c, <3>1, <3>3
  <2>3. QED
    BY <1>d, <2>1, <2>2
<1>9. \A i, j \in 1..(k + n) : i < j /\ a[i].nth = a[j].nth => a[i].at < a[j].at
  <2> TAKE i, j \in 1..(k + n)
  <2>1. CASE i \in 1..k /\ j \in 1..k
    <3>1. a[i] = t[i] /\ a[j] = t[j]
      BY <1>c, <2>1
    <3>2. i < j /\ t[i].nth = t[j].nth => t[i].at < t[j].at
      BY <1>u, <2>1
    <3>3. QED
      BY <3>1, <3>2
  <2>2. CASE i \in 1..k /\ \E m \in 1..n : j = k + m
    <3>1. PICK m \in 1..n : j = k + m
      BY <2>2
    <3>2. a[i].nth = r /\ a[j].nth # r
      BY <1>t, <1>6, <1>c, <2>2, <3>1
    <3>3. QED
      BY <3>2
  <2>3. CASE (\E m \in 1..n : i = k + m) /\ j \in 1..k
    BY <2>3
  <2>4. CASE (\E m \in 1..n : i = k + m) /\ (\E m \in 1..n : j = k + m)
    <3>1. PICK m \in 1..n : i = k + m
      BY <2>4
    <3>2. PICK l \in 1..n : j = k + l
      BY <2>4
    <3>3. m < l /\ s[m].nth = s[l].nth => s[m].at < s[l].at
      BY <1>4 DEF Queued, Continued, Levelled
    <3>4. i < j => m < l
      BY <3>1, <3>2
    <3>5. a[i] = s[m] /\ a[j] = s[l]
      BY <1>c, <3>1, <3>2
    <3>6. QED
      BY <3>3, <3>4, <3>5
  <2>5. QED
    BY <1>d, <2>1, <2>2, <2>3, <2>4
<1>10. \A i \in 1..(k + n) : \/ a[i].at = next[a[i].nth]
                             \/ i # 1 /\ a[i - 1].nth = a[i].nth /\ a[i].at = a[i - 1].at + 1
  <2> TAKE i \in 1..(k + n)
  <2>1. CASE i \in 1..k
    <3>0. i # 1 => i - 1 \in 1..k
      BY <2>1
    <3>1. a[i] = t[i] /\ (i # 1 => a[i - 1] = t[i - 1])
      BY <1>c, <2>1, <3>0
    <3>2. QED
      BY <1>v, <2>1, <3>1
  <2>2. CASE \E m \in 1..n : i = k + m
    <3>1. PICK m \in 1..n : i = k + m
      BY <2>2
    <3>2. \/ s[m].at = next[s[m].nth]
          \/ m # 1 /\ s[m - 1].nth = s[m].nth /\ s[m].at = s[m - 1].at + 1
      BY <1>4 DEF Queued, Continued, Levelled
    <3>3. a[i] = s[m]
      BY <1>c, <3>1
    <3>4. ASSUME m # 1 PROVE a[i - 1] = s[m - 1] /\ i # 1
      <4>1. PICK v \in 1..n : v = m - 1 /\ i - 1 = k + v /\ i # 1
        BY <3>1, <3>4
      <4>2. QED
        BY <1>c, <4>1
    <3>5. QED
      BY <3>2, <3>3, <3>4
  <2>3. QED
    BY <1>d, <2>1, <2>2
<1>11. \A i \in 1..(k + n) :
         IF i = 1 THEN base2[a[i].nth] + DepthBefore(a[i]) = top
         ELSE base2[a[i].nth] + DepthBefore(a[i]) = base2[a[i - 1].nth] + DepthAfter(a[i - 1])
  <2> TAKE i \in 1..(k + n)
  <2>1. CASE i \in 1..k
    <3>0. i # 1 => i - 1 \in 1..k
      BY <2>1
    <3>1. a[i] = t[i] /\ (i # 1 => a[i - 1] = t[i - 1])
      BY <1>c, <2>1, <3>0
    <3>2. QED
      BY <1>w, <2>1, <3>1
  <2>2. ASSUME NEW m \in 1..n, m # 1, i = k + m
        PROVE  base2[a[i].nth] + DepthBefore(a[i]) = base2[a[i - 1].nth] + DepthAfter(a[i - 1]) /\ i # 1
    <3>0. PICK v \in 1..n : v = m - 1 /\ i - 1 = k + v /\ i # 1
      BY <2>2
    <3>1. m - 1 \in 1..n /\ a[i] = s[m] /\ a[i - 1] = s[m - 1] /\ i # 1
      BY <1>c, <2>2, <3>0
    <3>2. base[s[m].nth] + DepthBefore(s[m]) = base[s[m - 1].nth] + DepthAfter(s[m - 1])
      BY <1>4, <2>2 DEF Queued, Continued, Levelled
    <3>3. QED
      BY <1>6, <3>1, <3>2
  <2>3. CASE i = k + 1 /\ 1 \in 1..n
    <3>1. a[i] = s[1]
      BY <1>c, <2>3
    <3>2. base2[a[i].nth] + DepthBefore(a[i]) = top
      <4>1. base[s[1].nth] + DepthBefore(s[1]) = top
        BY <1>4, <2>3 DEF Queued, Continued, Levelled
      <4>2. QED
        BY <1>6, <2>3, <3>1, <4>1
    <3>3. CASE k = 0
      BY <2>3, <3>2, <3>3
    <3>4. CASE k > 0
      <4>1. a[i - 1] = t[k] /\ k \in 1..k /\ i # 1
        <5>1. i - 1 = k /\ k \in 1..k /\ i # 1
          BY <2>3, <3>4
        <5>2. QED
          BY <1>c, <5>1
      <4>2. DepthAfter(t[k]) = 0
        <5>1. Depth(tree[g])[k] = 0
          BY <1>1, DepthFits
        <5>2. t[k].file = g /\ t[k].at = k
          BY <1>2, <4>1
        <5>3. QED
          BY <5>1, <5>2 DEF DepthAfter
      <4>3. base2[a[i - 1].nth] + DepthAfter(a[i - 1]) = top
        <5>1. base2[t[k].nth] = top
          BY <1>t, <4>1 DEF At1
        <5>2. QED
          BY <4>1, <4>2, <5>1
      <4>4. QED
        BY <3>2, <4>1, <4>3
    <3>5. QED
      BY <3>3, <3>4
  <2>4. QED
    BY <1>d, <2>1, <2>2, <2>3
<1>12. PICK len : len = k + n
  OBVIOUS
<1>13. Queued(a, base2, next, path2, r, top)
  BY <1>c, <1>8, <1>9, <1>10, <1>11, <1>12 DEF Queued, Continued, Levelled
<1>14. QED
  BY <1>2, <1>7, <1>13

----------------------------------------------------------------------------
(* What becomes of the groups that may be guards when a line is processed. *)
LEMMA OpenerStays ==
  ASSUME Typed, Whole, NEW l \in Tokens, IsLine(l),
         NEW base \in Numbers, NEW next \in Numbers, NEW path, NEW incl \in Nat,
         NEW next2, At1(next, next2, l.nth, next[l.nth] + 1), l.at = next[l.nth], LineIn(l, path, incl),
         NEW top \in Int, NEW top2 \in Int,
         base[l.nth] + DepthBefore(l) = top, base[l.nth] + DepthAfter(l) = top2,
         NEW x \in Tokens, NEW k \in Nat, Opener(x, k, base, next, path, incl),
         k <= top2, l.d \in Turning => k < top
  PROVE  Opener(x, k, base, next2, path, incl)
<1>1. /\ LineIn(x, path, incl) /\ x.at = 1 /\ x.n = tree[x.file][1].n
      /\ base[x.nth] = k - 1 /\ Inner(x, next)
  BY DEF Opener
<1>2. x.nth \in Nat /\ l.nth \in Nat /\ l.at \in Nat
  BY DEF Tokens
<1>3. DepthBefore(l) \in Nat /\ DepthAfter(l) \in Nat /\ l.at \in 1..Len(tree[l.file]) /\ Len(tree[l.file]) \in Nat
  BY DepthOfLine
<1>4. CASE x.nth # l.nth
  <2>1. next2[x.nth] = next[x.nth]
    BY <1>2, <1>4 DEF At1
  <2>2. Inner(x, next2)
    BY <1>1, <2>1 DEF Inner
  <2>3. QED
    BY <1>1, <2>2 DEF Opener
<1>5. CASE x.nth = l.nth
  <2>1. x.file = l.file /\ next2[x.nth] = l.at + 1 /\ next[x.nth] = l.at
    BY <1>1, <1>2, <1>5 DEF LineIn, At1
  <2>2. PICK lines : lines = tree[l.file]
    OBVIOUS
  <2>3. Inside(lines, l.at)
    <3>0. base[l.nth] = k - 1
      BY <1>1, <1>5
    <3>1. DepthAfter(l) = top2 - (k - 1) /\ DepthBefore(l) = top - (k - 1)
      <4>1. PICK a \in Nat, b \in Nat : a = DepthAfter(l) /\ b = DepthBefore(l)
        BY <1>3
      <4>2. (k - 1) + a = top2 /\ (k - 1) + b = top
        BY <3>0, <4>1
      <4>3. QED
        BY <4>1, <4>2
    <3>2. DepthAfter(l) >= 1
      BY <1>3, <3>1
    <3>3. l.d \in Turning => DepthBefore(l) >= 2
      BY <1>3, <3>1
    <3>4. l.d = lines[l.at].d
      BY <2>2 DEF IsLine
    <3>5. QED
      BY <2>2, <3>2, <3>3, <3>4 DEF Inside, DepthBefore, DepthAfter
  <2>4. ASSUME NEW i \in 1..Len(lines), i < l.at + 1 PROVE Inside(lines, i)
    <3>1. CASE i = l.at
      BY <2>3, <3>1
    <3>2. CASE i < l.at
      BY <1>1, <2>1, <2>2, <3>2 DEF Inner
    <3>3. Len(lines) \in Nat
      BY <1>3, <2>2
    <3>4. QED
      BY <1>2, <2>4, <3>1, <3>2, <3>3
  <2>5. Inner(x, next2)
    BY <2>1, <2>2, <2>4 DEF Inner
  <2>6. QED
    BY <1>1, <2>5 DEF Opener
<1>6. QED
  BY <1>4, <1>5

LEMMA MarkedEnds ==
  ASSUME Typed, Whole, NEW l \in Tokens, IsLine(l), Marked(l), l.is_incl_guard
  PROVE  /\ l.d \in Opening => l.at = 1
         /\ l.d = "endif" => l.at = Len(tree[l.file])
<1>1. PICK lines : lines = tree[l.file]
  OBVIOUS
<1>2. lines[1].d = "ifndef" /\ lines[Len(lines)].d = "endif" /\ l.at \in {1, Len(lines)}
  BY <1>1 DEF Marked, Guarded, Last
<1>3. l.d = lines[l.at].d
  BY <1>1 DEF IsLine
<1>4. QED
  BY <1>1, <1>2, <1>3 DEF Opening

LEMMA OpenerEnters ==
  ASSUME Typed, Whole, NEW l \in Tokens, IsLine(l), l.d \in Opening, l.is_incl_guard,
         NEW base \in Numbers, NEW next \in Numbers, NEW path, NEW incl \in Nat,
         NEW next2, At1(next, next2, l.nth, next[l.nth] + 1), l.at = next[l.nth], LineIn(l, path, incl),
         NEW top \in Int, base[l.nth] + DepthBefore(l) = top
  PROVE  Opener(l, top + 1, base, next2, path, incl)
<1>1. l.at = 1
  BY MarkedEnds DEF LineIn
<1>2. PICK lines : lines = tree[l.file] /\ Nesting(lines) # {} /\ Len(lines) \in Nat
  BY DepthOfLine DEF Whole
<1>3. l.d = lines[1].d /\ l.n = lines[1].n
  BY <1>1, <1>2 DEF IsLine
<1>4. DepthBefore(l) = 0 /\ DepthAfter(l) = 1
  <2>1. Depth(lines)[0] = 0
    BY <1>2, DepthFits
  <2>2. DepthBefore(l) = 0
    BY <1>1, <1>2, <2>1 DEF DepthBefore
  <2>3. Change(l.d) = 1
    BY DEF Change
  <2>4. QED
    BY <2>2, <2>3, DepthOfLine
<1>5. l.nth \in Nat
  BY DEF Tokens
<1>6. base[l.nth] = (top + 1) - 1
  <2>1. base[l.nth] \in Nat
    BY <1>5 DEF Numbers
  <2>2. QED
    BY <1>4, <2>1
<1>7. Inside(lines, 1)
  BY <1>1, <1>2, <1>3, <1>4 DEF Inside, DepthAfter, Opening, Turning
<1>8. Inner(l, next2)
  <2>1. next2[l.nth] = 2
    BY <1>1, <1>5 DEF At1
  <2>2. \A i \in 1..Len(lines) : i < 2 => i = 1
    BY <1>2
  <2>3. QED
    BY <1>2, <1>7, <2>1, <2>2 DEF Inner
<1>9. QED
  BY <1>1, <1>2, <1>3, <1>6, <1>8 DEF Opener

LEMMA OpenersLater ==
  ASSUME NEW incl \in Nat, NEW r \in Nat, r = incl + 1, NEW top, NEW g, NEW base, NEW base2, NEW path, NEW path2,
         At1(base, base2, r, top), At1(path, path2, r, g), NEW next,
         NEW c \in Seq(Conds(Tokens)), Openers(c, base, next, path, incl)
  PROVE  Openers(c, base2, next, path2, r)
<1> SUFFICES ASSUME NEW k \in 1..Len(c), c[k].tok.is_incl_guard PROVE Opener(c[k].tok, k, base2, next, path2, r)
  BY DEF Openers
<1>1. PICK x \in Tokens : x = c[k].tok
  <2>1. c[k] \in Conds(Tokens)
    BY ElementOfSeq
  <2>2. QED
    BY <2>1 DEF Conds
<1>2. Opener(x, k, base, next, path, incl)
  BY <1>1 DEF Openers
<1>3. x.nth \in Nat /\ x.nth <= incl
  BY <1>2 DEF Opener, LineIn, Tokens
<1>4. base2[x.nth] = base[x.nth] /\ path2[x.nth] = path[x.nth] /\ x.nth <= r
  BY <1>3 DEF At1
<1>5. QED
  BY <1>1, <1>2, <1>4 DEF Opener, LineIn

(* A line is processed: the groups c2 are those of before, but for the one *)
(* it opens, and for the innermost if it begins another part of it.        *)
Kept(k, c2) == k <= Len(cond_incl) /\ c2[k].tok = cond_incl[k].tok /\ (line.d \in Turning => k < Top)
Entered(k, c2) == k = Top + 1 /\ c2[k].tok = line /\ line.d \in Opening
GroupsFollow(c2, top2) ==
  /\ Len(c2) <= top2
  /\ \A k \in 1..Len(c2) : c2[k].tok.is_incl_guard => Kept(k, c2) \/ Entered(k, c2)

Moved(next2, c2, top2, base, path) ==
  /\ next2 \in Numbers /\ FreshFrom(next2, includes)
  /\ Queued(Tail(input), base, next2, path, includes, top2)
  /\ Openers(c2, base, next2, path, includes)

LEMMA LineMoves ==
  ASSUME Typed, FromFiles, Whole, Reading, NEW base \in Numbers, NEW next \in Numbers, NEW path \in Paths,
         ReadsOf(base, next, path), NEW c2 \in Seq(Conds(Tokens)), NEW top2 \in Nat,
         top2 = Top + Change(line.d), GroupsFollow(c2, top2)
  PROVE  \E next2 \in Numbers : Moved(next2, c2, top2, base, path)
<1>1. /\ line \in Tokens /\ line = input[1] /\ Len(input) \in Nat \ {0}
  BY LineTyped
<1>2. IsLine(line) /\ line.nth \in Nat
  BY <1>1 DEF FromFiles, Tokens
<1>4. PICK top \in Nat : top = Top
  BY LenProperties DEF Typed, Top
<1>5. PICK n2 \in Nat : n2 = next[line.nth] + 1
  <2>1. next[line.nth] \in Nat
    BY <1>2 DEF Numbers
  <2>2. QED
    BY <2>1
<1>6. PICK next2 \in Numbers : At1(next, next2, line.nth, next[line.nth] + 1)
  <2>1. [next EXCEPT ![line.nth] = n2] \in Numbers
    BY <1>2 DEF Numbers
  <2>2. At1(next, [next EXCEPT ![line.nth] = n2], line.nth, n2)
    BY <1>2 DEF At1, Numbers
  <2>3. QED
    BY <1>5, <2>1, <2>2
<1>7. Queued(input, base, next, path, includes, top) /\ includes \in Nat
  BY <1>4 DEF ReadsOf, Typed
<1>8. /\ Queued(Tail(input), base, next2, path, includes, top2)
      /\ line.at = next[line.nth] /\ LineIn(line, path, includes)
      /\ base[line.nth] + DepthBefore(line) = top
      /\ base[line.nth] + DepthAfter(line) = top2
  <2>1. top2 = top + Change(line.d) /\ top2 \in Int
    BY <1>4
  <2>2. QED
    BY <1>4, <1>6, <1>7, <2>1, TailQueued, ZenonT(60)
<1>9. FreshFrom(next2, includes)
  <2>1. line.nth <= includes
    BY <1>8 DEF LineIn
  <2>2. \A r \in Nat : r > includes => r # line.nth
    BY <1>2, <1>7, <2>1
  <2>3. QED
    BY <1>6, <2>2 DEF FreshFrom, At1, ReadsOf
<1>10. ASSUME NEW k \in 1..Len(c2), c2[k].tok.is_incl_guard
       PROVE  Opener(c2[k].tok, k, base, next2, path, includes)
  <2>1. PICK x \in Tokens : x = c2[k].tok
    <3>1. c2[k] \in Conds(Tokens)
      BY ElementOfSeq
    <3>2. QED
      BY <3>1 DEF Conds
  <2>2. k \in Nat /\ k <= top2
    <3>1. Len(c2) \in Nat /\ Len(c2) <= top2
      BY LenProperties DEF GroupsFollow
    <3>2. QED
      BY <3>1
  <2>3. CASE Kept(k, c2)
    <3>1. k \in 1..Len(cond_incl) /\ x = cond_incl[k].tok /\ (line.d \in Turning => k < top)
      BY <1>4, <2>1, <2>3 DEF Kept
    <3>2. Opener(x, k, base, next, path, includes)
      BY <1>10, <2>1, <3>1 DEF ReadsOf, Openers
    <3>3. QED
      BY <1>1, <1>2, <1>4, <1>6, <1>7, <1>8, <2>1, <2>2, <3>1, <3>2, OpenerStays
  <2>4. CASE Entered(k, c2)
    <3>1. k = top + 1 /\ x = line /\ line.d \in Opening /\ line.is_incl_guard
      BY <1>4, <1>10, <2>1, <2>4 DEF Entered
    <3>2. Opener(line, top + 1, base, next2, path, includes)
      BY <1>1, <1>2, <1>4, <1>6, <1>7, <1>8, <3>1, OpenerEnters
    <3>3. QED
      BY <2>1, <3>1, <3>2
  <2>5. QED
    BY <1>10, <2>3, <2>4 DEF GroupsFollow
<1>11. QED
  BY <1>6, <1>8, <1>9, <1>10 DEF Moved, Openers

(* The two ways to go on.                                                  *)
LEMMA ReadsHold ==
  ASSUME tree' = tree, NEW base \in Numbers, NEW next \in Numbers, NEW path \in Paths,
         FreshFrom(next, includes'), Queued(input', base, next, path, includes', Top'),
         Openers(cond_incl', base, next, path, includes')
  PROVE  Reads'
<1>1. PICK q, c, top, incl : q = input' /\ c = cond_incl' /\ top = Top' /\ incl = includes'
  OBVIOUS
<1>2. FreshFrom(next, incl) /\ Queued(q, base, next, path, incl, top) /\ Openers(c, base, next, path, incl)
  BY <1>1
<1>3. Queued(q, base, next, path, incl, top)'
  BY <1>2 DEF Queued, Continued, Levelled, LineIn, Marked, DepthBefore, DepthAfter
<1>4. Openers(c, base, next, path, incl)'
  BY <1>2 DEF Openers, Opener, LineIn, Marked, Inner
<1>5. ReadsOf(base, next, path)'
  BY <1>1, <1>2, <1>3, <1>4 DEF ReadsOf
<1>6. path \in Paths'
  BY DEF Paths, Files
<1>7. QED
  BY <1>5, <1>6 DEF Reads

LEMMA AdvanceReads ==
  ASSUME Typed, Typed', Tokens' = Tokens, FromFiles, Whole, Reads, Reading, tree' = tree,
         includes' = includes, input' = Tail(input),
         Top' = Top + Change(line.d), GroupsFollow(cond_incl', Top')
  PROVE  Reads'
<1>1. PICK base \in Numbers, next \in Numbers, path \in Paths : ReadsOf(base, next, path)
  BY DEF Reads
<1>2. PICK c2 \in Seq(Conds(Tokens)) : c2 = cond_incl'
  BY DEF Typed
<1>3. PICK top2 \in Nat : top2 = Top'
  BY LenProperties DEF Typed, Top
<1>4. PICK next2 \in Numbers : Moved(next2, c2, top2, base, path)
  BY <1>1, <1>2, <1>3, LineMoves
<1>5. QED
  BY <1>1, <1>2, <1>3, <1>4, ReadsHold DEF Moved

LEMMA IncludeReads ==
  ASSUME GroupInv, Typed', Tokens' = Tokens, FromFiles, Whole, Reads, tree' = tree, IncludeFile
  PROVE  Reads'
<1>1. /\ Reading /\ line.d = "include" /\ includes' = includes + 1
      /\ input' = tokenize(line.n, includes + 1) \o Tail(input)
      /\ cond_incl' = cond_incl /\ lvl' = lvl
  BY DEF IncludeFile, At, Process
<1>2. PICK g \in Files : g = line.n
  BY IncludedExists DEF IncludeFile
<1>3. Typed
  BY DEF GroupInv
<1>4. PICK base \in Numbers, next \in Numbers, path \in Paths : ReadsOf(base, next, path)
  BY DEF Reads
<1>5. PICK c \in Seq(Conds(Tokens)) : c = cond_incl /\ c = cond_incl'
  BY <1>1, <1>3 DEF Typed
<1>6. PICK top \in Nat : top = Top /\ top = Top' /\ Len(c) <= top
  <2>1. Len(c) \in Nat /\ lvl \in Nat
    BY <1>3, LenProperties DEF Typed
  <2>2. PICK n \in Nat : n = Len(c) + lvl
    BY <2>1
  <2>3. Top = n /\ Top' = n
    BY <1>1, <1>5, <2>2 DEF Top
  <2>4. QED
    BY <2>1, <2>2, <2>3
<1>7. top = Top + Change(line.d)
  <2>1. PICK m \in Int : m = Change(line.d) /\ m = 0
    BY <1>1 DEF Change, Opening
  <2>2. top = top + m
    BY <2>1
  <2>3. QED
    BY <1>6, <2>1, <2>2
<1>8. GroupsFollow(c, top)
  BY <1>1, <1>5, <1>6 DEF GroupsFollow, Kept, Turning
<1>9. PICK next2 \in Numbers : Moved(next2, c, top, base, path)
  BY <1>1, <1>3, <1>4, <1>5, <1>7, <1>8, LineMoves
<1>10. PICK incl \in Nat, r \in Nat : incl = includes /\ r = incl + 1 /\ r = includes'
  BY <1>1, <1>3 DEF Typed
<1>11. PICK base2 \in Numbers : At1(base, base2, r, top)
  <2>1. [base EXCEPT ![r] = top] \in Numbers /\ At1(base, [base EXCEPT ![r] = top], r, top)
    BY DEF Numbers, At1
  <2>2. QED
    BY <2>1
<1>12. PICK path2 \in Paths : At1(path, path2, r, g)
  <2>1. [path EXCEPT ![r] = g] \in Paths /\ At1(path, [path EXCEPT ![r] = g], r, g)
    BY DEF Paths, At1
  <2>2. QED
    BY <2>1
<1>13. next2[r] = 1 /\ FreshFrom(next2, r)
  BY <1>9, <1>10 DEF Moved, FreshFrom
<1>14. PICK s \in Seq(Tokens) : s = Tail(input)
  BY <1>1, <1>3, LineTyped
<1>15. Queued(tokenize(g, r) \o s, base2, next2, path2, r, top)
  BY <1>3, <1>9, <1>10, <1>11, <1>12, <1>13, <1>14, SplicedQueued DEF Moved
<1>16. Openers(c, base2, next2, path2, r)
  BY <1>9, <1>10, <1>11, <1>12, OpenersLater DEF Moved
<1>17. QED
  BY <1>1, <1>2, <1>5, <1>6, <1>10, <1>13, <1>14, <1>15, <1>16, ReadsHold

LEMMA InitReads ==
  ASSUME Init, Whole
  PROVE  Reads /\ GuardsAreGuards
<1>1. Main \in Files /\ Typed
  BY InitGroups, TreesAssumption DEF Init, Files, GroupInv
<1>2. PICK zero \in Numbers : zero[0] = 0
  <2>1. [m \in Nat |-> 0] \in Numbers /\ [m \in Nat |-> 0][0] = 0
    BY DEF Numbers
  <2>2. QED
    BY <2>1
<1>3. PICK one \in Numbers : \A r \in Nat : one[r] = 1
  <2>1. [m \in Nat |-> 1] \in Numbers /\ \A r \in Nat : [m \in Nat |-> 1][r] = 1
    BY DEF Numbers
  <2>2. QED
    BY <2>1
<1>4. PICK path \in Paths : path[0] = Main
  <2>1. [m \in Nat |-> Main] \in Paths /\ [m \in Nat |-> Main][0] = Main
    BY <1>1 DEF Paths
  <2>2. QED
    BY <2>1
<1>5. Queued(tokenize(Main, 0), zero, one, path, 0, 0)
  BY <1>1, <1>2, <1>3, <1>4, TokenizeQueued
<1>6. cond_incl = <<>> /\ Len(cond_incl) = 0 /\ Top = 0 /\ includes = 0 /\ input = tokenize(Main, 0)
  BY DEF Init, Top
<1>7. Openers(cond_incl, zero, one, path, 0)
  BY <1>6 DEF Openers
<1>8. FreshFrom(one, 0)
  BY <1>3 DEF FreshFrom
<1>9. ReadsOf(zero, one, path)
  BY <1>5, <1>6, <1>7, <1>8 DEF ReadsOf
<1>10. GuardsAreGuards
  BY DEF Init, GuardsAreGuards
<1>11. QED
  BY <1>9, <1>10 DEF Reads

----------------------------------------------------------------------------
(* The steps.                                                              *)
LEMMA Tops ==
  ASSUME Typed
  PROVE  Len(cond_incl) \in Nat /\ lvl \in Nat /\ Top \in Nat /\ Top = Len(cond_incl) + lvl
BY LenProperties DEF Typed, Top

(* Steps that leave the stack of groups as it is.                          *)
LEMMA StackKept ==
  ASSUME GroupInv, Reading, NEW top2 \in Nat, Top <= top2, line.d \in Turning => lvl > 0
  PROVE  GroupsFollow(cond_incl, top2)
<1>1. Len(cond_incl) \in Nat /\ lvl \in Nat /\ Top \in Nat /\ Top = Len(cond_incl) + lvl
  BY Tops DEF GroupInv
<1>2. \A k \in 1..Len(cond_incl) : k <= Len(cond_incl) /\ (lvl > 0 => k < Top)
  BY <1>1
<1>3. Len(cond_incl) <= top2
  BY <1>1
<1>4. QED
  BY <1>2, <1>3 DEF GroupsFollow, Kept

LEMMA OpenGroupReads ==
  ASSUME GroupInv, GroupInv', Tokens' = Tokens, FromFiles, Whole, Reads, OpenGroup
  PROVE  Reads'
<1>1. /\ Reading /\ ~skipping /\ line.d \in Opening /\ input' = Tail(input) /\ lvl' = lvl /\ lvl = 0
      /\ tree' = tree /\ includes' = includes
      /\ cond_incl' = Append(cond_incl, [tok |-> line, is_else |-> FALSE, been_active |-> Holds])
  BY DEF OpenGroup, At, Advance, GroupInv, SkipState
<1>2. PICK x : x = [tok |-> line, is_else |-> FALSE, been_active |-> Holds]
  OBVIOUS
<1>3. x \in Conds(Tokens) /\ x.tok = line
  BY <1>1, <1>2, LineTyped, HoldsIsBoolean DEF Conds, GroupInv
<1>4. PICK c \in Seq(Conds(Tokens)) : c = cond_incl
  BY DEF GroupInv, Typed
<1>5. PICK n \in Nat : n = Len(c)
  BY LenProperties
<1>6. PICK d : d = cond_incl'
  OBVIOUS
<1>7. Len(d) = n + 1 /\ d[n + 1] = x /\ \A k \in 1..n : d[k] = c[k]
  BY <1>1, <1>2, <1>3, <1>4, <1>5, <1>6, AppendProperties
<1>8. Top = n /\ Top' = n + 1
  BY <1>1, <1>4, <1>5, <1>6, <1>7 DEF Top
<1>9. Change(line.d) = 1 /\ line.d \notin Turning
  BY <1>1 DEF Change, Opening, Turning
<1>10. GroupsFollow(d, n + 1)
  <2>1. ASSUME NEW k \in 1..(n + 1) PROVE Kept(k, d) \/ Entered(k, d)
    <3>1. CASE k = n + 1
      BY <1>1, <1>3, <1>7, <1>8, <3>1 DEF Entered
    <3>2. CASE k # n + 1
      <4>1. k \in 1..n
        BY <3>2
      <4>2. QED
        BY <1>4, <1>5, <1>7, <1>9, <4>1 DEF Kept
    <3>3. QED
      BY <3>1, <3>2
  <2>2. QED
    BY <1>7, <2>1 DEF GroupsFollow
<1>11. Top' = Top + Change(line.d)
  BY <1>8, <1>9
<1>12. QED
  BY <1>1, <1>6, <1>8, <1>10, <1>11, AdvanceReads DEF GroupInv

LEMMA PartReads ==
  ASSUME GroupInv, GroupInv', Tokens' = Tokens, FromFiles, Whole, Reads, ElseIf \/ Else
  PROVE  Reads'
<1>1. /\ Reading /\ line.d \in Turning /\ input' = Tail(input) /\ lvl' = lvl /\ lvl = 0
      /\ tree' = tree /\ includes' = includes /\ cond_incl # <<>>
  BY DEF ElseIf, Else, AtPart, Advance, GroupInv, SkipState, Turning
<1>2. PICK c \in Seq(Conds(Tokens)) : c = cond_incl
  BY DEF GroupInv, Typed
<1>3. PICK n \in Nat \ {0} : n = Len(c)
  BY <1>1, <1>2, FrontLast
<1>4. PICK y \in Conds(Tokens) : y = Cond
  BY <1>1, <1>2, FrontLast DEF Cond
<1>5. PICK x \in Conds(Tokens) : cond_incl' = Append(Front(c), x) /\ ~x.tok.is_incl_guard
  <2>1. PICK z \in Conds(Tokens) : z = NotAGuard(y)
    BY <1>1, <1>4, NotAGuardTyped DEF GroupInv
  <2>2. ~z.tok.is_incl_guard
    <3>1. y.tok \in Tokens
      BY DEF Conds
    <3>2. z.tok.is_incl_guard = FALSE
      BY <2>1, <3>1 DEF NotAGuard, Conds, Tokens
    <3>3. QED
      BY <3>2
  <2>3. CASE ElseIf
    <3>1. cond_incl' = Append(Front(c), [z EXCEPT !.been_active = @ \/ (~Cond.been_active /\ Holds)])
      BY <1>2, <1>4, <2>1, <2>3 DEF ElseIf
    <3>2. PICK b \in BOOLEAN : b = (z.been_active \/ (~Cond.been_active /\ Holds))
      BY <1>4, HoldsIsBoolean DEF Conds
    <3>3. PICK w : w = [z EXCEPT !.been_active = b]
      OBVIOUS
    <3>4. w \in Conds(Tokens) /\ w.tok = z.tok
      BY <3>3 DEF Conds
    <3>5. cond_incl' = Append(Front(c), w)
      BY <3>1, <3>2, <3>3
    <3>6. QED
      BY <2>2, <3>4, <3>5
  <2>4. CASE Else
    <3>1. cond_incl' = Append(Front(c), [z EXCEPT !.is_else = TRUE])
      BY <1>2, <1>4, <2>1, <2>4 DEF Else
    <3>2. PICK w : w = [z EXCEPT !.is_else = TRUE]
      OBVIOUS
    <3>3. w \in Conds(Tokens) /\ w.tok = z.tok
      BY <3>2 DEF Conds
    <3>4. QED
      BY <2>2, <3>1, <3>2, <3>3
  <2>5. QED
    BY <2>3, <2>4
<1>6. PICK d : d = cond_incl'
  OBVIOUS
<1>7. Len(d) = n /\ ~d[n].tok.is_incl_guard /\ \A k \in 1..(n - 1) : d[k] = c[k]
  <2>1. PICK f \in Seq(Conds(Tokens)) : f = Front(c) /\ Len(f) = n - 1 /\ \A k \in 1..(n - 1) : f[k] = c[k]
    BY <1>1, <1>2, <1>3, FrontLast
  <2>2. d = Append(f, x)
    BY <1>5, <1>6, <2>1
  <2>3. Len(d) = Len(f) + 1 /\ d[Len(f) + 1] = x /\ \A k \in 1..Len(f) : d[k] = f[k]
    BY <2>2, AppendProperties
  <2>4. QED
    BY <1>3, <1>5, <2>1, <2>3
<1>8. Top = n /\ Top' = n
  BY <1>1, <1>2, <1>3, <1>6, <1>7 DEF Top
<1>9. Change(line.d) = 0
  BY <1>1 DEF Change, Opening, Turning
<1>10. GroupsFollow(d, n)
  <2>1. ASSUME NEW k \in 1..n, d[k].tok.is_incl_guard PROVE Kept(k, d)
    <3>1. k \in 1..(n - 1)
      BY <1>7, <2>1
    <3>2. QED
      BY <1>2, <1>3, <1>7, <1>8, <3>1 DEF Kept
  <2>2. QED
    BY <1>7, <2>1 DEF GroupsFollow
<1>11. Top' = Top + Change(line.d)
  BY <1>8, <1>9
<1>12. QED
  BY <1>1, <1>6, <1>8, <1>10, <1>11, AdvanceReads DEF GroupInv

LEMMA EndifReads ==
  ASSUME GroupInv, GroupInv', Tokens' = Tokens, FromFiles, Whole, Reads, Endif
  PROVE  Reads'
<1>1. /\ Reading /\ line.d = "endif" /\ input' = Tail(input) /\ lvl' = lvl /\ lvl = 0
      /\ tree' = tree /\ includes' = includes /\ cond_incl # <<>> /\ cond_incl' = Front(cond_incl)
  BY DEF Endif, AtPart, Advance, GroupInv, SkipState
<1>2. PICK c \in Seq(Conds(Tokens)) : c = cond_incl
  BY DEF GroupInv, Typed
<1>3. PICK n \in Nat \ {0} : n = Len(c)
  BY <1>1, <1>2, FrontLast
<1>4. PICK d : d = cond_incl' /\ Len(d) = n - 1 /\ \A k \in 1..(n - 1) : d[k] = c[k]
  BY <1>1, <1>2, <1>3, FrontLast
<1>5. Top = n /\ Top' = n - 1
  BY <1>1, <1>2, <1>3, <1>4 DEF Top
<1>6. Change(line.d) = -1 /\ line.d \notin Turning
  BY <1>1 DEF Change, Opening, Turning
<1>7. GroupsFollow(d, n - 1)
  <2>1. ASSUME NEW k \in 1..(n - 1) PROVE Kept(k, d)
    BY <1>2, <1>3, <1>4, <1>6 DEF Kept
  <2>2. QED
    BY <1>4, <2>1 DEF GroupsFollow
<1>8. Top' = Top + Change(line.d)
  BY <1>5, <1>6
<1>9. QED
  BY <1>1, <1>4, <1>5, <1>7, <1>8, AdvanceReads DEF GroupInv

(* The group that ends a file that its first line began was its guard.     *)
LEMMA EndifGuards ==
  ASSUME GroupInv, FromFiles, GuardInv, Endif
  PROVE  GuardsAreGuards'
<1>1. /\ Reading /\ line.d = "endif" /\ cond_incl # <<>> /\ tree' = tree
      /\ include_guards' = IF IsGuard(line)
                           THEN [f \in DOMAIN include_guards \cup {line.file} |->
                                  IF f = line.file THEN Cond.tok.n ELSE include_guards[f]]
                           ELSE include_guards
  BY DEF Endif, AtPart, Advance
<1>2. line \in Tokens /\ IsLine(line) /\ line.file \in Files /\ line.nth \in Nat
  BY <1>1, LineTyped DEF GroupInv, FromFiles, Tokens
<1>3. ASSUME IsGuard(line) PROVE IsGuardOf(Cond.tok.n, tree[line.file])
  <2>1. PICK base \in Numbers, next \in Numbers, path \in Paths : ReadsOf(base, next, path)
    BY DEF Reads, GuardInv
  <2>2. PICK c \in Seq(Conds(Tokens)) : c = cond_incl
    BY DEF GroupInv, Typed
  <2>3. PICK n \in Nat \ {0} : n = Len(c)
    BY <1>1, <2>2, FrontLast
  <2>4. PICK x \in Tokens : x = Cond.tok /\ x = c[n].tok
    <3>1. Cond = c[n]
      BY <2>2, <2>3 DEF Cond, Last
    <3>2. c[n] \in Conds(Tokens)
      BY <2>3, ElementOfSeq
    <3>3. QED
      BY <3>1, <3>2 DEF Conds
  <2>5. line.is_incl_guard /\ x.is_incl_guard /\ line.file = x.file /\ line.nth = x.nth
    BY <1>3, <2>4 DEF IsGuard
  <2>6. Opener(x, n, base, next, path, includes)
    BY <2>1, <2>2, <2>3, <2>4, <2>5 DEF ReadsOf, Openers
  <2>7. PICK lines : lines = tree[line.file]
    OBVIOUS
  <2>8. Marked(line) /\ line.at = next[line.nth]
    <3>1. line = input[1] /\ Len(input) \in Nat \ {0}
      BY <1>1, LineTyped DEF GroupInv
    <3>2. PICK q : q = input /\ Queued(q, base, next, path, includes, Top)
      BY <2>1 DEF ReadsOf
    <3>3. 1 \in 1..Len(q) /\ line = q[1]
      BY <3>1, <3>2
    <3>4. QED
      BY <3>2, <3>3 DEF Queued, Continued, LineIn
  <2>9. next[x.nth] = Len(lines) /\ Len(lines) \in Nat
    <3>1. line.at = Len(lines)
      BY <1>1, <1>2, <2>5, <2>7, <2>8, MarkedEnds DEF GuardInv, GroupInv
    <3>2. QED
      BY <1>2, <2>5, <2>7, <2>8, <3>1, DepthOfLine DEF GuardInv, GroupInv
  <2>10. \A i \in 1..(Len(lines) - 1) : Inside(lines, i)
    <3>1. \A i \in 1..(Len(lines) - 1) : i \in 1..Len(lines) /\ i < Len(lines)
      BY <2>9
    <3>2. QED
      BY <2>5, <2>6, <2>7, <2>9, <3>1 DEF Opener, Inner
  <2>11. Guarded(lines) /\ lines[1].n = x.n
    BY <2>5, <2>6, <2>7 DEF Opener, LineIn, Marked
  <2>12. QED
    BY <2>4, <2>7, <2>10, <2>11 DEF IsGuardOf
<1>4. PICK t, g : t = include_guards' /\ g = Cond.tok.n
  OBVIOUS
<1>5. \A f \in DOMAIN t : f \in Files /\ IsGuardOf(t[f], tree[f])
  <2>1. CASE IsGuard(line)
    <3>1. t = [f \in DOMAIN include_guards \cup {line.file} |-> IF f = line.file THEN g ELSE include_guards[f]]
      BY <1>1, <1>4, <2>1
    <3>2. \A f \in DOMAIN include_guards : f \in Files /\ IsGuardOf(include_guards[f], tree[f])
      BY DEF GuardInv, GuardsAreGuards
    <3>3. IsGuardOf(g, tree[line.file])
      BY <1>3, <1>4, <2>1
    <3>4. QED
      BY <1>2, <3>1, <3>2, <3>3
  <2>2. CASE ~IsGuard(line)
    BY <1>1, <1>4, <2>2 DEF GuardInv, GuardsAreGuards
  <2>3. QED
    BY <2>1, <2>2
<1>6. QED
  BY <1>1, <1>4, <1>5 DEF GuardsAreGuards, Files

LEMMA GuardsKept ==
  ASSUME GuardsAreGuards, tree' = tree, include_guards' = include_guards
  PROVE  GuardsAreGuards'
BY DEF GuardsAreGuards, Files

LEMMA GuardStep ==
  ASSUME GroupInv, FromFiles, GuardInv, Next
  PROVE  GuardInv'
<1>1. tree' = tree /\ Files' = Files /\ Tokens' = Tokens
  BY SameTokens
<1>2. GroupInv' /\ Typed'
  BY GroupStep DEF GroupInv
<1>3. Whole'
  BY <1>1 DEF GuardInv, Whole
<1>4. Typed /\ Whole /\ Reads /\ GuardsAreGuards
  BY DEF GuardInv, GroupInv
<1>5. CASE Endif
  BY <1>1, <1>2, <1>3, <1>4, <1>5, EndifReads, EndifGuards DEF GuardInv
<1>6. CASE OpenGroup \/ ElseIf \/ Else
  <2>1. include_guards' = include_guards
    BY <1>6 DEF OpenGroup, ElseIf, Else, tables
  <2>2. Reads'
    BY <1>1, <1>2, <1>4, <1>6, OpenGroupReads, PartReads
  <2>3. QED
    BY <1>1, <1>3, <1>4, <2>1, <2>2, GuardsKept DEF GuardInv
<1>7. CASE Stray \/ Finish
  <2>1. UNCHANGED <<cond_incl, lvl, input, includes, include_guards>>
    BY <1>7 DEF Stray, Error, Finish, tables
  <2>2. Reads'
    <3>1. PICK base \in Numbers, next \in Numbers, path \in Paths : ReadsOf(base, next, path)
      BY <1>4 DEF Reads
    <3>2. Top' = Top
      BY <2>1 DEF Top
    <3>3. QED
      BY <1>1, <2>1, <3>1, <3>2, ReadsHold DEF ReadsOf
  <2>3. QED
    BY <1>1, <1>3, <1>4, <2>1, <2>2, GuardsKept DEF GuardInv
<1>8. CASE SkipOpen \/ SkipEnd
  <2>1. /\ Reading /\ input' = Tail(input) /\ includes' = includes /\ cond_incl' = cond_incl
        /\ include_guards' = include_guards /\ line.d \notin Turning
        /\ lvl' = lvl + Change(line.d)
    BY <1>8 DEF SkipOpen, SkipEnd, Advance, tables, Change, Turning, Opening
  <2>2. Top' = Top + Change(line.d)
    <3>1. PICK c \in Int : c = Change(line.d)
      BY DEF Change
    <3>2. QED
      BY <1>4, <2>1, <3>1, Tops DEF Top
  <2>3. PICK top2 \in Nat : top2 = Top' /\ Len(cond_incl) <= top2
    <3>1. PICK t \in Nat, l \in Nat, n \in Nat : t = Top' /\ l = lvl' /\ n = Len(cond_incl) /\ t = n + l
      BY <1>2, <1>4, <2>1, Tops DEF Top, Typed
    <3>2. QED
      BY <3>1
  <2>4. GroupsFollow(cond_incl, top2)
    BY <2>1, <2>3 DEF GroupsFollow, Kept
  <2>5. Reads'
    BY <1>1, <1>2, <1>4, <2>1, <2>2, <2>3, <2>4, AdvanceReads
  <2>6. QED
    BY <1>1, <1>3, <1>4, <2>1, <2>5, GuardsKept DEF GuardInv
<1>9. CASE SkipLine \/ Text \/ Define \/ Undef \/ PragmaOnce \/ IncludeKnown
  <2>1. /\ Reading /\ input' = Tail(input) /\ includes' = includes /\ cond_incl' = cond_incl
        /\ include_guards' = include_guards /\ lvl' = lvl
    BY <1>9 DEF SkipLine, Text, Define, Undef, PragmaOnce, IncludeKnown, At, Process, Advance, tables
  <2>2. line.d \in Plain \cup Turning /\ (line.d \in Turning => lvl > 0)
    <3>1. CASE SkipLine
      <4>1. line.d \in Plain \/ (line.d \in Turning /\ lvl > 0)
        BY <3>1 DEF SkipLine
      <4>2. QED
        BY <4>1 DEF Plain, Turning
    <3>2. CASE Text \/ Define \/ Undef \/ PragmaOnce \/ IncludeKnown
      BY <3>2 DEF Text, Define, Undef, PragmaOnce, IncludeKnown, At, Plain, Turning
    <3>3. QED
      BY <1>9, <3>1, <3>2
  <2>3. Change(line.d) = 0
    BY <2>2 DEF Change, Plain, Turning, Opening
  <2>4. Top' = Top /\ Top \in Nat
    BY <1>4, <2>1, Tops DEF Top
  <2>5. GroupsFollow(cond_incl, Top)
    BY <2>1, <2>2, <2>4, StackKept
  <2>6. Top' = Top + Change(line.d)
    BY <2>3, <2>4
  <2>7. Reads'
    BY <1>1, <1>2, <1>4, <2>1, <2>4, <2>5, <2>6, AdvanceReads
  <2>8. QED
    BY <1>1, <1>3, <1>4, <2>1, <2>7, GuardsKept DEF GuardInv
<1>10. CASE IncludeFile
  <2>1. include_guards' = include_guards
    BY <1>10 DEF IncludeFile, tables
  <2>2. Reads'
    BY <1>1, <1>2, <1>4, <1>10, IncludeReads
  <2>3. QED
    BY <1>1, <1>3, <1>4, <2>1, <2>2, GuardsKept DEF GuardInv
<1>11. QED
  BY <1>5, <1>6, <1>7, <1>8, <1>9, <1>10 DEF Next, Conditional, Skip, Other

\* When the groups of every file are whole, a file that its guard keeps from
\* being read would have compiled nothing, however files include each other
\* (preprocess.c, directives and include_file).
THEOREM GuardsAreSound == Spec /\ FilesAreWhole => []GuardedFilesAreEmpty
<1>1. Init /\ FilesAreWhole => GuardInv
  <2>1. FilesAreWhole => Whole
    BY DEF FilesAreWhole, Whole, Files
  <2>2. QED
    BY <2>1, InitReads DEF GuardInv
<1>2. Inv /\ GuardInv /\ [Next]_vars => GuardInv'
  <2> SUFFICES ASSUME Inv, GuardInv, [Next]_vars PROVE GuardInv'
    OBVIOUS
  <2>1. CASE Next
    BY <2>1, GuardStep DEF Inv, OnceInv
  <2>2. CASE UNCHANGED vars
    <3>1. UNCHANGED <<tree, input, cond_incl, lvl, includes, include_guards>>
      BY <2>2 DEF vars
    <3>2. Whole'
      BY <3>1 DEF GuardInv, Whole, Files
    <3>3. Reads'
      <4>1. PICK base \in Numbers, next \in Numbers, path \in Paths : ReadsOf(base, next, path)
        BY DEF Reads, GuardInv
      <4>2. Top' = Top
        BY <3>1 DEF Top
      <4>3. QED
        BY <3>1, <4>1, <4>2, ReadsHold DEF ReadsOf
    <3>4. QED
      BY <3>1, <3>2, <3>3, GuardsKept DEF GuardInv
  <2>3. QED
    BY <2>1, <2>2
<1>3. Inv /\ GuardInv => GuardedFilesAreEmpty
  <2> SUFFICES ASSUME Inv, GuardInv, NEW f \in DOMAIN include_guards, include_guards[f] \in macros
               PROVE  CompilesNothing(tree[f])
    BY DEF GuardedFilesAreEmpty
  <2>0. PICK m \in macros : m = include_guards[f]
    OBVIOUS
  <2>1. PICK lines : lines = tree[f] /\ m = include_guards[f]
    BY <2>0
  <2>2. f \in Files /\ IsGuardOf(m, lines)
    BY <2>1 DEF GuardInv, GuardsAreGuards
  <2>3. Len(lines) \in Nat /\ Nesting(lines) # {}
    BY <2>1, <2>2, TreesAssumption DEF GuardInv, Whole, Inv, GroupInv, Typed, Files
  <2>4. QED
    BY <2>1, <2>2, <2>3, GuardedIsEmpty
<1>4. QED
  BY <1>1, <1>2, <1>3, Invariance, PTL DEF Spec
=============================================================================
