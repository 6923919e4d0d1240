--------------------------- MODULE TmpStackProofs ---------------------------
(***************************************************************************)
(* Proofs about TmpStack, for every number of scratch registers, every     *)
(* size of locals, of _BitInts and of buffer, and every nesting depth.     *)
(*                                                                         *)
(* The three safety properties are not inductive: at a pop they need to    *)
(* know that the depths kept in the open slots bound everything emitted    *)
(* since each push.  What holds between steps is weaker than "each slot    *)
(* knows what was written since its push", since a slot hears of nested    *)
(* temporaries only when the slot directly above it is popped: some slot   *)
(* at or above it knows.  Depths covers this, Spilled says why a value     *)
(* loaded into a fallback register cannot hit an enclosing temporary, and  *)
(* Words why the words of a _BitInt end up side by side.                   *)
(***************************************************************************)
EXTENDS TmpStack, TLAPS

\* A general register written since slot i was pushed is below the register
\* depth of a slot at or above i, unless slot i was sent to the stack.
GpCovered ==
  \A i \in 1 .. depth : data[i].kind = "SL_GP" =>
    \A r \in dirty[i].gp : \E j \in i .. depth : r < data[j].gp_depth

FpCovered ==
  \A i \in 1 .. depth : data[i].kind = "SL_FP" =>
    \A r \in dirty[i].fp : \E j \in i .. depth : r < data[j].fp_depth

StCovered ==
  \A i \in 1 .. depth : \A w \in dirty[i].st :
    /\ w \in used_words
    /\ reuse => \E j \in i .. depth : w <= lvar_stk_sz + data[j].st_depth

\* A register value is sent to the stack before its pop only by a call, which
\* sends everything below it there too.
Spilled ==
  \A i \in 1 .. depth :
    /\ data[i].kind = "SL_GP" => data[i].use \in {"gp", "callee"}
    /\ data[i].kind = "SL_FP" => data[i].use = "fp"
    /\ data[i].kind = "SL_ST" /\ data[i].use \in {"gp", "callee"} =>
         \A j \in 1 .. i : data[j].kind = "SL_ST"

\* The words of a _BitInt sit on each other, and nothing was popped onto the
\* lower ones.
BitWords ==
  \A i \in 1 .. depth : data[i].use = "bitint" =>
    /\ data[i].kind = "SL_ST"
    /\ data[i].word >= 1
    /\ data[i].word > 1 =>
         /\ i > 1
         /\ data[i - 1].use = "bitint"
         /\ data[i - 1].word = data[i].word - 1
         /\ data[i - 1].st_depth = 0

JobOK ==
  /\ job.op = "none" => job = NoJob
  /\ job # NoJob => in_fn /\ depth > 0
  /\ job.op = "bitint" => /\ Top.use = "bitint"
                          /\ Bottom(Top) = job.last + 1
  /\ job.op = "cas" => Top.use = "gp"
  /\ ~in_fn => depth = 0

UsedWordsInFrame ==
  /\ lvar_stk_sz <= peak_stk_usage
  /\ \A w \in used_words : w > lvar_stk_sz /\ w <= peak_stk_usage
  /\ ~in_fn => 8 * peak_stk_usage <= frame - tmpbuf_sz

IndInv ==
  /\ TypeOK
  /\ GpCovered /\ FpCovered /\ StCovered
  /\ Spilled /\ BitWords /\ JobOK /\ UsedWordsInFrame
  /\ TempsSurvive /\ NoReuseIsFresh

-----------------------------------------------------------------------------
LEMMA EmptySlots == <<>> \in [1 .. 0 -> Slot] /\ <<>> \in [1 .. 0 -> Footprint]
  OBVIOUS

LEMMA InitInd == Init => IndInv
<1> SUFFICES ASSUME Init PROVE IndInv
  OBVIOUS
<1> USE DEF Init
<1>1. TypeOK
  BY EmptySlots DEF TypeOK, NothingRestored, Nowhere, NoJob, Job, Footprint
<1>2. GpCovered /\ FpCovered /\ StCovered /\ Spilled /\ BitWords
  BY DEF GpCovered, FpCovered, StCovered, Spilled, BitWords
<1>3. JobOK /\ UsedWordsInFrame
  BY DEF JobOK, UsedWordsInFrame, NoJob
<1>4. TempsSurvive /\ NoReuseIsFresh
  BY DEF TempsSurvive, NoReuseIsFresh, NothingRestored, Nowhere, Disjoint
<1>5. QED
  BY <1>1, <1>2, <1>3, <1>4 DEF IndInv

-----------------------------------------------------------------------------
(* What pop_tmpstack returns *)

LEMMA PopKindType ==
  ASSUME NEW sl \in Slot
  PROVE  /\ PopKind(sl) \in SlotKind
         /\ PopKind(sl) = "SL_GP" => sl.kind = "SL_GP" /\ sl.gp_depth < GP_SLOTS
         /\ PopKind(sl) = "SL_FP" => sl.kind = "SL_FP" /\ sl.fp_depth < FP_SLOTS
         /\ PopKind(sl) = "SL_ST" => \/ sl.kind = "SL_ST"
                                     \/ sl.kind = "SL_GP" /\ sl.gp_depth >= GP_SLOTS
                                     \/ sl.kind = "SL_FP" /\ sl.fp_depth >= FP_SLOTS
  BY ConstantsAssumption DEF PopKind, Slot, SlotKind

LEMMA BottomType ==
  ASSUME TypeOK, NEW sl \in Slot
  PROVE  /\ Words(sl.use) \in {1, 2}
         /\ Bottom(sl) \in Nat
         /\ Bottom(sl) >= Words(sl.use)
  BY DEF TypeOK, Bottom, Words, Slot

LEMMA PlaceType ==
  ASSUME TypeOK, NEW sl \in Slot
  PROVE  PlaceOf(sl) \in Footprint
  BY BottomType, PopKindType DEF PlaceOf, Footprint, Slot

LEMMA AbsorbType ==
  ASSUME TypeOK, NEW sl \in Slot, NEW p \in Slot
  PROVE  /\ Absorb(p, sl) \in Slot
         /\ Absorb(p, sl).kind = p.kind
         /\ Absorb(p, sl).use = p.use
         /\ Absorb(p, sl).word = p.word
         /\ Absorb(p, sl).gp_depth >= p.gp_depth
         /\ Absorb(p, sl).fp_depth >= p.fp_depth
         /\ Absorb(p, sl).st_depth >= p.st_depth
         /\ Absorb(p, sl).gp_depth >= sl.gp_depth
         /\ Absorb(p, sl).fp_depth >= sl.fp_depth
         /\ Absorb(p, sl).st_depth >= sl.st_depth
         /\ PopKind(sl) = "SL_GP" => Absorb(p, sl).gp_depth > sl.gp_depth
         /\ PopKind(sl) = "SL_FP" => Absorb(p, sl).fp_depth > sl.fp_depth
         /\ PopKind(sl) = "SL_ST" => Absorb(p, sl).st_depth >= sl.st_depth + Words(sl.use)
         /\ PopKind(sl) = "SL_ST" /\ p.st_depth = 0 =>
              Absorb(p, sl).st_depth = sl.st_depth + Words(sl.use)
<1>1. /\ sl.gp_depth \in Nat /\ sl.fp_depth \in Nat /\ sl.st_depth \in Nat
      /\ p.gp_depth \in Nat /\ p.fp_depth \in Nat /\ p.st_depth \in Nat
  BY DEF Slot
<1>2. Words(sl.use) \in Nat
  BY BottomType
<1> DEFINE g == sl.gp_depth + (IF PopKind(sl) = "SL_GP" THEN 1 ELSE 0)
           f == sl.fp_depth + (IF PopKind(sl) = "SL_FP" THEN 1 ELSE 0)
           t == sl.st_depth + (IF PopKind(sl) = "SL_ST" THEN Words(sl.use) ELSE 0)
<1>3. /\ g \in Nat /\ g >= sl.gp_depth /\ f \in Nat /\ f >= sl.fp_depth
      /\ t \in Nat /\ t >= sl.st_depth
  BY <1>1, <1>2
<1>4. /\ PopKind(sl) = "SL_GP" => g > sl.gp_depth
      /\ PopKind(sl) = "SL_FP" => f > sl.fp_depth
      /\ PopKind(sl) = "SL_ST" => t = sl.st_depth + Words(sl.use)
  BY <1>1, <1>2
<1>5. Absorb(p, sl) = [p EXCEPT !.gp_depth = Larger(@, g), !.fp_depth = Larger(@, f),
                                !.st_depth = Larger(@, t)]
  BY DEF Absorb
<1> HIDE DEF g, f, t
<1>6. \A a, b \in Nat : /\ Larger(a, b) \in Nat /\ Larger(a, b) >= a
                       /\ Larger(a, b) >= b /\ (a = 0 => Larger(a, b) = b)
  BY DEF Larger
<1> DEFINE G == Larger(p.gp_depth, g)
           F == Larger(p.fp_depth, f)
           T == Larger(p.st_depth, t)
<1>7. /\ G \in Nat /\ G >= p.gp_depth /\ G >= g
      /\ F \in Nat /\ F >= p.fp_depth /\ F >= f
      /\ T \in Nat /\ T >= p.st_depth /\ T >= t /\ (p.st_depth = 0 => T = t)
  BY <1>1, <1>3, <1>6
<1>8. Absorb(p, sl) = [p EXCEPT !.gp_depth = G, !.fp_depth = F, !.st_depth = T]
  BY <1>5
<1> HIDE DEF G, F, T
<1>9. /\ Absorb(p, sl) \in Slot
      /\ Absorb(p, sl).kind = p.kind /\ Absorb(p, sl).use = p.use
      /\ Absorb(p, sl).word = p.word
      /\ Absorb(p, sl).gp_depth = G
      /\ Absorb(p, sl).fp_depth = F
      /\ Absorb(p, sl).st_depth = T
  BY <1>7, <1>8 DEF Slot
<1>10. QED
  BY <1>1, <1>2, <1>3, <1>4, <1>7, <1>9

LEMMA PoppedType ==
  ASSUME TypeOK, depth > 0, NEW sl \in Slot
  PROVE  /\ Popped(sl) \in [1 .. depth - 1 -> Slot]
         /\ \A i \in 1 .. depth - 1 :
              /\ Popped(sl)[i].kind = data[i].kind
              /\ Popped(sl)[i].use = data[i].use
              /\ Popped(sl)[i].word = data[i].word
              /\ Popped(sl)[i].gp_depth >= data[i].gp_depth
              /\ Popped(sl)[i].fp_depth >= data[i].fp_depth
              /\ Popped(sl)[i].st_depth >= data[i].st_depth
              /\ i # depth - 1 => Popped(sl)[i] = data[i]
              /\ i = depth - 1 => Popped(sl)[i] = Absorb(data[i], sl)
<1>1. \A i \in 1 .. depth - 1 : data[i] \in Slot
  BY DEF TypeOK
<1>2. \A i \in 1 .. depth - 1 : Popped(sl)[i] = IF i = depth - 1 THEN Absorb(data[i], sl) ELSE data[i]
  BY DEF Popped
<1>3. \A i \in 1 .. depth - 1 : /\ data[i].gp_depth \in Nat
                                /\ data[i].fp_depth \in Nat
                                /\ data[i].st_depth \in Nat
  BY <1>1 DEF Slot
<1>4. QED
  BY <1>1, <1>2, <1>3, AbsorbType DEF Popped, TypeOK

-----------------------------------------------------------------------------
(* One pop *)

\* The slot being popped: the top one, to which clobber_gp may have added.
IsTop(sl) ==
  /\ sl \in Slot
  /\ sl.kind = Top.kind /\ sl.use = Top.use /\ sl.word = Top.word
  /\ sl.fp_depth = Top.fp_depth /\ sl.st_depth = Top.st_depth
  /\ sl.gp_depth >= Top.gp_depth

LEMMA TopType ==
  ASSUME TypeOK, depth > 0
  PROVE  Top \in Slot /\ IsTop(Top) /\ dirty[depth] \in Footprint
  BY DEF TypeOK, Top, IsTop, Slot

\* The place chosen for a popped temporary was not written since its push.
LEMMA PopSurvives ==
  ASSUME IndInv, depth > 0, NEW sl, IsTop(sl),
         NEW before \in Footprint, before.fp = {}, before.st = {},
         \A r \in before.gp : r < sl.gp_depth,
         PopTmpStack(sl, before), reuse' = reuse
  PROVE  TempsSurvive' /\ NoReuseIsFresh'
<1> DEFINE P == PlaceOf(sl)
           D == dirty[depth]
<1>1. /\ TypeOK /\ sl \in Slot /\ Top \in Slot /\ D \in Footprint
      /\ P \in Footprint /\ depth \in Nat
  BY TopType, PlaceType DEF IndInv, IsTop, TypeOK
<1>2. P.gp \cap (D.gp \cup before.gp) = {}
  <2>1. CASE PopKind(sl) # "SL_GP"
    BY <2>1 DEF PlaceOf
  <2>2. CASE PopKind(sl) = "SL_GP"
    <3>1. data[depth].kind = "SL_GP" /\ Top = data[depth]
      BY <2>2, <1>1, PopKindType DEF IsTop, Top
    <3>2. \A r \in D.gp : r < data[depth].gp_depth
      BY <3>1, <1>1 DEF IndInv, GpCovered
    <3>3. data[depth].gp_depth <= sl.gp_depth
      BY <3>1 DEF IsTop
    <3>4. P.gp = {sl.gp_depth}
      BY <2>2 DEF PlaceOf
    <3>5. /\ sl.gp_depth \in Nat /\ data[depth].gp_depth \in Nat
          /\ D.gp \subseteq Nat /\ before.gp \subseteq Nat
      BY <1>1, <3>1 DEF Slot, Footprint
    <3>6. QED
      BY <3>2, <3>3, <3>4, <3>5
  <2>3. QED
    BY <2>1, <2>2
<1>3. P.fp \cap D.fp = {}
  <2>1. CASE PopKind(sl) # "SL_FP"
    BY <2>1 DEF PlaceOf
  <2>2. CASE PopKind(sl) = "SL_FP"
    <3>1. data[depth].kind = "SL_FP" /\ Top = data[depth]
      BY <2>2, <1>1, PopKindType DEF IsTop, Top
    <3>2. \A r \in D.fp : r < data[depth].fp_depth
      BY <3>1, <1>1 DEF IndInv, FpCovered
    <3>4. P.fp = {sl.fp_depth} /\ sl.fp_depth = data[depth].fp_depth
      BY <2>2, <3>1 DEF PlaceOf, IsTop
    <3>5. sl.fp_depth \in Nat /\ D.fp \subseteq Nat
      BY <1>1 DEF Slot, Footprint
    <3>6. QED
      BY <3>2, <3>4, <3>5
  <2>3. QED
    BY <2>1, <2>2
<1>4. P.st \cap D.st = {} /\ (~reuse => P.st \cap used_words = {})
  <2>1. CASE PopKind(sl) # "SL_ST"
    BY <2>1 DEF PlaceOf
  <2>2. CASE PopKind(sl) = "SL_ST"
    <3>1. /\ P.st = Bottom(sl) - Words(sl.use) + 1 .. Bottom(sl)
          /\ Words(sl.use) \in {1, 2} /\ Bottom(sl) \in Nat
      BY <2>2, <1>1, BottomType DEF PlaceOf
    <3>2. /\ sl.st_depth \in Nat /\ lvar_stk_sz \in Nat /\ peak_stk_usage \in Nat
          /\ D.st \subseteq Nat /\ used_words \subseteq Nat
      BY <1>1 DEF Slot, Footprint, TypeOK
    <3>3. CASE reuse
      <4>1. Bottom(sl) = lvar_stk_sz + sl.st_depth + Words(sl.use)
        BY <3>3 DEF Bottom
      <4>2. \A w \in D.st : w <= lvar_stk_sz + sl.st_depth
        BY <3>3, <1>1 DEF IndInv, StCovered, IsTop, Top
      <4>3. QED
        BY <3>1, <3>2, <3>3, <4>1, <4>2
    <3>4. CASE ~reuse
      <4>1. Bottom(sl) = peak_stk_usage + Words(sl.use)
        BY <3>4 DEF Bottom
      <4>2. \A w \in used_words : w <= peak_stk_usage
        BY DEF IndInv, UsedWordsInFrame
      <4>3. D.st \subseteq used_words
        BY <1>1 DEF IndInv, StCovered
      <4>4. QED
        BY <3>1, <3>2, <3>4, <4>1, <4>2, <4>3
    <3>5. QED
      BY <3>3, <3>4
  <2>3. QED
    BY <2>1, <2>2
<1>5. /\ restored'.place = P
      /\ restored'.dirty = Join(D, before)
      /\ restored'.fresh = (P.st \cap used_words = {})
  BY DEF PopTmpStack
<1> HIDE DEF P, D
<1>6. TempsSurvive'
  BY <1>2, <1>3, <1>4, <1>5 DEF TempsSurvive, Disjoint, Join
<1>7. NoReuseIsFresh'
  BY <1>4, <1>5 DEF NoReuseIsFresh
<1>8. QED
  BY <1>6, <1>7

\* The stack words written so far stay bounded by the depths that are left.
LEMMA PopCoversSt ==
  ASSUME IndInv, depth > 0, NEW sl, IsTop(sl), NEW before \in Footprint,
         PopTmpStack(sl, before), UNCHANGED <<reuse, lvar_stk_sz>>,
         \A i \in 1 .. depth - 1 :
           /\ data'[i].st_depth = Popped(sl)[i].st_depth
           /\ dirty'[i].st = dirty[i].st \cup PlaceOf(sl).st
  PROVE  StCovered'
<1> DEFINE P == PlaceOf(sl)
<1>1. /\ TypeOK /\ sl \in Slot /\ Top \in Slot /\ P \in Footprint
      /\ depth \in Nat /\ depth' = depth - 1
  BY TopType, PlaceType DEF IndInv, IsTop, TypeOK, PopTmpStack
<1>2. \A i \in 1 .. depth - 1 : /\ data'[i].st_depth >= data[i].st_depth
                                /\ data[i] \in Slot /\ Popped(sl)[i] \in Slot
                                /\ dirty[i] \in Footprint
  BY <1>1, PoppedType DEF TypeOK
<1>3. \A i \in 1 .. depth - 1 : /\ data[i].st_depth \in Nat /\ data'[i].st_depth \in Nat
                                /\ dirty[i].st \subseteq Nat
  <2> SUFFICES ASSUME NEW i \in 1 .. depth - 1 PROVE <1>3!(i)
    OBVIOUS
  <2>1. data[i] \in Slot /\ Popped(sl)[i] \in Slot /\ dirty[i] \in Footprint
    BY <1>2
  <2>2. QED
    BY <2>1 DEF Slot, Footprint
<1>4. sl.st_depth \in Nat /\ sl.st_depth = data[depth].st_depth
  BY <1>1 DEF Slot, IsTop, Top
<1>5. depth > 1 =>
        /\ data'[depth - 1].st_depth >= sl.st_depth
        /\ PopKind(sl) = "SL_ST" =>
             data'[depth - 1].st_depth >= sl.st_depth + Words(sl.use)
  <2> SUFFICES ASSUME depth > 1 PROVE <1>5!2
    OBVIOUS
  <2>1. /\ data[depth - 1] \in Slot
        /\ data'[depth - 1].st_depth = Absorb(data[depth - 1], sl).st_depth
    BY <1>1, <1>2, PoppedType
  <2>2. QED
    BY <1>1, <2>1, AbsorbType
<1>6. \A i \in 1 .. depth - 1 : dirty'[i].st = dirty[i].st \cup P.st
  OBVIOUS
<1> SUFFICES ASSUME NEW i \in 1 .. depth - 1, NEW w \in dirty'[i].st
             PROVE  /\ w \in used_words'
                    /\ reuse => \E j \in i .. depth - 1 :
                                  w <= lvar_stk_sz + data'[j].st_depth
  BY <1>1 DEF StCovered
<1>10. used_words' = used_words \cup P.st /\ lvar_stk_sz \in Nat
  BY <1>1 DEF PopTmpStack, TypeOK
<1>11. CASE w \in dirty[i].st
  <2>1. w \in used_words
    BY <1>11, <1>1 DEF IndInv, StCovered
  <2>2. ASSUME reuse
        PROVE  \E j \in i .. depth - 1 : w <= lvar_stk_sz + data'[j].st_depth
    <3>1. PICK j \in i .. depth : w <= lvar_stk_sz + data[j].st_depth
      BY <2>2, <1>11, <1>1 DEF IndInv, StCovered
    <3>2. CASE j = depth
      <4>1. w \in Nat /\ depth > 1 /\ data'[depth - 1].st_depth \in Nat
        BY <1>11, <1>1, <1>3
      <4>2. w <= lvar_stk_sz + data'[depth - 1].st_depth
        BY <4>1, <3>1, <3>2, <1>10, <1>4, <1>5
      <4>3. QED
        BY <4>1, <4>2, <1>1
    <3>3. CASE j # depth
      <4>1. w \in Nat /\ j \in 1 .. depth - 1 /\ j \in i .. depth - 1
        BY <1>11, <3>3, <1>1, <1>3
      <4>2. /\ data'[j].st_depth >= data[j].st_depth
            /\ data'[j].st_depth \in Nat /\ data[j].st_depth \in Nat
        BY <4>1, <1>2, <1>3
      <4>3. QED
        BY <4>1, <4>2, <3>1, <1>10
    <3>4. QED
      BY <3>2, <3>3
  <2>3. QED
    BY <1>10, <2>1, <2>2
<1>12. CASE w \in P.st
  <2>1. PopKind(sl) = "SL_ST" /\ w \in Nat /\ w <= Bottom(sl)
    BY <1>12, <1>1, BottomType DEF PlaceOf
  <2>2. reuse => w <= lvar_stk_sz + data'[depth - 1].st_depth
    <3>1. reuse => Bottom(sl) = lvar_stk_sz + sl.st_depth + Words(sl.use)
      BY DEF Bottom
    <3>2. /\ depth - 1 \in 1 .. depth - 1 /\ depth > 1
          /\ data'[depth - 1].st_depth \in Nat
      BY <1>1, <1>3
    <3>3. data'[depth - 1].st_depth >= sl.st_depth + Words(sl.use)
      BY <2>1, <3>2, <1>5
    <3>4. Words(sl.use) \in {1, 2} /\ Bottom(sl) \in Nat
      BY <1>1, BottomType
    <3>5. QED
      BY <2>1, <3>1, <3>2, <3>3, <3>4, <1>10, <1>4
  <2>3. QED
    BY <1>10, <1>12, <2>2, <1>1
<1>13. QED
  BY <1>11, <1>12, <1>6

\* What is left of the stack still bounds what was written; after is written
\* once the value is restored: into registers below those of the enclosing
\* slots, or when these are all on the stack.
LEMMA PopCovers ==
  ASSUME IndInv, depth > 0, NEW sl, IsTop(sl),
         NEW before \in Footprint,
         NEW after \in Footprint, after.fp = {}, after.st = {},
         \/ \A i \in 1 .. depth - 1 : data[i].kind # "SL_GP"
         \/ depth = 1
         \/ \A r \in after.gp : r < Popped(sl)[depth - 1].gp_depth,
         PopTmpStack(sl, before), UNCHANGED <<reuse, lvar_stk_sz>>,
         data' = Popped(sl),
         dirty' = Seen(depth - 1, Join(PlaceOf(sl), after))
  PROVE  /\ data' \in [1 .. depth' -> Slot] /\ dirty' \in [1 .. depth' -> Footprint]
         /\ GpCovered' /\ FpCovered' /\ StCovered' /\ Spilled' /\ BitWords'
<1> DEFINE P == PlaceOf(sl)
<1>1. /\ TypeOK /\ sl \in Slot /\ Top \in Slot /\ P \in Footprint
      /\ depth \in Nat /\ depth' = depth - 1
  BY TopType, PlaceType DEF IndInv, IsTop, TypeOK, PopTmpStack
<1>2. /\ data' \in [1 .. depth - 1 -> Slot]
      /\ \A i \in 1 .. depth - 1 :
           /\ data'[i].kind = data[i].kind
           /\ data'[i].use = data[i].use
           /\ data'[i].word = data[i].word
           /\ data'[i].gp_depth >= data[i].gp_depth
           /\ data'[i].fp_depth >= data[i].fp_depth
           /\ data'[i].st_depth >= data[i].st_depth
           /\ i # depth - 1 => data'[i] = data[i]
           /\ i = depth - 1 => data'[i] = Absorb(data[i], sl)
  BY <1>1, PoppedType
<1>3. /\ dirty' \in [1 .. depth - 1 -> Footprint]
      /\ \A i \in 1 .. depth - 1 :
           /\ dirty'[i].gp = dirty[i].gp \cup P.gp \cup after.gp
           /\ dirty'[i].fp = dirty[i].fp \cup P.fp
           /\ dirty'[i].st = dirty[i].st \cup P.st
  <2>1. \A i \in 1 .. depth - 1 : dirty[i] \in Footprint
    BY <1>1 DEF TypeOK
  <2>2. \A i \in 1 .. depth - 1 : dirty'[i] = Join(dirty[i], Join(P, after))
    BY DEF Seen
  <2>3. QED
    BY <1>1, <2>1, <2>2 DEF Seen, Join, Footprint
<1>4. \A i \in 1 .. depth : data[i] \in Slot /\ dirty[i] \in Footprint
  BY <1>1 DEF TypeOK
<1>5. \A i \in 1 .. depth - 1 :
        /\ data[i].gp_depth \in Nat /\ data[i].fp_depth \in Nat /\ data[i].st_depth \in Nat
        /\ data'[i].gp_depth \in Nat /\ data'[i].fp_depth \in Nat /\ data'[i].st_depth \in Nat
        /\ dirty[i].gp \subseteq Nat /\ dirty[i].fp \subseteq Nat /\ dirty[i].st \subseteq Nat
  <2> SUFFICES ASSUME NEW i \in 1 .. depth - 1 PROVE <1>5!(i)
    OBVIOUS
  <2>1. data[i] \in Slot /\ data'[i] \in Slot /\ dirty[i] \in Footprint
    BY <1>1, <1>2, <1>4
  <2>2. QED
    BY <2>1 DEF Slot, Footprint
<1>6. /\ sl.gp_depth \in Nat /\ sl.fp_depth \in Nat /\ sl.st_depth \in Nat
      /\ sl.gp_depth >= data[depth].gp_depth
      /\ sl.fp_depth = data[depth].fp_depth
      /\ sl.st_depth = data[depth].st_depth
      /\ data[depth].gp_depth \in Nat
  BY <1>1 DEF Slot, IsTop, Top
<1>7. depth > 1 =>
        /\ data'[depth - 1].gp_depth >= sl.gp_depth
        /\ data'[depth - 1].fp_depth >= sl.fp_depth
        /\ data'[depth - 1].st_depth >= sl.st_depth
        /\ PopKind(sl) = "SL_GP" => data'[depth - 1].gp_depth > sl.gp_depth
        /\ PopKind(sl) = "SL_FP" => data'[depth - 1].fp_depth > sl.fp_depth
        /\ PopKind(sl) = "SL_ST" =>
             data'[depth - 1].st_depth >= sl.st_depth + Words(sl.use)
        /\ PopKind(sl) = "SL_ST" /\ data[depth - 1].st_depth = 0 =>
             data'[depth - 1].st_depth = sl.st_depth + Words(sl.use)
  <2> SUFFICES ASSUME depth > 1 PROVE  <1>7!2
    OBVIOUS
  <2>1. data[depth - 1] \in Slot /\ data'[depth - 1] = Absorb(data[depth - 1], sl)
    BY <1>1, <1>2, <1>4
  <2>2. QED
    BY <1>1, <2>1, AbsorbType
<1>8. GpCovered'
  <2> SUFFICES ASSUME NEW i \in 1 .. depth - 1, data'[i].kind = "SL_GP",
                      NEW r \in dirty'[i].gp
               PROVE  \E j \in i .. depth - 1 : r < data'[j].gp_depth
    BY <1>1 DEF GpCovered
  <2>1. CASE r \in dirty[i].gp
    <3>1. PICK j \in i .. depth : r < data[j].gp_depth
      BY <2>1, <1>1, <1>2 DEF IndInv, GpCovered
    <3>2. CASE j = depth
      <4>1. r \in Nat /\ depth > 1 /\ data'[depth - 1].gp_depth \in Nat
        BY <2>1, <1>1, <1>5
      <4>2. r < data'[depth - 1].gp_depth
        BY <4>1, <3>1, <3>2, <1>6, <1>7
      <4>3. QED
        BY <4>1, <4>2, <1>1
    <3>3. CASE j # depth
      <4>1. r \in Nat /\ j \in 1 .. depth - 1 /\ j \in i .. depth - 1
        BY <2>1, <3>3, <1>1, <1>5
      <4>2. /\ data'[j].gp_depth >= data[j].gp_depth
            /\ data'[j].gp_depth \in Nat /\ data[j].gp_depth \in Nat
        BY <4>1, <1>2, <1>5
      <4>3. QED
        BY <4>1, <4>2, <3>1
    <3>4. QED
      BY <3>2, <3>3
  <2>2. CASE r \in P.gp
    <3>1. PopKind(sl) = "SL_GP" /\ r = sl.gp_depth
      BY <2>2 DEF PlaceOf
    <3>2. QED
      BY <3>1, <1>1, <1>5, <1>6, <1>7
  <2>3. CASE r \in after.gp
    <3>1. data[i].kind = "SL_GP" /\ i \in 1 .. depth - 1 /\ depth > 1
      BY <1>1, <1>2
    <3>2. r < data'[depth - 1].gp_depth
      BY <2>3, <3>1, <1>1
    <3>3. QED
      BY <3>2, <1>1
  <2>4. QED
    BY <2>1, <2>2, <2>3, <1>3
<1>9. FpCovered'
  <2> SUFFICES ASSUME NEW i \in 1 .. depth - 1, data'[i].kind = "SL_FP",
                      NEW r \in dirty'[i].fp
               PROVE  \E j \in i .. depth - 1 : r < data'[j].fp_depth
    BY <1>1 DEF FpCovered
  <2>1. CASE r \in dirty[i].fp
    <3>1. PICK j \in i .. depth : r < data[j].fp_depth
      BY <2>1, <1>1, <1>2 DEF IndInv, FpCovered
    <3>2. CASE j = depth
      <4>1. r \in Nat /\ depth > 1 /\ data'[depth - 1].fp_depth \in Nat
        BY <2>1, <1>1, <1>5
      <4>2. r < data'[depth - 1].fp_depth
        BY <4>1, <3>1, <3>2, <1>6, <1>7
      <4>3. QED
        BY <4>1, <4>2, <1>1
    <3>3. CASE j # depth
      <4>1. r \in Nat /\ j \in 1 .. depth - 1 /\ j \in i .. depth - 1
        BY <2>1, <3>3, <1>1, <1>5
      <4>2. /\ data'[j].fp_depth >= data[j].fp_depth
            /\ data'[j].fp_depth \in Nat /\ data[j].fp_depth \in Nat
        BY <4>1, <1>2, <1>5
      <4>3. QED
        BY <4>1, <4>2, <3>1
    <3>4. QED
      BY <3>2, <3>3
  <2>2. CASE r \in P.fp
    <3>1. PopKind(sl) = "SL_FP" /\ r = sl.fp_depth
      BY <2>2 DEF PlaceOf
    <3>2. QED
      BY <3>1, <1>1, <1>5, <1>6, <1>7
  <2>3. QED
    BY <2>1, <2>2, <1>3
<1>10. StCovered'
  BY <1>1, <1>2, <1>3, PoppedType, PopCoversSt
<1>11. Spilled'
  BY <1>1, <1>2 DEF IndInv, Spilled
<1>12. BitWords'
  <2> SUFFICES ASSUME NEW i \in 1 .. depth - 1, data'[i].use = "bitint"
               PROVE  /\ data'[i].kind = "SL_ST" /\ data'[i].word >= 1
                      /\ data'[i].word > 1 =>
                           /\ i > 1
                           /\ data'[i - 1].use = "bitint"
                           /\ data'[i - 1].word = data'[i].word - 1
                           /\ data'[i - 1].st_depth = 0
    BY <1>1 DEF BitWords
  <2>1. data[i].use = "bitint" /\ data'[i].kind = data[i].kind /\ data'[i].word = data[i].word
    BY <1>1, <1>2
  <2>2. data'[i].kind = "SL_ST" /\ data'[i].word >= 1
    BY <2>1, <1>1 DEF IndInv, BitWords
  <2>3. ASSUME data'[i].word > 1
        PROVE  i > 1 /\ data'[i - 1] = data[i - 1] /\ data[i - 1].use = "bitint"
               /\ data[i - 1].word = data[i].word - 1 /\ data[i - 1].st_depth = 0
    BY <2>1, <2>3, <1>1, <1>2 DEF IndInv, BitWords
  <2>4. QED
    BY <2>1, <2>2, <2>3
<1>13. QED
  BY <1>1, <1>2, <1>3, <1>8, <1>9, <1>10, <1>11, <1>12

\* A pop keeps the frame large enough, and the other variables well formed.
LEMMA PopFrame ==
  ASSUME IndInv, in_fn, depth > 0, NEW sl, IsTop(sl), NEW before \in Footprint,
         PopTmpStack(sl, before),
         UNCHANGED <<in_fn, reuse, lvar_stk_sz, tmpbuf_sz, frame>>,
         job' \in Job,
         data' \in [1 .. depth' -> Slot], dirty' \in [1 .. depth' -> Footprint]
  PROVE  UsedWordsInFrame' /\ TypeOK'
<1> DEFINE P == PlaceOf(sl)
<1>1. /\ TypeOK /\ sl \in Slot /\ P \in Footprint /\ dirty[depth] \in Footprint
      /\ depth' \in Nat
  BY TopType, PlaceType DEF IndInv, IsTop, TypeOK, PopTmpStack
<1>2. /\ lvar_stk_sz \in Nat /\ peak_stk_usage \in Nat /\ used_words \subseteq Nat
      /\ lvar_stk_sz <= peak_stk_usage
      /\ \A w \in used_words : w > lvar_stk_sz /\ w <= peak_stk_usage
  BY <1>1 DEF TypeOK, IndInv, UsedWordsInFrame
<1>3. /\ peak_stk_usage' \in Nat /\ peak_stk_usage' >= peak_stk_usage
      /\ PopKind(sl) = "SL_ST" => peak_stk_usage' >= Bottom(sl)
  BY <1>1, <1>2, BottomType DEF PopTmpStack, Larger
<1>4. \A w \in P.st : w > lvar_stk_sz /\ w <= peak_stk_usage'
  <2> SUFFICES ASSUME NEW w \in P.st PROVE w > lvar_stk_sz /\ w <= peak_stk_usage'
    OBVIOUS
  <2>1. /\ PopKind(sl) = "SL_ST" /\ w \in Nat /\ w <= Bottom(sl)
        /\ w >= Bottom(sl) - Words(sl.use) + 1
        /\ Bottom(sl) \in Nat /\ Words(sl.use) \in {1, 2}
    <3>1. Bottom(sl) \in Nat /\ Words(sl.use) \in {1, 2}
      BY <1>1, BottomType
    <3>2. PopKind(sl) = "SL_ST" /\ w \in Bottom(sl) - Words(sl.use) + 1 .. Bottom(sl)
      BY DEF PlaceOf
    <3>3. w \in Nat
      BY <1>1 DEF Footprint
    <3>4. QED
      BY <3>1, <3>2, <3>3
  <2>2. Bottom(sl) - Words(sl.use) >= lvar_stk_sz
    <3>1. sl.st_depth \in Nat
      BY <1>1 DEF Slot
    <3>2. Bottom(sl) = IF reuse THEN lvar_stk_sz + sl.st_depth + Words(sl.use)
                                ELSE peak_stk_usage + Words(sl.use)
      BY DEF Bottom
    <3>3. QED
      BY <1>2, <2>1, <3>1, <3>2
  <2>3. QED
    BY <1>2, <1>3, <2>1, <2>2
<1>5. used_words' = used_words \cup P.st /\ P.st \subseteq Nat
  BY <1>1 DEF PopTmpStack, Footprint
<1>6. UsedWordsInFrame'
  <2>1. \A w \in used_words' : w > lvar_stk_sz /\ w <= peak_stk_usage'
    BY <1>2, <1>3, <1>4, <1>5
  <2>2. QED
    BY <2>1, <1>2, <1>3 DEF UsedWordsInFrame
<1>7. restored' \in [place : Footprint, dirty : Footprint, fresh : BOOLEAN]
  <2>1. Join(dirty[depth], before) \in Footprint
    BY <1>1 DEF Join, Footprint
  <2>2. QED
    BY <1>1, <2>1 DEF PopTmpStack
<1>8. TypeOK'
  BY <1>1, <1>3, <1>5, <1>7 DEF TypeOK
<1>9. QED
  BY <1>6, <1>8

\* When a popped value had to be loaded from the stack, no enclosing
\* temporary can still be given one of the first two scratch registers.
LEMMA FallbackSafe ==
  ASSUME IndInv, depth > 0, Top.use \in {"gp", "callee"}, PopKind(Top) = "SL_ST"
  PROVE  \/ \A i \in 1 .. depth - 1 : data[i].kind # "SL_GP"
         \/ depth = 1
         \/ Popped(Top)[depth - 1].gp_depth > 1
<1>1. TypeOK /\ depth \in Nat /\ Top \in Slot /\ Top = data[depth]
  BY TopType DEF IndInv, TypeOK, Top
<1>2. CASE Top.kind = "SL_ST"
  BY <1>1, <1>2 DEF IndInv, Spilled
<1>3. CASE Top.kind # "SL_ST" /\ depth > 1
  <2>1. Top.kind = "SL_GP" /\ Top.gp_depth >= GP_SLOTS
    BY <1>1, <1>3, PopKindType DEF IndInv, Spilled
  <2>2. /\ data[depth - 1] \in Slot
        /\ Popped(Top)[depth - 1] = Absorb(data[depth - 1], Top)
    BY <1>1, <1>3, PoppedType DEF TypeOK
  <2>3. Absorb(data[depth - 1], Top) \in Slot
        /\ Absorb(data[depth - 1], Top).gp_depth >= Top.gp_depth
    BY <1>1, <2>2, AbsorbType
  <2>4. Top.gp_depth \in Nat /\ Absorb(data[depth - 1], Top).gp_depth \in Nat
    BY <1>1, <2>3 DEF Slot
  <2>5. QED
    BY <2>1, <2>2, <2>3, <2>4, ConstantsAssumption
<1>4. QED
  BY <1>1, <1>2, <1>3

-----------------------------------------------------------------------------
(* Each action keeps IndInv *)

\* A pop whose restored value is used at once and whose fallback is safe.
LEMMA PopKeeps ==
  ASSUME IndInv, in_fn, depth > 0,
         NEW after \in Footprint, after.fp = {}, after.st = {},
         \/ \A i \in 1 .. depth - 1 : data[i].kind # "SL_GP"
         \/ depth = 1
         \/ \A r \in after.gp : r < Popped(Top)[depth - 1].gp_depth,
         PopTmpStack(Top, Nowhere),
         UNCHANGED <<in_fn, reuse, lvar_stk_sz, tmpbuf_sz, frame>>,
         job' \in Job,
         data' = Popped(Top),
         dirty' = Seen(depth - 1, Join(PlaceOf(Top), after)),
         JobOK'
  PROVE  IndInv'
<1>1. TypeOK /\ Top \in Slot /\ IsTop(Top)
  BY TopType DEF IndInv
<1>2. Nowhere \in Footprint /\ Nowhere.gp = {} /\ Nowhere.fp = {} /\ Nowhere.st = {}
  BY DEF Nowhere, Footprint
<1>3. TempsSurvive' /\ NoReuseIsFresh'
  BY <1>1, <1>2, PopSurvives
<1>4. /\ data' \in [1 .. depth' -> Slot] /\ dirty' \in [1 .. depth' -> Footprint]
      /\ GpCovered' /\ FpCovered' /\ StCovered' /\ Spilled' /\ BitWords'
  BY <1>1, <1>2, PopCovers
<1>5. UsedWordsInFrame' /\ TypeOK'
  BY <1>1, <1>2, <1>4, PopFrame
<1>6. QED
  BY <1>3, <1>4, <1>5 DEF IndInv

LEMMA JobIdle ==
  ASSUME in_fn', job' = NoJob
  PROVE  JobOK' /\ job' \in Job
  BY DEF JobOK, NoJob, Job

LEMMA PopInd ==
  ASSUME IndInv, NEW use, NEW fallback, fallback \subseteq {0},
         use = "gp" \/ fallback = {},
         Pop(use, fallback)
  PROVE  IndInv'
<1>1. /\ in_fn /\ depth > 0 /\ job = NoJob /\ in_fn' /\ job' = NoJob /\ Top.use = use
      /\ PopTmpStack(Top, Nowhere) /\ data' = Popped(Top)
      /\ UNCHANGED <<in_fn, reuse, lvar_stk_sz, tmpbuf_sz, frame>>
  BY DEF Pop, Idle
<1> DEFINE after == OnlyGp(IF PopKind(Top) = "SL_ST" THEN fallback ELSE {})
<1>2. after \in Footprint /\ after.fp = {} /\ after.st = {}
  BY DEF OnlyGp, Footprint
<1>3. dirty' = Seen(depth - 1, Join(PlaceOf(Top), after))
  BY DEF Pop
<1>4. \/ \A i \in 1 .. depth - 1 : data[i].kind # "SL_GP"
      \/ depth = 1
      \/ \A r \in after.gp : r < Popped(Top)[depth - 1].gp_depth
  <2>1. CASE after.gp = {}
    BY <2>1
  <2>2. CASE after.gp # {}
    <3>1. PopKind(Top) = "SL_ST" /\ Top.use = "gp" /\ after.gp \subseteq {0}
      BY <1>1, <2>2 DEF OnlyGp
    <3>2. depth # 1 => Popped(Top)[depth - 1] \in Slot
      BY <1>1, TopType, PoppedType DEF IndInv, TypeOK
    <3>3. QED
      BY <3>1, <3>2, <1>1, FallbackSafe DEF Slot
  <2>3. QED
    BY <2>1, <2>2
<1> HIDE DEF after
<1>5. QED
  BY <1>1, <1>2, <1>3, <1>4, JobIdle, PopKeeps

LEMMA PopBitintInd ==
  ASSUME IndInv, PopBitintWord
  PROVE  IndInv'
<1>1. /\ in_fn /\ depth > 0 /\ Top.use = "bitint"
      /\ PopTmpStack(Top, Nowhere) /\ data' = Popped(Top)
      /\ UNCHANGED <<in_fn, reuse, lvar_stk_sz, tmpbuf_sz, frame>>
  BY DEF PopBitintWord
<1>2. TypeOK /\ Top \in Slot /\ depth \in Nat /\ Top = data[depth] /\ depth' = depth - 1
  BY <1>1, TopType DEF IndInv, TypeOK, Top, PopTmpStack
<1>3. Nowhere \in Footprint /\ Nowhere.gp = {} /\ Nowhere.fp = {} /\ Nowhere.st = {}
  BY DEF Nowhere, Footprint
<1>4. dirty' = Seen(depth - 1, Join(PlaceOf(Top), Nowhere))
  <2>1. PlaceOf(Top) \in Footprint
    BY <1>2, PlaceType
  <2>2. Join(PlaceOf(Top), Nowhere) = PlaceOf(Top)
    BY <2>1, <1>3 DEF Join, Footprint
  <2>3. QED
    BY <2>2 DEF PopBitintWord
<1>5. Words(Top.use) = 1 /\ PopKind(Top) = "SL_ST" /\ Bottom(Top) \in Nat
  BY <1>1, <1>2, BottomType DEF Words, PopKind, IndInv, BitWords
<1>6. JobOK' /\ job' \in Job
  <2>1. CASE Top.word = 1
    BY <2>1, <1>1, JobIdle DEF PopBitintWord
  <2>2. CASE Top.word # 1
    <3>1. job' = [op |-> "bitint", last |-> Bottom(Top), held |-> 0]
      BY <2>2 DEF PopBitintWord
    <3>2. /\ depth > 1 /\ data[depth - 1].use = "bitint" /\ data[depth - 1].st_depth = 0
      BY <2>2, <1>1, <1>2 DEF IndInv, BitWords, Slot
    <3>3. /\ data[depth - 1] \in Slot
          /\ data'[depth - 1] = Absorb(data[depth - 1], Top)
          /\ data'[depth - 1].use = "bitint"
      BY <3>2, <1>1, <1>2, PoppedType DEF TypeOK
    <3>4. data'[depth - 1].st_depth = Top.st_depth + 1
      BY <3>2, <3>3, <1>2, <1>5, AbsorbType
    <3>5. Top' = data'[depth - 1]
      BY <1>2 DEF Top
    <3>6. Words(Top'.use) = 1
      BY <3>3, <3>5 DEF Words
    <3>7. /\ lvar_stk_sz \in Nat /\ peak_stk_usage \in Nat /\ Top.st_depth \in Nat
      BY <1>2 DEF TypeOK, Slot
    <3>8. /\ Bottom(Top) = IF reuse THEN lvar_stk_sz + Top.st_depth + 1
                                     ELSE peak_stk_usage + 1
          /\ Bottom(Top)' = IF reuse THEN lvar_stk_sz + Top'.st_depth + 1
                                      ELSE peak_stk_usage' + 1
      BY <1>1, <1>5, <3>6 DEF Bottom
    <3>9. ~reuse => peak_stk_usage' = peak_stk_usage + 1
      BY <1>1, <1>5, <3>7, <3>8 DEF PopTmpStack, Larger
    <3>10. Bottom(Top)' = Bottom(Top) + 1
      BY <3>4, <3>5, <3>7, <3>8, <3>9
    <3>11. QED
      BY <1>1, <1>2, <1>5, <3>1, <3>2, <3>3, <3>5, <3>10 DEF JobOK, Job
  <2>3. QED
    BY <2>1, <2>2
<1>7. QED
  BY <1>1, <1>3, <1>4, <1>6, PopKeeps

\* Both pops of a compare and swap.
LEMMA PopCasInd ==
  ASSUME IndInv, in_fn, depth > 0, NEW fallback \in {0, 1}, PopCas(fallback),
         job' \in Job, JobOK'
  PROVE  IndInv'
<1>1. /\ Top.use = "gp"
      /\ PopTmpStack(Top, Nowhere) /\ data' = Popped(Top)
      /\ UNCHANGED <<in_fn, reuse, lvar_stk_sz, tmpbuf_sz, frame>>
  BY DEF PopCas
<1>2. TypeOK /\ Top \in Slot /\ depth \in Nat /\ Top.gp_depth \in Nat
  BY TopType DEF IndInv, TypeOK, Slot
<1> DEFINE after == OnlyGp({PopReg(Top, fallback)})
<1>3. after \in Footprint /\ after.fp = {} /\ after.st = {}
      /\ after.gp = {PopReg(Top, fallback)}
  BY <1>2 DEF OnlyGp, Footprint, PopReg
<1>4. dirty' = Seen(depth - 1, Join(PlaceOf(Top), after))
  BY DEF PopCas
<1>5. \/ \A i \in 1 .. depth - 1 : data[i].kind # "SL_GP"
      \/ depth = 1
      \/ \A r \in after.gp : r < Popped(Top)[depth - 1].gp_depth
  <2>1. depth # 1 => /\ data[depth - 1] \in Slot
                     /\ Popped(Top)[depth - 1] = Absorb(data[depth - 1], Top)
                     /\ Absorb(data[depth - 1], Top).gp_depth \in Nat
    <3> SUFFICES ASSUME depth # 1 PROVE <2>1!2
      OBVIOUS
    <3>1. data[depth - 1] \in Slot /\ Popped(Top)[depth - 1] = Absorb(data[depth - 1], Top)
      BY <1>2, PoppedType DEF TypeOK
    <3>2. Absorb(data[depth - 1], Top) \in Slot
      BY <3>1, <1>2, AbsorbType
    <3>3. QED
      BY <3>1, <3>2 DEF Slot
  <2>2. CASE PopKind(Top) = "SL_GP"
    <3>1. PopReg(Top, fallback) = Top.gp_depth
      BY <2>2 DEF PopReg
    <3>2. depth # 1 => Absorb(data[depth - 1], Top).gp_depth > Top.gp_depth
      BY <2>1, <2>2, <1>2, AbsorbType
    <3>3. QED
      BY <1>3, <2>1, <3>1, <3>2
  <2>3. CASE PopKind(Top) # "SL_GP"
    <3>1. PopReg(Top, fallback) = fallback
      BY <2>3 DEF PopReg
    <3>2. PopKind(Top) = "SL_ST"
      BY <2>3, <1>1, <1>2, PopKindType, TopType DEF IndInv, Spilled, SlotKind, Top, TypeOK
    <3>3. \/ \A i \in 1 .. depth - 1 : data[i].kind # "SL_GP"
          \/ depth = 1
          \/ Popped(Top)[depth - 1].gp_depth > 1
      BY <1>1, <3>2, FallbackSafe
    <3>4. depth # 1 /\ Popped(Top)[depth - 1].gp_depth > 1 =>
            fallback < Popped(Top)[depth - 1].gp_depth
      BY <2>1
    <3>5. QED
      BY <1>3, <3>1, <3>3, <3>4
  <2>4. QED
    BY <2>2, <2>3
<1> HIDE DEF after
<1>6. QED
  BY <1>1, <1>3, <1>4, <1>5, PopKeeps

LEMMA PopCasOldInd ==
  ASSUME IndInv, PopCasOld
  PROVE  IndInv'
<1>1. /\ in_fn /\ depth > 1 /\ data[depth - 1].use = "gp" /\ PopCas(0)
      /\ job' = [op |-> "cas", last |-> 0, held |-> PopReg(Top, 0)]
  BY DEF PopCasOld, Idle
<1>2. TypeOK /\ depth \in Nat /\ Top \in Slot
  BY <1>1, TopType DEF IndInv, TypeOK
<1>3. job' \in Job
  BY <1>1, <1>2 DEF PopReg, Slot, Job
<1>4. /\ in_fn' /\ depth' = depth - 1 /\ Top' = data'[depth - 1]
      /\ data'[depth - 1].use = "gp"
  BY <1>1, <1>2, PoppedType DEF PopCas, PopTmpStack, Top
<1>5. JobOK'
  BY <1>1, <1>2, <1>4 DEF JobOK
<1>6. QED
  BY <1>1, <1>2, <1>3, <1>5, PopCasInd

LEMMA PopCasAddrInd ==
  ASSUME IndInv, PopCasAddr
  PROVE  IndInv'
<1>1. in_fn /\ depth > 0 /\ PopCas(1) /\ job' = NoJob
  BY DEF PopCasAddr, IndInv, JobOK, NoJob
<1>2. JobOK' /\ job' \in Job
  BY <1>1, JobIdle DEF PopCas
<1>3. QED
  BY <1>1, <1>2, PopCasInd

LEMMA CallIndirectInd ==
  ASSUME IndInv, NEW gp_count \in 0 .. 6, CallIndirect(gp_count)
  PROVE  IndInv'
<1> DEFINE sl == ClobberGp(gp_count, Top)
           args == OnlyGp(ArgRegs(gp_count))
<1>1. /\ in_fn /\ depth > 0 /\ job = NoJob /\ Top.use = "callee"
      /\ PopTmpStack(sl, args) /\ data' = ClobberAllRegs(Popped(sl))
      /\ dirty' = Seen(depth - 1, Join(Join(args, PlaceOf(sl)), AllRegs))
      /\ UNCHANGED <<in_fn, reuse, lvar_stk_sz, tmpbuf_sz, frame, job>>
  BY DEF CallIndirect, Idle
<1>2. TypeOK /\ Top \in Slot /\ depth \in Nat /\ depth' = depth - 1
  BY <1>1, TopType DEF IndInv, TypeOK, PopTmpStack
<1>3. /\ sl \in Slot /\ IsTop(sl)
      /\ \A r \in ArgRegs(gp_count) : r \in 0 .. 3 /\ r < sl.gp_depth
  <2> DEFINE c == CASE gp_count = 0 -> 0 [] gp_count = 1 -> 1 [] OTHER -> 4
  <2>1. c \in Nat /\ (gp_count >= 1 => c >= 1) /\ (gp_count >= 2 => c = 4)
    OBVIOUS
  <2>2. Top.gp_depth \in Nat
    BY <1>2 DEF Slot
  <2>3. sl = [Top EXCEPT !.gp_depth = Larger(Top.gp_depth, c)]
    BY DEF ClobberGp
  <2> HIDE DEF c
  <2>4. /\ Larger(Top.gp_depth, c) \in Nat /\ Larger(Top.gp_depth, c) >= Top.gp_depth
        /\ Larger(Top.gp_depth, c) >= c
    BY <2>1, <2>2 DEF Larger
  <2>5. sl \in Slot /\ IsTop(sl) /\ sl.gp_depth = Larger(Top.gp_depth, c)
    BY <1>2, <2>2, <2>3, <2>4 DEF Slot, IsTop
  <2>6. \A r \in ArgRegs(gp_count) : r \in 0 .. 3 /\ gp_count >= 1 /\ (r > 0 => gp_count >= 2)
    BY DEF ArgRegs
  <2>7. QED
    BY <2>1, <2>4, <2>5, <2>6
<1> DEFINE P == PlaceOf(sl)
<1>4. /\ args \in Footprint /\ args.fp = {} /\ args.st = {} /\ args.gp = ArgRegs(gp_count)
      /\ P \in Footprint
      /\ AllRegs \in Footprint /\ AllRegs.st = {}
  BY <1>2, <1>3, PlaceType, ConstantsAssumption
     DEF OnlyGp, Footprint, AllRegs, GpRegs, FpRegs
<1> HIDE DEF sl, args
<1>5. TempsSurvive' /\ NoReuseIsFresh'
  BY <1>1, <1>3, <1>4, PopSurvives
<1>6. /\ data' \in [1 .. depth - 1 -> Slot]
      /\ \A i \in 1 .. depth - 1 : /\ data'[i] = [Popped(sl)[i] EXCEPT !.kind = "SL_ST"]
                                   /\ data'[i].kind = "SL_ST"
                                   /\ data'[i].use = data[i].use
                                   /\ data'[i].word = data[i].word
                                   /\ data'[i].st_depth = Popped(sl)[i].st_depth
                                   /\ i # depth - 1 => data'[i].st_depth = data[i].st_depth
  <2>1. /\ Popped(sl) \in [1 .. depth - 1 -> Slot]
        /\ \A i \in 1 .. depth - 1 : /\ Popped(sl)[i].use = data[i].use
                                     /\ Popped(sl)[i].word = data[i].word
                                     /\ i # depth - 1 => Popped(sl)[i] = data[i]
    BY <1>1, <1>2, <1>3, PoppedType
  <2>2. DOMAIN Popped(sl) = 1 .. depth - 1
    BY <2>1
  <2>3. \A i \in 1 .. depth - 1 : data'[i] = [Popped(sl)[i] EXCEPT !.kind = "SL_ST"]
    BY <1>1, <2>2 DEF ClobberAllRegs
  <2>4. \A i \in 1 .. depth - 1 : Popped(sl)[i] \in Slot
    BY <2>1
  <2>5. \A q \in Slot : /\ [q EXCEPT !.kind = "SL_ST"] \in Slot
                        /\ [q EXCEPT !.kind = "SL_ST"].kind = "SL_ST"
                        /\ [q EXCEPT !.kind = "SL_ST"].use = q.use
                        /\ [q EXCEPT !.kind = "SL_ST"].word = q.word
                        /\ [q EXCEPT !.kind = "SL_ST"].st_depth = q.st_depth
    BY DEF Slot, SlotKind
  <2>6. data' = [i \in 1 .. depth - 1 |-> [Popped(sl)[i] EXCEPT !.kind = "SL_ST"]]
    BY <1>1, <2>2 DEF ClobberAllRegs
  <2>7. data' \in [1 .. depth - 1 -> Slot]
    BY <2>4, <2>5, <2>6
  <2>8. \A i \in 1 .. depth - 1 : /\ data'[i].kind = "SL_ST"
                                  /\ data'[i].use = Popped(sl)[i].use
                                  /\ data'[i].word = Popped(sl)[i].word
                                  /\ data'[i].st_depth = Popped(sl)[i].st_depth
    <3> SUFFICES ASSUME NEW i \in 1 .. depth - 1 PROVE <2>8!(i)
      OBVIOUS
    <3> DEFINE q == Popped(sl)[i]
    <3>1. q \in Slot /\ data'[i] = [q EXCEPT !.kind = "SL_ST"]
      BY <2>3, <2>4
    <3> HIDE DEF q
    <3>2. /\ data'[i].kind = "SL_ST" /\ data'[i].use = q.use
          /\ data'[i].word = q.word /\ data'[i].st_depth = q.st_depth
      BY <3>1, <2>5
    <3>3. QED
      BY <3>2 DEF q
  <2>9. \A i \in 1 .. depth - 1 : i # depth - 1 => data'[i].st_depth = data[i].st_depth
    BY <2>1, <2>8
  <2>10. QED
    BY <2>1, <2>3, <2>7, <2>8, <2>9
<1>7. /\ dirty' \in [1 .. depth - 1 -> Footprint]
      /\ \A i \in 1 .. depth - 1 : dirty'[i].st = dirty[i].st \cup P.st
  <2>1. \A i \in 1 .. depth - 1 : dirty[i] \in Footprint
    BY <1>2 DEF TypeOK
  <2>2. /\ Join(Join(args, P), AllRegs) \in Footprint
        /\ Join(Join(args, P), AllRegs).st = P.st
    BY <1>4 DEF Join, Footprint
  <2>3. \A i \in 1 .. depth - 1 : dirty'[i] = Join(dirty[i], Join(Join(args, P), AllRegs))
    BY <1>1 DEF Seen
  <2>4. QED
    BY <1>1, <2>1, <2>2, <2>3 DEF Seen, Join, Footprint
<1>8. StCovered'
  BY <1>1, <1>3, <1>4, <1>6, <1>7, PopCoversSt
<1>9. GpCovered' /\ FpCovered' /\ Spilled'
  BY <1>2, <1>6 DEF GpCovered, FpCovered, Spilled
<1>10. BitWords'
  <2> SUFFICES ASSUME NEW i \in 1 .. depth - 1, data[i].use = "bitint"
               PROVE  /\ data'[i].word >= 1
                      /\ data'[i].word > 1 =>
                           /\ i > 1
                           /\ data'[i - 1].use = "bitint"
                           /\ data'[i - 1].word = data'[i].word - 1
                           /\ data'[i - 1].st_depth = 0
    <3>1. \A i \in 1 .. depth - 1 : data'[i].use = data[i].use /\ data'[i].kind = "SL_ST"
      BY <1>6
    <3>2. QED
      BY <1>2, <3>1 DEF BitWords
  <2>1. data[i].word >= 1 /\ data'[i].word = data[i].word
    BY <1>2, <1>6 DEF IndInv, BitWords
  <2>2. ASSUME data[i].word > 1
        PROVE  i > 1 /\ data[i - 1].use = "bitint"
               /\ data[i - 1].word = data[i].word - 1 /\ data[i - 1].st_depth = 0
    BY <2>2, <1>2 DEF IndInv, BitWords
  <2>3. data[i].word > 1 => /\ i - 1 \in 1 .. depth - 1 /\ i - 1 # depth - 1
                            /\ data'[i - 1].use = data[i - 1].use
                            /\ data'[i - 1].word = data[i - 1].word
                            /\ data'[i - 1].st_depth = data[i - 1].st_depth
    BY <2>2, <1>2, <1>6
  <2>4. QED
    BY <2>1, <2>2, <2>3
<1>11. JobOK' /\ job' \in Job
  BY <1>1, JobIdle
<1>12. UsedWordsInFrame' /\ TypeOK'
  BY <1>1, <1>2, <1>3, <1>4, <1>6, <1>7, <1>11, PopFrame
<1>13. QED
  BY <1>5, <1>8, <1>9, <1>10, <1>11, <1>12 DEF IndInv

LEMMA NothingRestoredOK ==
  ASSUME restored' = NothingRestored
  PROVE  /\ TempsSurvive' /\ NoReuseIsFresh'
         /\ restored' \in [place : Footprint, dirty : Footprint, fresh : BOOLEAN]
  BY DEF NothingRestored, Nowhere, Footprint, TempsSurvive, NoReuseIsFresh, Disjoint

LEMMA CallInd ==
  ASSUME IndInv, Call
  PROVE  IndInv'
<1>1. /\ in_fn /\ job = NoJob /\ TypeOK /\ depth \in Nat
      /\ data' = ClobberAllRegs(data) /\ dirty' = Seen(depth, AllRegs)
      /\ restored' = NothingRestored
      /\ UNCHANGED <<in_fn, reuse, lvar_stk_sz, peak_stk_usage, tmpbuf_sz, frame,
                     depth, job, used_words>>
  BY DEF Call, Idle, IndInv, TypeOK
<1>2. /\ data' \in [1 .. depth -> Slot]
      /\ \A i \in 1 .. depth : /\ data'[i].kind = "SL_ST"
                               /\ data'[i].use = data[i].use
                               /\ data'[i].word = data[i].word
                               /\ data'[i].st_depth = data[i].st_depth
  <2>1. data \in [1 .. depth -> Slot] /\ DOMAIN data = 1 .. depth
    BY <1>1 DEF TypeOK
  <2>2. \A q \in Slot : /\ [q EXCEPT !.kind = "SL_ST"] \in Slot
                        /\ [q EXCEPT !.kind = "SL_ST"].kind = "SL_ST"
                        /\ [q EXCEPT !.kind = "SL_ST"].use = q.use
                        /\ [q EXCEPT !.kind = "SL_ST"].word = q.word
                        /\ [q EXCEPT !.kind = "SL_ST"].st_depth = q.st_depth
    BY DEF Slot, SlotKind
  <2>3. data' = [i \in 1 .. depth |-> [data[i] EXCEPT !.kind = "SL_ST"]]
    BY <1>1, <2>1 DEF ClobberAllRegs
  <2>4. QED
    BY <2>1, <2>2, <2>3
<1>3. /\ dirty' \in [1 .. depth -> Footprint]
      /\ \A i \in 1 .. depth : dirty'[i].st = dirty[i].st
  <2>1. \A i \in 1 .. depth : dirty[i] \in Footprint
    BY <1>1 DEF TypeOK
  <2>2. AllRegs \in Footprint /\ AllRegs.st = {}
    BY ConstantsAssumption DEF AllRegs, Footprint, GpRegs, FpRegs
  <2>3. QED
    BY <1>1, <2>1, <2>2 DEF Seen, Join, Footprint
<1>4. GpCovered' /\ FpCovered' /\ Spilled'
  BY <1>1, <1>2 DEF GpCovered, FpCovered, Spilled
<1>5. StCovered'
  BY <1>1, <1>2, <1>3 DEF IndInv, StCovered
<1>6. BitWords'
  BY <1>1, <1>2 DEF IndInv, BitWords
<1>7. JobOK' /\ job' \in Job
  BY <1>1, JobIdle
<1>8. UsedWordsInFrame'
  BY <1>1 DEF IndInv, UsedWordsInFrame
<1>9. TempsSurvive' /\ NoReuseIsFresh'
  BY <1>1, NothingRestoredOK
<1>10. TypeOK'
  BY <1>1, <1>2, <1>3, <1>7, NothingRestoredOK DEF TypeOK
<1>11. QED
  BY <1>4, <1>5, <1>6, <1>7, <1>8, <1>9, <1>10 DEF IndInv

\* Slots are pushed with nothing written and nothing nested.
LEMMA PushInd ==
  ASSUME IndInv, NEW n \in Nat \ {0}, NEW use \in Use,
         n = 1 \/ use = "bitint", PushSlots(n, use)
  PROVE  IndInv'
<1>1. /\ in_fn /\ job = NoJob /\ TypeOK /\ depth \in Nat /\ depth' = depth + n
      /\ data' = [i \in 1 .. depth + n |->
                    IF i <= depth THEN data[i] ELSE NewSlot(use, i - depth)]
      /\ dirty' = [i \in 1 .. depth + n |-> IF i <= depth THEN dirty[i] ELSE Nowhere]
      /\ restored' = NothingRestored
      /\ UNCHANGED <<in_fn, reuse, lvar_stk_sz, peak_stk_usage, tmpbuf_sz, frame,
                     job, used_words>>
  BY DEF PushSlots, Idle, IndInv, TypeOK
<1>2. \A w \in Nat : /\ NewSlot(use, w) \in Slot
                     /\ NewSlot(use, w).use = use
                     /\ NewSlot(use, w).word = w
                     /\ NewSlot(use, w).st_depth = 0
                     /\ NewSlot(use, w).kind = KindOf(use)
  BY DEF NewSlot, KindOf, Slot, SlotKind, Use
<1>3. /\ data' \in [1 .. depth + n -> Slot] /\ dirty' \in [1 .. depth + n -> Footprint]
      /\ \A i \in 1 .. depth : data'[i] = data[i] /\ dirty'[i] = dirty[i]
      /\ \A i \in depth + 1 .. depth + n : /\ data'[i] = NewSlot(use, i - depth)
                                           /\ dirty'[i] = Nowhere
  BY <1>1, <1>2 DEF TypeOK, Nowhere, Footprint
<1>4. \A i \in 1 .. depth + n : i \in 1 .. depth \/ (i \in depth + 1 .. depth + n /\ i - depth \in Nat)
  BY <1>1
<1>5. Nowhere.gp = {} /\ Nowhere.fp = {} /\ Nowhere.st = {}
  BY DEF Nowhere
<1>6. \A i \in 1 .. depth : \A j \in i .. depth : j \in i .. depth + n /\ data'[j] = data[j]
  BY <1>1, <1>3
<1>7. GpCovered'
  <2> SUFFICES ASSUME NEW i \in 1 .. depth + n, data'[i].kind = "SL_GP", NEW r \in dirty'[i].gp
               PROVE  \E j \in i .. depth + n : r < data'[j].gp_depth
    BY <1>1 DEF GpCovered
  <2>1. i \in 1 .. depth /\ r \in dirty[i].gp /\ data[i].kind = "SL_GP"
    BY <1>3, <1>4, <1>5
  <2>2. PICK j \in i .. depth : r < data[j].gp_depth
    BY <2>1 DEF IndInv, GpCovered
  <2>3. QED
    BY <2>1, <2>2, <1>6
<1>8. FpCovered'
  <2> SUFFICES ASSUME NEW i \in 1 .. depth + n, data'[i].kind = "SL_FP", NEW r \in dirty'[i].fp
               PROVE  \E j \in i .. depth + n : r < data'[j].fp_depth
    BY <1>1 DEF FpCovered
  <2>1. i \in 1 .. depth /\ r \in dirty[i].fp /\ data[i].kind = "SL_FP"
    BY <1>3, <1>4, <1>5
  <2>2. PICK j \in i .. depth : r < data[j].fp_depth
    BY <2>1 DEF IndInv, FpCovered
  <2>3. QED
    BY <2>1, <2>2, <1>6
<1>9. StCovered'
  <2> SUFFICES ASSUME NEW i \in 1 .. depth + n, NEW w \in dirty'[i].st
               PROVE  /\ w \in used_words
                      /\ reuse => \E j \in i .. depth + n :
                                    w <= lvar_stk_sz + data'[j].st_depth
    BY <1>1 DEF StCovered
  <2>1. i \in 1 .. depth /\ w \in dirty[i].st
    BY <1>3, <1>4, <1>5
  <2>2. w \in used_words
    BY <2>1 DEF IndInv, StCovered
  <2>3. ASSUME reuse
        PROVE  \E j \in i .. depth + n : w <= lvar_stk_sz + data'[j].st_depth
    <3>1. PICK j \in i .. depth : w <= lvar_stk_sz + data[j].st_depth
      BY <2>1, <2>3 DEF IndInv, StCovered
    <3>2. QED
      BY <3>1, <2>1, <1>6
  <2>4. QED
    BY <2>2, <2>3
<1>10. Spilled'
  <2> SUFFICES ASSUME NEW i \in 1 .. depth + n
               PROVE  /\ data'[i].kind = "SL_GP" => data'[i].use \in {"gp", "callee"}
                      /\ data'[i].kind = "SL_FP" => data'[i].use = "fp"
                      /\ data'[i].kind = "SL_ST" /\ data'[i].use \in {"gp", "callee"} =>
                           \A j \in 1 .. i : data'[j].kind = "SL_ST"
    BY <1>1 DEF Spilled
  <2>1. CASE i \in 1 .. depth
    <3>1. \A j \in 1 .. i : j \in 1 .. depth /\ data'[j] = data[j]
      BY <2>1, <1>1, <1>3
    <3>2. QED
      BY <2>1, <3>1, <1>1, <1>3 DEF IndInv, Spilled
  <2>2. CASE i \in depth + 1 .. depth + n /\ i - depth \in Nat
    <3>1. data'[i].use = use /\ data'[i].kind = KindOf(use)
      BY <2>2, <1>2, <1>3
    <3>2. QED
      BY <3>1 DEF KindOf, Use
  <2>3. QED
    BY <1>4, <2>1, <2>2
<1>11. BitWords'
  <2> SUFFICES ASSUME NEW i \in 1 .. depth + n, data'[i].use = "bitint"
               PROVE  /\ data'[i].kind = "SL_ST" /\ data'[i].word >= 1
                      /\ data'[i].word > 1 =>
                           /\ i > 1
                           /\ data'[i - 1].use = "bitint"
                           /\ data'[i - 1].word = data'[i].word - 1
                           /\ data'[i - 1].st_depth = 0
    BY <1>1 DEF BitWords
  <2>1. CASE i \in 1 .. depth
    <3>1. i > 1 => data'[i - 1] = data[i - 1]
      BY <2>1, <1>1, <1>3
    <3>2. data'[i] = data[i]
      BY <2>1, <1>3
    <3>3. QED
      BY <2>1, <3>1, <3>2 DEF IndInv, BitWords
  <2>2. CASE i \in depth + 1 .. depth + n /\ i - depth \in Nat
    <3>1. /\ data'[i].use = use /\ data'[i].kind = KindOf(use) /\ data'[i].word = i - depth
      BY <2>2, <1>2, <1>3
    <3>2. data'[i].kind = "SL_ST" /\ data'[i].word >= 1
      BY <3>1, <2>2, <1>1 DEF KindOf
    <3>3. ASSUME i - depth > 1
          PROVE  /\ i > 1
                 /\ data'[i - 1] = NewSlot(use, i - 1 - depth)
                 /\ i - 1 - depth \in Nat /\ i - 1 - depth = (i - depth) - 1
      BY <3>3, <2>2, <1>1, <1>3
    <3>4. QED
      BY <3>1, <3>2, <3>3, <1>2
  <2>3. QED
    BY <1>4, <2>1, <2>2
<1>12. JobOK' /\ job' \in Job
  BY <1>1, JobIdle
<1>13. UsedWordsInFrame'
  BY <1>1 DEF IndInv, UsedWordsInFrame
<1>14. TempsSurvive' /\ NoReuseIsFresh' /\ TypeOK'
  BY <1>1, <1>3, <1>12, NothingRestoredOK DEF TypeOK
<1>15. QED
  BY <1>7, <1>8, <1>9, <1>10, <1>11, <1>12, <1>13, <1>14 DEF IndInv

LEMMA EnterFnInd ==
  ASSUME IndInv, NEW lvars \in Nat, NEW dont \in BOOLEAN, EnterFn(lvars, dont)
  PROVE  IndInv'
<1>1. /\ depth = 0 /\ job = NoJob /\ TypeOK
      /\ in_fn' = TRUE /\ reuse' \in BOOLEAN
      /\ lvar_stk_sz' = lvars /\ peak_stk_usage' = lvars
      /\ tmpbuf_sz' = 0 /\ frame' = 0 /\ used_words' = {}
      /\ restored' = NothingRestored
      /\ UNCHANGED <<depth, data, job, dirty>>
  BY ConstantsAssumption DEF EnterFn, IndInv, JobOK
<1>2. GpCovered' /\ FpCovered' /\ StCovered' /\ Spilled' /\ BitWords'
  BY <1>1 DEF GpCovered, FpCovered, StCovered, Spilled, BitWords
<1>3. JobOK' /\ job' \in Job
  BY <1>1, JobIdle
<1>4. UsedWordsInFrame'
  BY <1>1 DEF UsedWordsInFrame
<1>5. TempsSurvive' /\ NoReuseIsFresh' /\ TypeOK'
  BY <1>1, <1>3, NothingRestoredOK DEF TypeOK
<1>6. QED
  BY <1>2, <1>3, <1>4, <1>5 DEF IndInv

\* Aligning a size up never makes it smaller.
LEMMA AlignUp ==
  ASSUME NEW n \in Nat
  PROVE  AlignTo(n, 16) \in Nat /\ AlignTo(n, 16) >= n
  BY DEF AlignTo

\* Steps that leave the stack of temporaries alone.
LEMMA FrameStepInd ==
  ASSUME IndInv, restored' = NothingRestored,
         UNCHANGED <<reuse, lvar_stk_sz, peak_stk_usage, depth, data, job, dirty, used_words>>,
         tmpbuf_sz' \in Nat, frame' \in Nat, in_fn' \in BOOLEAN,
         ~in_fn' => depth = 0 /\ job = NoJob /\ 8 * peak_stk_usage <= frame' - tmpbuf_sz'
  PROVE  IndInv'
<1>1. GpCovered' /\ FpCovered' /\ StCovered' /\ Spilled' /\ BitWords'
  BY DEF IndInv, GpCovered, FpCovered, StCovered, Spilled, BitWords
<1>2. JobOK'
  BY DEF IndInv, JobOK, Bottom, Top
<1>3. UsedWordsInFrame'
  BY DEF IndInv, UsedWordsInFrame
<1>4. TempsSurvive' /\ NoReuseIsFresh' /\ TypeOK'
  BY NothingRestoredOK DEF IndInv, TypeOK
<1>5. QED
  BY <1>1, <1>2, <1>3, <1>4 DEF IndInv

LEMMA TmpBufInd ==
  ASSUME IndInv, NEW sz \in Nat, TmpBuf(sz)
  PROVE  IndInv'
<1>1. TypeOK /\ in_fn /\ UNCHANGED <<in_fn, frame>> /\ tmpbuf_sz' = Larger(tmpbuf_sz, sz)
  BY DEF TmpBuf, Idle, IndInv
<1>2. tmpbuf_sz' \in Nat /\ frame' \in Nat /\ in_fn' /\ in_fn' \in BOOLEAN
  BY <1>1 DEF Larger, TypeOK
<1>3. /\ restored' = NothingRestored
      /\ UNCHANGED <<reuse, lvar_stk_sz, peak_stk_usage, depth, data, job, dirty, used_words>>
  BY DEF TmpBuf
<1>4. QED
  BY <1>2, <1>3, FrameStepInd

LEMMA LeaveFnInd ==
  ASSUME IndInv, LeaveFn
  PROVE  IndInv'
<1>1. 8 * peak_stk_usage + tmpbuf_sz \in Nat /\ peak_stk_usage \in Nat /\ tmpbuf_sz \in Nat
  BY DEF IndInv, TypeOK
<1>2. frame' \in Nat /\ frame' >= 8 * peak_stk_usage + tmpbuf_sz
  BY <1>1, AlignUp DEF LeaveFn
<1>3. /\ depth = 0 /\ job = NoJob /\ in_fn' = FALSE /\ restored' = NothingRestored
      /\ UNCHANGED <<reuse, lvar_stk_sz, peak_stk_usage, tmpbuf_sz, depth, data,
                     job, dirty, used_words>>
  BY DEF LeaveFn, Idle
<1>4. 8 * peak_stk_usage <= frame' - tmpbuf_sz'
  <2>1. 8 * peak_stk_usage \in Nat
    BY <1>1
  <2>2. \A b, t, f \in Nat : f >= b + t => b <= f - t
    OBVIOUS
  <2>3. tmpbuf_sz' = tmpbuf_sz
    BY <1>3
  <2>4. QED
    BY <1>1, <1>2, <2>1, <2>2, <2>3
<1>5. tmpbuf_sz' \in Nat /\ in_fn' \in BOOLEAN
  BY <1>1, <1>3
<1>6. UNCHANGED <<reuse, lvar_stk_sz, peak_stk_usage, depth, data, job, dirty, used_words>>
  BY <1>3
<1>7. ~in_fn' => depth = 0 /\ job = NoJob /\ 8 * peak_stk_usage <= frame' - tmpbuf_sz'
  BY <1>3, <1>4
<1>8. frame' \in Nat /\ restored' = NothingRestored
  BY <1>2, <1>3
<1>9. QED
  BY <1>5, <1>6, <1>7, <1>8, FrameStepInd

-----------------------------------------------------------------------------
(* Theorems *)

LEMMA NextInd == IndInv /\ [Next]_vars => IndInv'
<1> SUFFICES ASSUME IndInv, [Next]_vars PROVE IndInv'
  OBVIOUS
<1>1. ASSUME NEW lvars \in LvarWords, NEW dont \in BOOLEAN, EnterFn(lvars, dont)
      PROVE  IndInv'
  BY <1>1, EnterFnInd, ConstantsAssumption
<1>2. ASSUME NEW use \in Uses, Push(use) PROVE IndInv'
  BY <1>2, PushInd, ConstantsAssumption DEF Push, Use
<1>3. ASSUME NEW n \in BitIntWords, PushBitint(n) PROVE IndInv'
  BY <1>3, PushInd, ConstantsAssumption DEF PushBitint, Use
<1>4. ASSUME NEW fallback \in {{}, {0}}, PopGp(fallback) PROVE IndInv'
  BY <1>4, PopInd DEF PopGp
<1>5. CASE PopFp
  BY <1>5, PopInd DEF PopFp
<1>6. CASE PopX87
  BY <1>6, PopInd DEF PopX87
<1>7. CASE PopBitintWord
  BY <1>7, PopBitintInd
<1>8. CASE PopCasOld
  BY <1>8, PopCasOldInd
<1>9. CASE PopCasAddr
  BY <1>9, PopCasAddrInd
<1>10. CASE Call
  BY <1>10, CallInd
<1>11. ASSUME NEW gp_count \in 0 .. 6, CallIndirect(gp_count) PROVE IndInv'
  BY <1>11, CallIndirectInd
<1>12. ASSUME NEW sz \in BufSizes, TmpBuf(sz) PROVE IndInv'
  BY <1>12, TmpBufInd, ConstantsAssumption
<1>13. CASE LeaveFn
  BY <1>13, LeaveFnInd
<1>14. CASE UNCHANGED vars
  BY <1>14 DEF vars, IndInv, TypeOK, GpCovered, FpCovered, StCovered, Spilled,
     BitWords, JobOK, Bottom, Top, UsedWordsInFrame, TempsSurvive, NoReuseIsFresh
<1>15. QED
  BY <1>1, <1>2, <1>3, <1>4, <1>5, <1>6, <1>7, <1>8, <1>9, <1>10, <1>11, <1>12,
     <1>13, <1>14 DEF Next

LEMMA Invariant == Spec => []IndInv
  BY InitInd, NextInd, PTL DEF Spec

\* The records of tmp_stack, the frame sizes and the ghosts keep their types.
THEOREM TypeCorrect == Spec => []TypeOK
<1>1. IndInv => TypeOK
  BY DEF IndInv
<1>2. QED
  BY <1>1, Invariant, PTL

\* For any expression the emitter is given, a temporary that is read back was
\* not overwritten between its save and its restore: the depths pop_tmpstack
\* gathers are enough to choose its register or its words.
THEOREM TemporariesSurvive == Spec => []TempsSurvive
<1>1. IndInv => TempsSurvive
  BY DEF IndInv
<1>2. QED
  BY <1>1, Invariant, PTL

\* The frame emit_text reserves holds every temporary, below the locals and
\* above the scratch buffer.
THEOREM TemporariesInFrame == Spec => []FrameHoldsTemps
<1>1. IndInv => FrameHoldsTemps
  <2> SUFFICES ASSUME IndInv, NEW w \in used_words
               PROVE  /\ w > lvar_stk_sz /\ w <= peak_stk_usage
                      /\ ~in_fn => 8 * w <= frame - tmpbuf_sz
    BY DEF FrameHoldsTemps
  <2>1. /\ w \in Nat /\ w > lvar_stk_sz /\ w <= peak_stk_usage /\ peak_stk_usage \in Nat
        /\ frame \in Nat /\ tmpbuf_sz \in Nat
        /\ ~in_fn => 8 * peak_stk_usage <= frame - tmpbuf_sz
    BY DEF IndInv, TypeOK, UsedWordsInFrame
  <2>2. QED
    BY <2>1
<1>2. QED
  BY <1>1, Invariant, PTL

\* pop_bitint may return the lowest address alone: the words are adjacent.
THEOREM BitintsContiguous == Spec => []BitintContiguous
<1>1. IndInv => BitintContiguous
  BY DEF IndInv, JobOK, BitintContiguous
<1>2. QED
  BY <1>1, Invariant, PTL

\* With dont_reuse_stk no stack word is given to two temporaries.
THEOREM NoReuseFresh == Spec => []NoReuseIsFresh
<1>1. IndInv => NoReuseIsFresh
  BY DEF IndInv
<1>2. QED
  BY <1>1, Invariant, PTL

=============================================================================
