------------------------- MODULE RecordCallsProofs -------------------------
(***************************************************************************)
(* Proofs about Calls, about Records, and about the program RecordCalls    *)
(* composes of them: for every number of argument registers, every set of  *)
(* types, every list of members and every list of arguments.               *)
(*                                                                         *)
(* Calls.  What a parameter receives depends on what calling_convention    *)
(* counted before it, on both sides, and neither side keeps those counts.  *)
(* The inductive invariant therefore says that a sequence of counts exists *)
(* of which the places are computed (Chain), that each loop stands at one  *)
(* of them (Counting), and that the registers used so far are the counts   *)
(* cut off at the number of registers (Used).  The loaded arguments then   *)
(* lie at the registers counted before them (InRegs), which later          *)
(* arguments cannot reach because the counts never fall.                   *)
(*                                                                         *)
(* Records.  A member reads back as what it was given because its bits are *)
(* its own (Layout: the members of a struct follow one another, and all    *)
(* that is accessed of a member lies inside the record) and because each   *)
(* store leaves the bits of the others alone (Contents).  Two faults of    *)
(* the code are left out by NarrowFields: fields of 64 bits, and packed    *)
(* fields as wide as their type.                                           *)
(*                                                                         *)
(* RecordCalls.  Whatever record struct_decl makes, the faulty ones        *)
(* included, is a type Calls was proved for: its leaves are classified     *)
(* into one of the classes and its alignment nests with the others'        *)
(* (ThisRecordIs, RecordNests).                                            *)
(***************************************************************************)
EXTENDS RecordCalls, FiniteSetTheorems, SequenceTheorems, WellFoundedInduction, TLAPS

Counts == [gp : Nat, fp : Nat, stack : Nat, align : Nat \ {0}]
Calling == {"idle", "classify", "begin", "spill", "load"}
Phases == Calling \cup {"params", "receive", "body", "returned"}

Typed ==
  /\ types \subseteq Descriptors
  /\ call \in [args : Seq([ty : Descriptors, shape : Shapes]), named : Nat,
               rtn_by_stk : BOOLEAN, optimize : BOOLEAN]
  /\ call.named <= Len(call.args)
  /\ pc \in Phases
  /\ i \in 0..(Len(call.args) + 1)
  /\ count \in Counts
  /\ place \in Seq(Places) /\ Len(place) <= Len(call.args)
  /\ param \in Seq(Places) /\ Len(param) <= call.named
  /\ homed \subseteq Args
  /\ next \in [gp : 0..GP_MAX, fp : 0..FP_MAX]
  /\ regs \in RegFiles
  /\ va \in [gp : Nat, fp : Nat, st : Int, area : RegFiles]
  /\ local \in Seq(Seq(Values))
  /\ rsp \in Int /\ rbp \in Int
  /\ saved \in [rsp : Int, size : Nat, align : Nat \ {0}]

\* The places follow from the counts cs, which never fall.
Chain(cs) ==
  /\ cs \in Seq(Counts)
  /\ Len(cs) = Len(place) + 1
  /\ cs[1] = NewCount
  /\ \A a \in 1..Len(place) :
       /\ place[a] = PlaceOf(Type(a), cs[a])
       /\ cs[a + 1] = Counted(Type(a), cs[a])
  /\ \A a, b \in 1..Len(cs) :
       a <= b => cs[a].gp <= cs[b].gp /\ cs[a].fp <= cs[b].fp /\ cs[a].stack <= cs[b].stack

\* The registers that have been used when c has been counted.
Used(c) == [gp |-> Smaller(c.gp, GP_MAX), fp |-> Smaller(c.fp, FP_MAX)]

\* Where each loop stands among the counts.
Counting(cs) ==
  /\ pc \in Calling => count = cs[Len(cs)] /\ param = <<>>
  /\ pc \in Calling \cup {"params"} => local = <<>>
  /\ pc = "idle" => place = <<>> /\ homed = {}
  /\ pc # "idle" => i >= 1
  /\ pc = "classify" => i = Len(place) + 1
  /\ pc \notin {"idle", "classify"} => Len(place) = Len(call.args)
  /\ pc = "load" => next = Used(cs[i]) /\ (FirstInReg(i) => next = NextReg)
  /\ pc = "params" => i = Len(param) + 1 /\ count = cs[i]
  /\ pc \in {"receive", "body", "returned"} => Len(param) = call.named
  /\ pc = "receive" => i = Len(local) + 1 /\ i <= call.named + 1 /\ next = Used(cs[i])
  /\ pc = "body" => Len(local) = call.named
  /\ pc \in {"params", "receive", "body"} => rsp = rbp + 2

\* Both sides decide alike.
Agreed ==
  /\ \A a \in 1..Len(param) : param[a] = place[a]
  /\ pc \notin {"idle", "classify"} => homed = {a \in Args : ~place[a].pass_by_stack /\ FromHome(a)}

HomesHeld ==
  /\ pc \in {"begin", "spill", "load"} =>
       /\ DOMAIN home = Args
       /\ \A a \in Args : home[a] \in [1..Type(a).words -> Values]
  /\ pc = "spill" => \A a \in homed : a < i => home[a] = Words(a, Type(a))
  /\ pc = "load" => \A a \in homed : home[a] = Words(a, Type(a))

\* The words lie from an address up.
Holds(st, at, words) == \A w \in DOMAIN words : at + w - 1 \in DOMAIN st /\ st[at + w - 1] = words[w]
OnStack(a) == Holds(stack, rsp + place[a].stack_offset, Words(a, Type(a)))

StackHeld ==
  /\ pc = "spill" => \A a \in 1..(i - 1) : place[a].pass_by_stack => OnStack(a)
  /\ pc \in {"load", "params", "receive", "body"} => \A a \in Args : place[a].pass_by_stack => OnStack(a)

\* How many registers of its kind the words before w take.
Before(ty, w) == Cardinality({v \in 1..(w - 1) : InFp(ty, v) = InFp(ty, w)})

InRegs(rs, base, a, ty) ==
  \A w \in 1..ty.words :
    IF InFp(ty, w) THEN rs.fp[base.fp + Before(ty, w)] = Word(a, w)
    ELSE rs.gp[base.gp + Before(ty, w)] = Word(a, w)

RegsHeld(cs) ==
  /\ pc = "load" => \A a \in 1..(i - 1) : ~place[a].pass_by_stack => InRegs(regs, Used(cs[a]), a, Type(a))
  /\ pc \in {"params", "receive"} =>
       \A a \in Args : ~place[a].pass_by_stack => InRegs(regs, Used(cs[a]), a, Type(a))

Received ==
  /\ pc \in {"receive", "body"} =>
       \A a \in 1..Len(local) : ~place[a].pass_by_stack => local[a] = Words(a, Type(a))

Run(cs) == Chain(cs) /\ Counting(cs) /\ Agreed /\ HomesHeld /\ StackHeld /\ RegsHeld(cs) /\ Received

CallInv == Typed /\ \E cs : Run(cs)

----------------------------------------------------------------------------
(* The operators                                                           *)

\* Rounding up stays in the naturals and does not round down.
LEMMA AlignToType ==
  ASSUME NEW n \in Nat, NEW a \in Nat \ {0}
  PROVE  AlignTo(n, a) \in Nat /\ AlignTo(n, a) >= n
<1> DEFINE q == (n + a - 1) \div a
<1>1. q \in Nat
  OBVIOUS
<1>2. n + a - 1 = q * a + ((n + a - 1) % a) /\ (n + a - 1) % a \in 0..(a - 1)
  OBVIOUS
<1>3. q * a \in Nat
  BY <1>1
<1>4. QED
  BY <1>2, <1>3 DEF AlignTo

LEMMA AlignIntType ==
  ASSUME NEW n \in Int, NEW a \in Nat \ {0}
  PROVE  AlignDown(n, a) \in Int /\ AlignTo(n, a) \in Int
  BY DEF AlignDown, AlignTo

\* A type has a natural number of words of each kind.
LEMMA WordsType ==
  ASSUME NEW ty \in Descriptors
  PROVE  ty.words \in Nat \ {0} /\ ty.align \in Nat \ {0} /\ FpWords(ty) \in Nat /\ GpWords(ty) \in Nat
<1>1. ty.words \in Nat \ {0} /\ ty.align \in Nat \ {0}
  BY DEF Descriptors
<1>2. IsFiniteSet(1..ty.words)
  BY <1>1, FS_Interval
<1>3. IsFiniteSet({w \in 1..ty.words : InFp(ty, w)}) /\ IsFiniteSet({w \in 1..ty.words : ~InFp(ty, w)})
  BY <1>2, FS_Subset
<1>4. QED
  BY <1>1, <1>3, FS_CardinalityType DEF FpWords, GpWords

\* In a type of one or two words, each word has a register of its kind.
LEMMA RegWords ==
  ASSUME NEW ty \in Descriptors, ty.words <= 2
  PROVE  /\ \A w \in 1..ty.words :
              /\ Before(ty, w) \in Nat
              /\ Before(ty, w) < IF InFp(ty, w) THEN FpWords(ty) ELSE GpWords(ty)
         /\ \A v, w \in 1..ty.words :
              v # w /\ (InFp(ty, v) <=> InFp(ty, w)) => Before(ty, v) # Before(ty, w)
<1>1. ty.words \in {1, 2}
  BY DEF Descriptors
<1>2. Before(ty, 1) = 0
  <2>1. {v \in 1..(1 - 1) : InFp(ty, v) = InFp(ty, 1)} = {}
    OBVIOUS
  <2>2. QED
    BY <2>1, FS_EmptySet DEF Before
<1>3. CASE ty.words = 1
  <2>1. 1..ty.words = {1}
    BY <1>3
  <2>2. InFp(ty, 1) => FpWords(ty) = 1
    <3>1. SUFFICES ASSUME InFp(ty, 1) PROVE {w \in 1..ty.words : InFp(ty, w)} = {1}
      BY FS_Singleton DEF FpWords
    <3>2. QED
      BY <2>1, <3>1
  <2>3. ~InFp(ty, 1) => GpWords(ty) = 1
    <3>1. SUFFICES ASSUME ~InFp(ty, 1) PROVE {w \in 1..ty.words : ~InFp(ty, w)} = {1}
      BY FS_Singleton DEF GpWords
    <3>2. QED
      BY <2>1, <3>1
  <2>4. QED
    BY <1>2, <2>1, <2>2, <2>3
<1>4. CASE ty.words = 2
  <2>1. 1..ty.words = {1, 2} /\ 1..(2 - 1) = {1} /\ IsFiniteSet({1, 2}) /\ Cardinality({1, 2}) = 2
    <3>1. 1..ty.words = 1..2 /\ 1..2 = {1, 2} /\ 1..(2 - 1) = {1}
      BY <1>4
    <3>2. IsFiniteSet({1, 2}) /\ Cardinality({1, 2}) = 2
      <4>1. {1, 2} = {1} \cup {2} /\ 2 \notin {1}
        OBVIOUS
      <4> IsFiniteSet({1}) /\ Cardinality({1}) = 1
        BY FS_Singleton
      <4>2. IsFiniteSet({1} \cup {2}) /\ Cardinality({1} \cup {2}) = IF 2 \in {1} THEN Cardinality({1}) ELSE Cardinality({1}) + 1
        BY <4>1, FS_AddElement
      <4>3. QED
        BY <4>1, <4>2
    <3>3. QED
      BY <3>1, <3>2
  <2>2. CASE InFp(ty, 1) /\ InFp(ty, 2)
    <3>1. {w \in {1, 2} : InFp(ty, w)} = {1, 2} /\ {v \in {1} : InFp(ty, v) = InFp(ty, 2)} = {1}
      BY <2>2 DEF InFp
    <3>2. FpWords(ty) = 2 /\ Before(ty, 2) = 1
      BY <2>1, <3>1, FS_Singleton DEF FpWords, Before
    <3>3. QED
      BY <1>2, <2>1, <2>2, <3>2
  <2>3. CASE ~InFp(ty, 1) /\ ~InFp(ty, 2)
    <3>1. {w \in {1, 2} : ~InFp(ty, w)} = {1, 2} /\ {v \in {1} : InFp(ty, v) = InFp(ty, 2)} = {1}
      BY <2>3 DEF InFp
    <3>2. GpWords(ty) = 2 /\ Before(ty, 2) = 1
      BY <2>1, <3>1, FS_Singleton DEF GpWords, Before
    <3>3. QED
      BY <1>2, <2>1, <2>3, <3>2
  <2>4. CASE ~(InFp(ty, 1) <=> InFp(ty, 2))
    <3> DEFINE f == {w \in 1..ty.words : InFp(ty, w)}
               g == {w \in 1..ty.words : ~InFp(ty, w)}
    <3>1. \/ f = {1} /\ g = {2}
          \/ f = {2} /\ g = {1}
      BY <2>1, <2>4 DEF InFp
    <3>2. {v \in 1..(2 - 1) : InFp(ty, v) = InFp(ty, 2)} = {}
      BY <2>4
    <3>3. FpWords(ty) = 1 /\ GpWords(ty) = 1 /\ Before(ty, 2) = 0
      BY <3>1, <3>2, FS_Singleton, FS_EmptySet DEF FpWords, GpWords, Before
    <3>4. QED
      BY <1>2, <2>1, <2>4, <3>3
  <2>5. QED
    BY <2>2, <2>3, <2>4 DEF InFp
<1>5. QED
  BY <1>1, <1>3, <1>4

\* calling_convention only counts up, and what is passed on the stack lies above all before it.
LEMMA CountedType ==
  ASSUME NEW ty \in Descriptors, NEW c \in Counts
  PROVE  /\ Counted(ty, c) \in Counts
         /\ PlaceOf(ty, c) \in Places
         /\ Counted(ty, c).gp >= c.gp /\ Counted(ty, c).fp >= c.fp /\ Counted(ty, c).stack >= c.stack
         /\ PlaceOf(ty, c).pass_by_stack =>
              /\ PlaceOf(ty, c).stack_offset >= c.stack
              /\ Counted(ty, c).stack = PlaceOf(ty, c).stack_offset + ty.words
<1>1. /\ ty.words \in Nat \ {0} /\ ty.align \in Nat \ {0} /\ FpWords(ty) \in Nat /\ GpWords(ty) \in Nat
      /\ c.gp \in Nat /\ c.fp \in Nat /\ c.stack \in Nat /\ c.align \in Nat \ {0}
  BY WordsType DEF Counts
<1>2. StackOffset(ty, c) \in Nat /\ StackOffset(ty, c) >= c.stack
  BY <1>1, AlignToType DEF StackOffset
<1>3. Larger(c.align, ty.align) \in Nat \ {0}
  BY <1>1 DEF Larger
<1> DEFINE d == Counted(ty, c)
<1>4. /\ d.gp \in Nat /\ d.gp >= c.gp /\ d.fp \in Nat /\ d.fp >= c.fp
      /\ d.stack = (IF Fits(ty, c) THEN c.stack ELSE StackOffset(ty, c) + ty.words)
      /\ d.align \in Nat \ {0}
      /\ d = [gp |-> d.gp, fp |-> d.fp, stack |-> d.stack, align |-> d.align]
  BY <1>1, <1>3 DEF Counted
<1>5. /\ PlaceOf(ty, c).pass_by_stack = ~Fits(ty, c)
      /\ ~Fits(ty, c) => PlaceOf(ty, c).stack_offset = StackOffset(ty, c)
      /\ PlaceOf(ty, c) \in Places
  BY <1>2 DEF PlaceOf, Places
<1>6. d.stack \in Nat /\ d.stack >= c.stack
  BY <1>1, <1>2, <1>4
<1> HIDE DEF d
<1>7. d \in Counts
  BY <1>4, <1>6 DEF Counts
<1>8. QED
  BY <1>4, <1>5, <1>2, <1>6, <1>7 DEF d

\* An argument takes the registers it was counted for, or none and leaves none
\* of its kind.
LEMMA UsedCounted ==
  ASSUME NEW ty \in Descriptors, NEW c \in Counts
  PROVE  /\ Used(c) \in [gp : 0..GP_MAX, fp : 0..FP_MAX]
         /\ ~PlaceOf(ty, c).pass_by_stack =>
              /\ ty.words <= 2
              /\ Used(c).gp + GpWords(ty) <= GP_MAX
              /\ Used(c).fp + FpWords(ty) <= FP_MAX
              /\ Used(Counted(ty, c)) = [gp |-> Used(c).gp + GpWords(ty), fp |-> Used(c).fp + FpWords(ty)]
         /\ PlaceOf(ty, c).pass_by_stack => Used(Counted(ty, c)) = Used(c)
<1>1. /\ ty.words \in Nat \ {0} /\ FpWords(ty) \in Nat /\ GpWords(ty) \in Nat
      /\ c.gp \in Nat /\ c.fp \in Nat /\ ty.kind \in Kinds
  BY WordsType DEF Counts, Descriptors
<1>2. GP_MAX \in Nat \ {0} /\ FP_MAX \in Nat \ {0}
  BY RegisterAssumption
<1>3. /\ ty.kind = "fp" => ty.words = 1 /\ FpWords(ty) = 1 /\ GpWords(ty) = 0
      /\ ty.kind = "int" => ty.words = 1 /\ FpWords(ty) = 0 /\ GpWords(ty) = 1
  <2>1. SUFFICES ASSUME ty.kind \in {"int", "fp"}
                 PROVE  /\ ty.words = 1
                        /\ ty.kind = "fp" => FpWords(ty) = 1 /\ GpWords(ty) = 0
                        /\ ty.kind = "int" => FpWords(ty) = 0 /\ GpWords(ty) = 1
    OBVIOUS
  <2>2. ty.words = 1 /\ 1..ty.words = {1} /\ (InFp(ty, 1) <=> ty.kind = "fp")
    BY <2>1 DEF Descriptors, InFp
  <2>3. ty.kind = "fp" => {w \in 1..ty.words : InFp(ty, w)} = {1} /\ {w \in 1..ty.words : ~InFp(ty, w)} = {}
    BY <2>2
  <2>4. ty.kind # "fp" => {w \in 1..ty.words : InFp(ty, w)} = {} /\ {w \in 1..ty.words : ~InFp(ty, w)} = {1}
    BY <2>2
  <2>5. QED
    BY <2>1, <2>2, <2>3, <2>4, FS_Singleton, FS_EmptySet DEF FpWords, GpWords
<1> DEFINE d == Counted(ty, c)
<1>4. /\ Used(c) = [gp |-> Smaller(c.gp, GP_MAX), fp |-> Smaller(c.fp, FP_MAX)]
      /\ Used(d) = [gp |-> Smaller(d.gp, GP_MAX), fp |-> Smaller(d.fp, FP_MAX)]
      /\ Smaller(c.gp, GP_MAX) \in 0..GP_MAX /\ Smaller(c.fp, FP_MAX) \in 0..FP_MAX
  BY <1>1, <1>2 DEF Used, Smaller
<1>5. PlaceOf(ty, c).pass_by_stack <=> ~Fits(ty, c)
  BY DEF PlaceOf
<1>6. CASE Fits(ty, c)
  <2>1. d.gp = c.gp + GpWords(ty) /\ d.fp = c.fp + FpWords(ty)
    BY <1>6 DEF Counted
  <2>2. /\ ty.words <= 2
        /\ GpWords(ty) = 0 \/ c.gp + GpWords(ty) <= GP_MAX
        /\ FpWords(ty) = 0 \/ c.fp + FpWords(ty) <= FP_MAX
    <3>1. CASE ty.kind \in {"bitint", "record"}
      BY <1>1, <1>2, <1>6, <3>1 DEF Fits, is_by_reg_agg
    <3>2. CASE ty.kind = "int"
      BY <1>1, <1>2, <1>3, <1>6, <3>2 DEF Fits
    <3>3. CASE ty.kind = "fp"
      BY <1>1, <1>2, <1>3, <1>6, <3>3 DEF Fits
    <3>4. CASE ty.kind = "x87"
      BY <1>6, <3>4 DEF Fits
    <3>5. QED
      BY <1>1, <3>1, <3>2, <3>3, <3>4 DEF Kinds
  <2>3. QED
    <3>1. /\ Smaller(c.gp, GP_MAX) + GpWords(ty) <= GP_MAX
          /\ Smaller(c.fp, FP_MAX) + FpWords(ty) <= FP_MAX
          /\ Smaller(d.gp, GP_MAX) = Smaller(c.gp, GP_MAX) + GpWords(ty)
          /\ Smaller(d.fp, FP_MAX) = Smaller(c.fp, FP_MAX) + FpWords(ty)
      BY <1>1, <1>2, <2>1, <2>2 DEF Smaller
    <3>2. QED
      BY <1>4, <1>5, <1>6, <2>2, <3>1
<1>7. CASE ~Fits(ty, c)
  <2>1. CASE ty.kind \in {"int", "fp"}
    <3>1. d.gp = c.gp + GpWords(ty) /\ d.fp = c.fp + FpWords(ty)
      BY <1>7, <2>1 DEF Counted
    <3>2. /\ ty.kind = "int" => c.gp >= GP_MAX
          /\ ty.kind = "fp" => c.fp >= FP_MAX
      <4>1. CASE ty.kind = "int"
        BY <1>1, <1>2, <1>7, <4>1 DEF Fits
      <4>2. CASE ty.kind = "fp"
        BY <1>1, <1>2, <1>7, <4>2 DEF Fits
      <4>3. QED
        BY <2>1, <4>1, <4>2
    <3>3. Smaller(d.gp, GP_MAX) = Smaller(c.gp, GP_MAX) /\ Smaller(d.fp, FP_MAX) = Smaller(c.fp, FP_MAX)
      BY <1>1, <1>2, <1>3, <2>1, <3>1, <3>2 DEF Smaller
    <3>4. QED
      BY <1>4, <1>5, <1>7, <3>3
  <2>2. CASE ty.kind \notin {"int", "fp"}
    <3>1. d.gp = c.gp /\ d.fp = c.fp
      BY <1>7, <2>2 DEF Counted
    <3>2. QED
      BY <1>4, <1>5, <1>7, <3>1
  <2>3. QED
    BY <2>1, <2>2
<1>8. QED
  BY <1>6, <1>7

LEMMA RegOfIs ==
  ASSUME NEW ty, NEW w
  PROVE  RegOf(ty, w) = IF InFp(ty, w) THEN next.fp + Before(ty, w) ELSE next.gp + Before(ty, w)
<1>1. InFp(ty, w) => {v \in 1..(w - 1) : InFp(ty, v)} = {v \in 1..(w - 1) : InFp(ty, v) = InFp(ty, w)}
  BY DEF InFp
<1>2. ~InFp(ty, w) => {v \in 1..(w - 1) : ~InFp(ty, v)} = {v \in 1..(w - 1) : InFp(ty, v) = InFp(ty, w)}
  BY DEF InFp
<1>3. QED
  BY <1>1, <1>2 DEF RegOf, Before

\* Loading an argument puts its words into the next registers of their kinds and
\* writes no register before those.
LEMMA Loaded ==
  ASSUME NEW ty \in Descriptors, ty.words <= 2,
         next \in [gp : 0..GP_MAX, fp : 0..FP_MAX],
         next.gp + GpWords(ty) <= GP_MAX, next.fp + FpWords(ty) <= FP_MAX,
         NEW rs \in RegFiles, NEW vs \in [1..ty.words -> Values]
  PROVE  LET new == place_reg_arg(ty, vs, rs)
         IN /\ new \in RegFiles
            /\ \A r \in 0..(next.gp - 1) : new.gp[r] = rs.gp[r]
            /\ \A r \in 0..(next.fp - 1) : new.fp[r] = rs.fp[r]
            /\ \A w \in 1..ty.words :
                 IF InFp(ty, w) THEN new.fp[next.fp + Before(ty, w)] = vs[w]
                 ELSE new.gp[next.gp + Before(ty, w)] = vs[w]
<1> DEFINE new == place_reg_arg(ty, vs, rs)
<1>1. /\ next.gp \in Nat /\ next.fp \in Nat /\ GP_MAX \in Nat /\ FP_MAX \in Nat
      /\ FpWords(ty) \in Nat /\ GpWords(ty) \in Nat
      /\ DOMAIN rs.gp = 0..(GP_MAX - 1) /\ DOMAIN rs.fp = 0..(FP_MAX - 1)
      /\ \A r \in 0..(GP_MAX - 1) : rs.gp[r] \in Values
      /\ \A r \in 0..(FP_MAX - 1) : rs.fp[r] \in Values
  BY RegisterAssumption, WordsType DEF RegFiles
<1>2. \A w \in 1..ty.words :
        RegOf(ty, w) = IF InFp(ty, w) THEN next.fp + Before(ty, w) ELSE next.gp + Before(ty, w)
  BY RegOfIs
<1>3. \A w \in 1..ty.words :
        /\ InFp(ty, w) => RegOf(ty, w) \in next.fp..(FP_MAX - 1)
        /\ ~InFp(ty, w) => RegOf(ty, w) \in next.gp..(GP_MAX - 1)
  <2>1. TAKE w \in 1..ty.words
  <2>2. Before(ty, w) \in Nat /\ Before(ty, w) < IF InFp(ty, w) THEN FpWords(ty) ELSE GpWords(ty)
    BY RegWords
  <2>3. CASE InFp(ty, w)
    BY <1>1, <1>2, <2>2, <2>3
  <2>4. CASE ~InFp(ty, w)
    BY <1>1, <1>2, <2>2, <2>4
  <2>5. QED
    BY <2>3, <2>4
<1>4. \A v, w \in 1..ty.words : (InFp(ty, v) <=> InFp(ty, w)) /\ RegOf(ty, v) = RegOf(ty, w) => v = w
  <2>1. TAKE v, w \in 1..ty.words
  <2>2. /\ Before(ty, v) \in Nat /\ Before(ty, w) \in Nat
        /\ v # w /\ (InFp(ty, v) <=> InFp(ty, w)) => Before(ty, v) # Before(ty, w)
    BY RegWords
  <2>3. (InFp(ty, v) <=> InFp(ty, w)) /\ RegOf(ty, v) = RegOf(ty, w) => Before(ty, v) = Before(ty, w)
    <3>1. CASE InFp(ty, v) /\ InFp(ty, w)
      <4>1. RegOf(ty, v) = next.fp + Before(ty, v) /\ RegOf(ty, w) = next.fp + Before(ty, w)
        BY SMTT(30), <1>2, <3>1
      <4>2. QED
        BY <1>1, <2>2, <4>1
    <3>2. CASE ~InFp(ty, v) /\ ~InFp(ty, w)
      <4>1. RegOf(ty, v) = next.gp + Before(ty, v) /\ RegOf(ty, w) = next.gp + Before(ty, w)
        BY SMTT(30), <1>2, <3>2
      <4>2. QED
        BY <1>1, <2>2, <4>1
    <3>3. QED
      BY <3>1, <3>2
  <2>4. QED
    BY <2>2, <2>3
<1>5. /\ new \in [gp : [0..(GP_MAX - 1) -> {new.gp[r] : r \in 0..(GP_MAX - 1)}],
                  fp : [0..(FP_MAX - 1) -> {new.fp[r] : r \in 0..(FP_MAX - 1)}], al : Nat]
      /\ \A r \in 0..(GP_MAX - 1) :
           new.gp[r] = IF GpWordFor(ty, r) = {} THEN rs.gp[r] ELSE vs[CHOOSE w \in GpWordFor(ty, r) : TRUE]
      /\ \A r \in 0..(FP_MAX - 1) :
           new.fp[r] = IF FpWordFor(ty, r) = {} THEN rs.fp[r] ELSE vs[CHOOSE w \in FpWordFor(ty, r) : TRUE]
  BY <1>1 DEF place_reg_arg, RegFiles
<1> HIDE DEF new
<1>6. \A w \in 1..ty.words :
        /\ ~InFp(ty, w) => GpWordFor(ty, RegOf(ty, w)) = {w}
        /\ InFp(ty, w) => FpWordFor(ty, RegOf(ty, w)) = {w}
  BY <1>4 DEF GpWordFor, FpWordFor
<1>7. \A r : /\ GpWordFor(ty, r) # {} => (CHOOSE w \in GpWordFor(ty, r) : TRUE) \in 1..ty.words
             /\ FpWordFor(ty, r) # {} => (CHOOSE w \in FpWordFor(ty, r) : TRUE) \in 1..ty.words
  BY DEF GpWordFor, FpWordFor
<1>8. new \in RegFiles
  <2>1. /\ \A r \in 0..(GP_MAX - 1) : new.gp[r] \in Values
        /\ \A r \in 0..(FP_MAX - 1) : new.fp[r] \in Values
    <3>1. ASSUME NEW r \in 0..(GP_MAX - 1) PROVE new.gp[r] \in Values
      <4>1. CASE GpWordFor(ty, r) = {}
        BY <1>1, <1>5, <4>1
      <4>2. CASE GpWordFor(ty, r) # {}
        BY <1>5, <1>7, <4>2
      <4>3. QED
        BY <4>1, <4>2
    <3>2. ASSUME NEW r \in 0..(FP_MAX - 1) PROVE new.fp[r] \in Values
      <4>1. CASE FpWordFor(ty, r) = {}
        BY <1>1, <1>5, <4>1
      <4>2. CASE FpWordFor(ty, r) # {}
        BY <1>5, <1>7, <4>2
      <4>3. QED
        BY <4>1, <4>2
    <3>3. QED
      BY <3>1, <3>2
  <2>2. QED
    BY <1>5, <2>1 DEF RegFiles
<1>9. \A r \in 0..(next.gp - 1) : new.gp[r] = rs.gp[r]
  <2>1. TAKE r \in 0..(next.gp - 1)
  <2>2. GpWordFor(ty, r) = {} /\ r \in 0..(GP_MAX - 1)
    BY <1>1, <1>3 DEF GpWordFor
  <2>3. QED
    BY <1>5, <2>2
<1>10. \A r \in 0..(next.fp - 1) : new.fp[r] = rs.fp[r]
  <2>1. TAKE r \in 0..(next.fp - 1)
  <2>2. FpWordFor(ty, r) = {} /\ r \in 0..(FP_MAX - 1)
    BY <1>1, <1>3 DEF FpWordFor
  <2>3. QED
    BY <1>5, <2>2
<1>11. \A w \in 1..ty.words :
         IF InFp(ty, w) THEN new.fp[next.fp + Before(ty, w)] = vs[w]
         ELSE new.gp[next.gp + Before(ty, w)] = vs[w]
  <2>1. TAKE w \in 1..ty.words
  <2>2. (CHOOSE v \in {w} : TRUE) = w
    OBVIOUS
  <2>3. CASE InFp(ty, w)
    <3>1. RegOf(ty, w) \in 0..(FP_MAX - 1) /\ FpWordFor(ty, RegOf(ty, w)) = {w}
      BY <1>1, <1>3, <1>6, <2>3
    <3>2. new.fp[RegOf(ty, w)] = vs[w]
      BY <1>5, <2>2, <3>1
    <3>3. QED
      BY <1>2, <2>3, <3>2
  <2>4. CASE ~InFp(ty, w)
    <3>1. RegOf(ty, w) \in 0..(GP_MAX - 1) /\ GpWordFor(ty, RegOf(ty, w)) = {w}
      BY <1>1, <1>3, <1>6, <2>4
    <3>2. new.gp[RegOf(ty, w)] = vs[w]
      BY <1>5, <2>2, <3>1
    <3>3. QED
      BY <1>2, <2>4, <3>2
  <2>5. QED
    BY <2>3, <2>4
<1>12. QED
  BY <1>8, <1>9, <1>10, <1>11 DEF new

----------------------------------------------------------------------------
(* The counts                                                              *)

\* What the counts say about an argument that has been placed.
LEMMA ChainFacts ==
  ASSUME Typed, NEW cs, Chain(cs), NEW a \in 1..Len(place)
  PROVE  /\ Type(a) \in Descriptors /\ a \in Args /\ Arg(a).shape \in Shapes
         /\ cs[a] \in Counts /\ cs[a + 1] \in Counts
         /\ place[a] \in Places
         /\ place[a] = PlaceOf(Type(a), cs[a]) /\ cs[a + 1] = Counted(Type(a), cs[a])
         /\ ~place[a].pass_by_stack =>
              /\ Type(a).words <= 2
              /\ Used(cs[a]).gp + GpWords(Type(a)) <= GP_MAX
              /\ Used(cs[a]).fp + FpWords(Type(a)) <= FP_MAX
              /\ Used(cs[a + 1]) = [gp |-> Used(cs[a]).gp + GpWords(Type(a)), fp |-> Used(cs[a]).fp + FpWords(Type(a))]
         /\ place[a].pass_by_stack => Used(cs[a + 1]) = Used(cs[a])
<1>1. call.args \in Seq([ty : Descriptors, shape : Shapes]) /\ a \in 1..Len(call.args)
  BY DEF Typed
<1>2. call.args[a] \in [ty : Descriptors, shape : Shapes]
  BY <1>1, ElementOfSeq
<1>3. Type(a) \in Descriptors /\ a \in Args /\ Arg(a).shape \in Shapes
  BY <1>1, <1>2 DEF Type, Args, Arg
<1>4. cs \in Seq(Counts) /\ a \in 1..Len(cs) /\ a + 1 \in 1..Len(cs)
  BY DEF Chain, Typed
<1>5. cs[a] \in Counts /\ cs[a + 1] \in Counts
  BY <1>4, ElementOfSeq
<1>6. place[a] = PlaceOf(Type(a), cs[a]) /\ cs[a + 1] = Counted(Type(a), cs[a])
  BY DEF Chain
<1>7. PlaceOf(Type(a), cs[a]) \in Places
  BY <1>3, <1>5, CountedType
<1>8. QED
  BY <1>3, <1>5, <1>6, <1>7, UsedCounted

\* The used registers only grow with the counts, from those of the result's address on.
LEMMA UsedGrows ==
  ASSUME Typed, NEW cs, Chain(cs), NEW a \in 1..Len(cs), NEW b \in 1..Len(cs), a <= b
  PROVE  /\ Used(cs[a]) \in [gp : 0..GP_MAX, fp : 0..FP_MAX]
         /\ Used(cs[b]) \in [gp : 0..GP_MAX, fp : 0..FP_MAX]
         /\ NextReg.gp \in Nat /\ NextReg.gp <= Used(cs[a]).gp
         /\ Used(cs[a]).gp <= Used(cs[b]).gp /\ Used(cs[a]).fp <= Used(cs[b]).fp
<1>1. cs \in Seq(Counts) /\ 1 \in 1..Len(cs) /\ Len(cs) \in Nat
  BY DEF Chain
<1>2. cs[1] \in Counts /\ cs[a] \in Counts /\ cs[b] \in Counts
  BY <1>1, ElementOfSeq
<1>3. cs[1].gp <= cs[a].gp /\ cs[a].gp <= cs[b].gp /\ cs[a].fp <= cs[b].fp
  BY <1>1 DEF Chain
<1>4. cs[1].gp = NextReg.gp /\ NextReg.gp \in {0, 1}
  BY DEF Chain, NewCount, NextReg
<1>5. GP_MAX \in Nat \ {0} /\ FP_MAX \in Nat \ {0}
  BY RegisterAssumption
<1>6. \A x, y, m \in Nat : /\ Smaller(x, m) \in 0..m
                           /\ x <= y => Smaller(x, m) <= Smaller(y, m)
  BY DEF Smaller
<1>7. \A x, y \in Nat, m \in Nat \ {0} : x <= y /\ x \in {0, 1} => x <= Smaller(y, m)
  BY DEF Smaller
<1>8. /\ cs[a].gp \in Nat /\ cs[a].fp \in Nat /\ cs[b].gp \in Nat /\ cs[b].fp \in Nat
  BY <1>2 DEF Counts
<1>9. \A c : Used(c) = [gp |-> Smaller(c.gp, GP_MAX), fp |-> Smaller(c.fp, FP_MAX)]
  BY DEF Used
<1>10. NextReg.gp <= Smaller(cs[a].gp, GP_MAX)
  BY <1>3, <1>4, <1>5, <1>7, <1>8
<1>11. /\ Smaller(cs[a].gp, GP_MAX) \in 0..GP_MAX /\ Smaller(cs[b].gp, GP_MAX) \in 0..GP_MAX
       /\ Smaller(cs[a].fp, FP_MAX) \in 0..FP_MAX /\ Smaller(cs[b].fp, FP_MAX) \in 0..FP_MAX
       /\ Smaller(cs[a].gp, GP_MAX) <= Smaller(cs[b].gp, GP_MAX)
       /\ Smaller(cs[a].fp, FP_MAX) <= Smaller(cs[b].fp, FP_MAX)
  BY <1>3, <1>5, <1>6, <1>8
<1>12. NextReg.gp \in Nat
  BY <1>4
<1>13. QED
  BY <1>9, <1>10, <1>11, <1>12

\* An argument stays in its registers while only the registers after it are written.
LEMMA InRegsStable ==
  ASSUME Typed, NEW cs, Chain(cs), NEW a \in 1..Len(place), ~place[a].pass_by_stack,
         NEW b \in (a + 1)..Len(cs), NEW rs, NEW new, InRegs(rs, Used(cs[a]), a, Type(a)),
         \A r \in NextReg.gp..(Used(cs[b]).gp - 1) : new.gp[r] = rs.gp[r],
         \A r \in 0..(Used(cs[b]).fp - 1) : new.fp[r] = rs.fp[r]
  PROVE  InRegs(new, Used(cs[a]), a, Type(a))
<1>1. SUFFICES ASSUME NEW w \in 1..Type(a).words
               PROVE  IF InFp(Type(a), w) THEN new.fp[Used(cs[a]).fp + Before(Type(a), w)] = Word(a, w)
                      ELSE new.gp[Used(cs[a]).gp + Before(Type(a), w)] = Word(a, w)
  BY DEF InRegs
<1>2. /\ Type(a) \in Descriptors /\ Type(a).words <= 2
      /\ Used(cs[a + 1]).gp = Used(cs[a]).gp + GpWords(Type(a))
      /\ Used(cs[a + 1]).fp = Used(cs[a]).fp + FpWords(Type(a))
  <2>1. /\ Type(a) \in Descriptors /\ Type(a).words <= 2
        /\ Used(cs[a + 1]) = [gp |-> Used(cs[a]).gp + GpWords(Type(a)), fp |-> Used(cs[a]).fp + FpWords(Type(a))]
    BY ChainFacts
  <2>2. QED
    BY <2>1
<1>3. a \in 1..Len(cs) /\ a + 1 \in 1..Len(cs) /\ b \in 1..Len(cs) /\ a + 1 <= b
  <2>1. Len(place) \in Nat /\ Len(cs) = Len(place) + 1
    BY DEF Chain, Typed
  <2>2. QED
    BY <2>1
<1>4. /\ Used(cs[a + 1]).gp <= Used(cs[b]).gp /\ Used(cs[a + 1]).fp <= Used(cs[b]).fp
      /\ Used(cs[b]).gp \in Nat /\ Used(cs[b]).fp \in Nat
      /\ Used(cs[a + 1]).gp \in Nat /\ Used(cs[a + 1]).fp \in Nat
  BY <1>3, UsedGrows
<1>5. NextReg.gp \in Nat /\ NextReg.gp <= Used(cs[a]).gp /\ Used(cs[a]).gp \in Nat /\ Used(cs[a]).fp \in Nat
  BY <1>3, UsedGrows, SMTT(30)
<1>6. /\ Before(Type(a), w) \in Nat /\ FpWords(Type(a)) \in Nat /\ GpWords(Type(a)) \in Nat
      /\ InFp(Type(a), w) => Before(Type(a), w) < FpWords(Type(a))
      /\ ~InFp(Type(a), w) => Before(Type(a), w) < GpWords(Type(a))
  BY <1>2, RegWords, WordsType
<1>7. CASE InFp(Type(a), w)
  <2> DEFINE u == Used(cs[a]).fp
             v == Used(cs[b]).fp
             k == Before(Type(a), w)
             n == FpWords(Type(a))
  <2>1. u \in Nat /\ v \in Nat /\ k \in Nat /\ n \in Nat /\ k < n /\ u + n <= v
    BY <1>2, <1>4, <1>5, <1>6, <1>7
  <2>2. rs.fp[u + k] = Word(a, w)
    BY <1>7 DEF InRegs
  <2>3. \A r \in 0..(v - 1) : new.fp[r] = rs.fp[r]
    OBVIOUS
  <2> HIDE DEF u, v, k, n
  <2>4. new.fp[u + k] = Word(a, w)
    BY <2>1, <2>2, <2>3
  <2>5. QED
    BY <1>7, <2>4 DEF u, k
<1>8. CASE ~InFp(Type(a), w)
  <2> DEFINE u == Used(cs[a]).gp
             v == Used(cs[b]).gp
             k == Before(Type(a), w)
             n == GpWords(Type(a))
             m == NextReg.gp
  <2>1. u \in Nat /\ v \in Nat /\ k \in Nat /\ n \in Nat /\ k < n /\ u + n <= v /\ m \in Nat /\ m <= u
    BY <1>2, <1>4, <1>5, <1>6, <1>8
  <2>2. rs.gp[u + k] = Word(a, w)
    BY <1>8 DEF InRegs
  <2>3. \A r \in m..(v - 1) : new.gp[r] = rs.gp[r]
    OBVIOUS
  <2> HIDE DEF u, v, k, n, m
  <2>4. new.gp[u + k] = Word(a, w)
    BY <2>1, <2>2, <2>3
  <2>5. QED
    BY <1>8, <2>4 DEF u, k
<1>9. QED
  BY <1>7, <1>8

----------------------------------------------------------------------------
(* The steps                                                               *)

\* What depends on the call and the places alone.
LEMMA Same ==
  ASSUME UNCHANGED <<call, place>>
  PROVE  /\ Args' = Args /\ NextReg' = NextReg
         /\ \A a : Type(a)' = Type(a)
         /\ \A a : (FromHome(a)' <=> FromHome(a)) /\ (FirstInReg(a)' <=> FirstInReg(a))
         /\ \A cs : Chain(cs)' <=> Chain(cs)
         /\ \A cs : cs[1] = NewCount => cs[1] = NewCount'
<1>1. Args' = Args /\ NextReg' = NextReg /\ NewCount' = NewCount /\ \A a : Type(a)' = Type(a) /\ Arg(a)' = Arg(a)
  BY DEF Args, NextReg, NewCount, Type, Arg
<1>2. \A a : FirstInReg(a)' <=> FirstInReg(a)
  BY DEF FirstInReg
<1>3. \A a : FromHome(a)' <=> FromHome(a)
  BY <1>1, <1>2 DEF FromHome, Direct, ComputedLast
<1>4. \A cs : Chain(cs)' <=> Chain(cs)
  BY <1>1 DEF Chain
<1>5. QED
  BY <1>1, <1>2, <1>3, <1>4

LEMMA BeginsIdle ==
  ASSUME CallInit
  PROVE  CallInv
<1> DEFINE cs == <<count>>
<1>1. /\ count \in Counts /\ count = NewCount
      /\ call.args = <<>> /\ call.named = 0 /\ place = <<>> /\ homed = {} /\ param = <<>> /\ local = <<>> /\ pc = "idle" /\ i = 0
  BY DEF CallInit, Idle, Counts, NewCount
<1>2. cs \in Seq(Counts) /\ Len(cs) = 1 /\ cs[1] = count
  BY <1>1
<1>3. Clobbered \in RegFiles
  <2>1. Junk \in Values
    BY DEF Junk, Values
  <2>2. QED
    BY <2>1 DEF Clobbered, RegFiles
<1>4. Typed
  BY <1>1, <1>3, RegisterAssumption
  DEF CallInit, Idle, Typed, Phases, Calling, Args, NoVa, Places
<1>5. Chain(cs)
  <2>1. count.gp \in Nat /\ count.fp \in Nat /\ count.stack \in Nat
    BY <1>1 DEF Counts
  <2>2. QED
    BY <1>1, <1>2, <2>1 DEF Chain
<1>6. Counting(cs) /\ Agreed /\ HomesHeld /\ StackHeld /\ RegsHeld(cs) /\ Received
  BY <1>1, <1>2 DEF Counting, Calling, Agreed, HomesHeld, StackHeld, RegsHeld, Received
<1>7. QED
  BY <1>4, <1>5, <1>6 DEF CallInv, Run

LEMMA FuncallStep ==
  ASSUME Typed, NEW cs, Run(cs), funcall
  PROVE  Typed' /\ \E ds : Run(ds)'
<1>1. PICK n \in 0..MaxArgs :
        \E args \in [1..n -> Expressions], named \in 0..n, rtn, optimize \in BOOLEAN, top \in Tops :
          /\ call' = [args |-> args, named |-> named, rtn_by_stk |-> rtn, optimize |-> optimize]
          /\ rsp' = top
  BY DEF funcall
<1>2. PICK args \in [1..n -> Expressions], named \in 0..n, rtn \in BOOLEAN, optimize \in BOOLEAN, top \in Tops :
        /\ call' = [args |-> args, named |-> named, rtn_by_stk |-> rtn, optimize |-> optimize]
        /\ rsp' = top
  BY <1>1
<1>3. /\ pc = "idle" /\ pc' = "classify" /\ i' = 1 /\ place = <<>> /\ param = <<>> /\ local = <<>>
      /\ UNCHANGED <<types, place, param, homed, home, next, regs, stack, saved, rbp, local, va, got>>
      /\ count' = NewCount'
  BY DEF funcall, Run, Counting, Calling, NewCount
<1>4. args \in Seq([ty : Descriptors, shape : Shapes]) /\ Len(args) = n /\ n \in Nat
  <2>1. Expressions \subseteq [ty : Descriptors, shape : Shapes]
    BY DEF Typed, Expressions
  <2>2. n \in Nat /\ args \in [1..n -> [ty : Descriptors, shape : Shapes]]
    BY <2>1, BoundAssumption
  <2>3. \A S : \A m \in Nat : [1..m -> S] \subseteq Seq(S)
    BY SeqDef
  <2>4. args \in Seq([ty : Descriptors, shape : Shapes])
    BY <2>2, <2>3
  <2>5. DOMAIN args = 1..n /\ DOMAIN args = 1..Len(args) /\ Len(args) \in Nat
    BY <2>2, <2>4, LenProperties
  <2>6. QED
    BY <2>2, <2>4, <2>5
<1>5. count' \in Counts
  BY <1>3 DEF NewCount, Counts
<1>6. rsp' \in Int
  BY <1>2, TopAssumption
<1>7. homed' \subseteq Args'
  BY <1>3 DEF Run, Counting
<1>8. Typed'
  BY <1>2, <1>3, <1>4, <1>5, <1>6, <1>7 DEF Typed, Phases, Calling
<1>9. PICK ds : ds \in Seq(Counts) /\ Len(ds) = 1 /\ ds[1] = count'
  <2>1. <<count'>> \in Seq(Counts) /\ Len(<<count'>>) = 1 /\ <<count'>>[1] = count'
    BY <1>5
  <2>2. QED
    BY <2>1
<1>10. Chain(ds)'
  <2>1. count'.gp \in Nat /\ count'.fp \in Nat /\ count'.stack \in Nat
    BY <1>5 DEF Counts
  <2>2. QED
    BY <1>3, <1>9, <2>1 DEF Chain
<1>11. Counting(ds)' /\ Agreed' /\ HomesHeld' /\ StackHeld' /\ RegsHeld(ds)' /\ Received'
  BY <1>3, <1>9 DEF Counting, Calling, Agreed, HomesHeld, StackHeld, RegsHeld, Received
<1>12. QED
  BY <1>8, <1>10, <1>11 DEF Run

LEMMA ClassifyArgStep ==
  ASSUME Typed, NEW cs, Run(cs), ClassifyArg
  PROVE  Typed' /\ \E ds : Run(ds)'
<1>1. /\ i \in Args /\ i = Len(place) + 1 /\ count = cs[i] /\ Len(cs) = i /\ i \in 1..Len(call.args)
      /\ cs \in Seq(Counts) /\ count \in Counts /\ place \in Seq(Places) /\ param = <<>> /\ local = <<>>
      /\ pc = "classify"
  BY DEF ClassifyArg, Run, Counting, Calling, Chain, Typed, Args
<1>2. Type(i) \in Descriptors
  <2>1. call.args[i] \in [ty : Descriptors, shape : Shapes]
    BY <1>1, ElementOfSeq DEF Typed
  <2>2. QED
    BY <2>1 DEF Type
<1>3. PICK c \in Counts : c = Counted(Type(i), count)
  BY <1>1, <1>2, CountedType
<1>4. PICK p \in Places : p = PlaceOf(Type(i), count)
  BY <1>1, <1>2, CountedType
<1>5. /\ place' = Append(place, p) /\ count' = c /\ i' = i + 1
      /\ UNCHANGED <<types, call, pc, param, homed, home, next, regs, stack, rsp, saved, rbp, local, va, got>>
  BY <1>3, <1>4 DEF ClassifyArg
<1>6. c.gp >= count.gp /\ c.fp >= count.fp /\ c.stack >= count.stack
  BY <1>1, <1>2, <1>3, CountedType
<1>7. PICK ds : ds = Append(cs, c)
  OBVIOUS
<1>8. /\ place' \in Seq(Places) /\ Len(place') = i
      /\ \A a \in 1..(i - 1) : place'[a] = place[a]
      /\ place'[i] = p
  BY <1>1, <1>4, <1>5, AppendProperties
<1>9. /\ ds \in Seq(Counts) /\ Len(ds) = i + 1
      /\ \A a \in 1..i : ds[a] = cs[a]
      /\ ds[i + 1] = c
  BY <1>1, <1>3, <1>7, AppendProperties
<1>10. Args' = Args /\ NewCount' = NewCount /\ \A a : Type(a)' = Type(a)
  BY <1>5 DEF Args, NewCount, Type
<1>11. Typed'
  BY <1>1, <1>5, <1>8, <1>10 DEF Typed
<1>12. Chain(ds)'
  <2>1. ds[1] = NewCount'
    BY <1>1, <1>9, <1>10 DEF Run, Chain
  <2>2. ASSUME NEW a \in 1..i
        PROVE  place'[a] = PlaceOf(Type(a), ds[a]) /\ ds[a + 1] = Counted(Type(a), ds[a])
    <3>1. CASE a = i
      BY <1>1, <1>3, <1>4, <1>8, <1>9, <3>1
    <3>2. CASE a # i
      <4>1. a \in 1..(i - 1) /\ a \in 1..Len(place) /\ a \in 1..i /\ a + 1 \in 1..i
        BY <1>1, <3>2
      <4>2. QED
        BY <1>8, <1>9, <4>1 DEF Run, Chain
    <3>3. QED
      BY <3>1, <3>2
  <2>3. ASSUME NEW a \in 1..(i + 1), NEW b \in 1..(i + 1), a <= b
        PROVE  ds[a].gp <= ds[b].gp /\ ds[a].fp <= ds[b].fp /\ ds[a].stack <= ds[b].stack
    <3>1. \A k \in 1..(i + 1) : ds[k].gp \in Nat /\ ds[k].fp \in Nat /\ ds[k].stack \in Nat
      <4>1. \A k \in 1..(i + 1) : ds[k] \in Counts
        BY <1>9, ElementOfSeq
      <4>2. QED
        BY <4>1 DEF Counts
    <3>2. CASE b # i + 1
      <4>1. i \in Nat /\ a \in 1..i /\ b \in 1..i /\ ds[a] = cs[a] /\ ds[b] = cs[b]
        BY <1>1, <1>9, <2>3, <3>2
      <4>2. QED
        BY <1>1, <2>3, <4>1 DEF Run, Chain
    <3>3. CASE b = i + 1 /\ a = i + 1
      BY <3>1, <3>3
    <3>4. CASE b = i + 1 /\ a # i + 1
      <4>1. cs[a].gp <= cs[i].gp /\ cs[a].fp <= cs[i].fp /\ cs[a].stack <= cs[i].stack
        BY <1>1, <3>4 DEF Run, Chain
      <4>2. /\ ds[a] = cs[a] /\ ds[i] = cs[i] /\ ds[b] = c /\ cs[i] = count
            /\ i \in 1..(i + 1)
        BY <1>1, <1>9, <3>4
      <4>3. QED
        BY <1>6, <3>1, <4>1, <4>2
    <3>5. QED
      BY <3>2, <3>3, <3>4
  <2>4. QED
    BY <1>8, <1>9, <1>10, <2>1, <2>2, <2>3 DEF Chain
<1>13. Counting(ds)'
  BY <1>1, <1>5, <1>8, <1>9 DEF Counting, Calling, Run
<1>14. Agreed' /\ HomesHeld' /\ StackHeld' /\ RegsHeld(ds)' /\ Received'
  BY <1>1, <1>5 DEF Agreed, HomesHeld, StackHeld, RegsHeld, Received
<1>15. QED
  BY <1>11, <1>12, <1>13, <1>14 DEF Run

NoRedeclaration == "redeclared" \notin Shapes

LEMMA PrepareStep ==
  ASSUME NoRedeclaration, Typed, NEW cs, Run(cs), prepare_funcall
  PROVE  Typed' /\ Run(cs)'
<1>1. /\ pc = "classify" /\ pc' = "begin" /\ i \notin Args /\ i = Len(place) + 1 /\ param = <<>> /\ local = <<>>
      /\ UNCHANGED <<types, call, i, count, place, param, next, regs, stack, rsp, saved, rbp, local, va, got>>
  BY DEF prepare_funcall, Run, Counting, Calling
<1>2. Len(place) = Len(call.args)
  BY <1>1 DEF Args, Typed
<1>3. Args' = Args /\ (\A a : Type(a)' = Type(a)) /\ (\A a : FromHome(a)' <=> FromHome(a)) /\ Chain(cs)'
  BY <1>1, Same DEF Run
<1>4. homed' = {a \in Args : ~place[a].pass_by_stack /\ FromHome(a)}
  <2>1. \A a \in Args : Direct(a, "parse") <=> Direct(a, "codegen")
    <3>1. TAKE a \in Args
    <3>2. Arg(a).shape \in Shapes
      BY <1>2, ChainFacts DEF Args, Run
    <3>3. Arg(a).shape # "redeclared"
      BY <3>2 DEF NoRedeclaration
    <3>4. QED
      BY <3>3 DEF Direct
  <2>2. QED
    BY <2>1 DEF prepare_funcall, FromHome
<1>5. homed' \subseteq Args
  BY <1>4
<1>6. Typed'
  BY <1>1, <1>3, <1>5 DEF Typed, Phases, Calling
<1>7. Counting(cs)'
  BY <1>1, <1>2 DEF Counting, Calling, Run
<1>8. Agreed'
  BY <1>1, <1>3, <1>4 DEF Agreed, Run
<1>9. HomesHeld'
  <2>1. \A a \in Args : home'[a] = [w \in 1..Type(a).words |-> Junk]
    BY DEF prepare_funcall
  <2>2. DOMAIN home' = Args
    BY DEF prepare_funcall
  <2>3. Junk \in Values
    BY DEF Junk, Values
  <2>4. QED
    BY <1>1, <1>3, <2>1, <2>2, <2>3 DEF HomesHeld
<1>10. StackHeld' /\ RegsHeld(cs)' /\ Received'
  BY <1>1 DEF StackHeld, RegsHeld, Received
<1>11. QED
  BY <1>3, <1>6, <1>7, <1>8, <1>9, <1>10 DEF Run

LEMMA GenFuncallStep ==
  ASSUME Typed, NEW cs, Run(cs), gen_funcall
  PROVE  Typed' /\ Run(cs)'
<1>1. /\ pc = "begin" /\ pc' = "spill" /\ i' = 1 /\ param = <<>> /\ local = <<>>
      /\ saved' = [rsp |-> rsp, size |-> count.stack, align |-> count.align]
      /\ UNCHANGED <<types, call, count, place, param, homed, home, next, regs, stack, rbp, local, va, got>>
  BY DEF gen_funcall, Run, Counting, Calling
<1>2. Args' = Args /\ (\A a : Type(a)' = Type(a)) /\ (\A a : FromHome(a)' <=> FromHome(a)) /\ Chain(cs)'
  BY <1>1, Same DEF Run
<1>3. count.stack \in Nat /\ count.align \in Nat \ {0} /\ rsp \in Int
  BY DEF Typed, Counts
<1>4. rsp' \in Int
  <2>1. AlignDown(rsp - count.stack, count.align) \in Int
    BY <1>3, AlignIntType
  <2>2. AlignTo(count.stack, 2) \in Nat
    BY <1>3, AlignToType
  <2>3. QED
    BY <1>3, <2>1, <2>2 DEF gen_funcall
<1>5. Typed'
  BY SMTT(30), <1>1, <1>2, <1>3, <1>4 DEF Typed, Phases, Calling
<1>6. Counting(cs)'
  BY <1>1 DEF Counting, Calling, Run
<1>7. Agreed'
  BY <1>1, <1>2 DEF Agreed, Run
<1>8. HomesHeld'
  <2>1. \A a \in homed' : ~(a < i')
    BY <1>1 DEF Typed, Args
  <2>2. QED
    BY <1>1, <1>2, <2>1 DEF HomesHeld, Run
<1>9. StackHeld' /\ RegsHeld(cs)' /\ Received'
  BY <1>1 DEF StackHeld, RegsHeld, Received
<1>10. QED
  BY <1>2, <1>5, <1>6, <1>7, <1>8, <1>9 DEF Run

\* Of two arguments on the stack the later lies above the earlier.
LEMMA StackOrder ==
  ASSUME Typed, NEW cs, Chain(cs), NEW a \in 1..Len(place), NEW b \in 1..Len(place), a < b,
         place[a].pass_by_stack, place[b].pass_by_stack
  PROVE  /\ place[a].stack_offset \in Nat /\ place[b].stack_offset \in Nat /\ Type(a).words \in Nat
         /\ place[a].stack_offset + Type(a).words <= place[b].stack_offset
<1>1. /\ cs[a + 1].stack = place[a].stack_offset + Type(a).words
      /\ place[b].stack_offset >= cs[b].stack
      /\ place[a] \in Places /\ place[b] \in Places /\ Type(a) \in Descriptors
      /\ cs[b] \in Counts /\ cs[a + 1] \in Counts
  <2>1. /\ Type(a) \in Descriptors /\ cs[a] \in Counts /\ cs[a + 1] \in Counts /\ place[a] \in Places
        /\ place[a] = PlaceOf(Type(a), cs[a]) /\ cs[a + 1] = Counted(Type(a), cs[a])
    BY ChainFacts
  <2>2. /\ Type(b) \in Descriptors /\ cs[b] \in Counts /\ place[b] \in Places
        /\ place[b] = PlaceOf(Type(b), cs[b])
    BY ChainFacts
  <2>3. QED
    BY <2>1, <2>2, CountedType
<1>2. a + 1 \in 1..Len(cs) /\ b \in 1..Len(cs) /\ a + 1 <= b
  BY DEF Chain, Typed
<1>3. cs[a + 1].stack <= cs[b].stack
  BY <1>2 DEF Chain
<1>4. /\ place[a].stack_offset \in Nat /\ place[b].stack_offset \in Nat /\ Type(a).words \in Nat
      /\ cs[b].stack \in Nat /\ cs[a + 1].stack \in Nat
  BY <1>1, WordsType DEF Places, Counts
<1>5. QED
  BY <1>1, <1>3, <1>4

LEMMA WordsAreValues ==
  ASSUME NEW a \in Nat, NEW ty
  PROVE  Words(a, ty) \in [1..ty.words -> Values]
<1>1. \A w \in 1..ty.words : Word(a, w) \in Values
  BY DEF Word, Values
<1>2. QED
  BY <1>1 DEF Words

Written(st, off, words, n) ==
  [x \in DOMAIN st \cup {off + w - 1 : w \in 1..n} |->
     IF x - off + 1 \in 1..n THEN words[x - off + 1] ELSE st[x]]

\* Words written above others leave those where they are.
LEMMA WriteStack ==
  ASSUME NEW st, NEW off \in Int, NEW words, NEW n \in Nat, DOMAIN words = 1..n
  PROVE  LET st2 == Written(st, off, words, n)
         IN /\ Holds(st2, off, words)
            /\ \A at \in Int, m \in Nat : \A others :
                 DOMAIN others = 1..m /\ at + m <= off /\ Holds(st, at, others) => Holds(st2, at, others)
<1> DEFINE st2 == Written(st, off, words, n)
<1>1. ASSUME NEW w \in 1..n
      PROVE  off + w - 1 \in DOMAIN st2 /\ st2[off + w - 1] = words[w]
  <2>1. off + w - 1 \in DOMAIN st2 /\ (off + w - 1) - off + 1 = w
    BY DEF Written
  <2>2. QED
    BY <2>1 DEF Written
<1>2. Holds(st2, off, words)
  BY <1>1 DEF Holds
<1>3. ASSUME NEW at \in Int, NEW m \in Nat, NEW others, DOMAIN others = 1..m, at + m <= off, Holds(st, at, others)
      PROVE  Holds(st2, at, others)
  <2>1. SUFFICES ASSUME NEW w \in 1..m
                 PROVE  at + w - 1 \in DOMAIN st2 /\ st2[at + w - 1] = others[w]
    BY <1>3 DEF Holds
  <2>2. at + w - 1 \in DOMAIN st /\ st[at + w - 1] = others[w]
    BY <1>3 DEF Holds
  <2>3. (at + w - 1) - off + 1 \notin 1..n
    BY <1>3
  <2>4. QED
    BY <2>2, <2>3 DEF Written
<1>4. QED
  BY <1>2, <1>3

LEMMA SpillArgStep ==
  ASSUME Typed, NEW cs, Run(cs), SpillArg
  PROVE  Typed' /\ Run(cs)'
<1>1. /\ pc = "spill" /\ i \in Args /\ i' = i + 1 /\ i \in 1..Len(place) /\ i \in Nat
      /\ place[i].pass_by_stack \/ i \in homed
      /\ regs' = Clobbered /\ param = <<>> /\ local = <<>>
      /\ UNCHANGED <<types, call, pc, count, place, param, homed, next, rsp, saved, rbp, local, va, got>>
  BY DEF SpillArg, Run, Counting, Calling, Args
<1>2. Args' = Args /\ (\A a : Type(a)' = Type(a)) /\ (\A a : FromHome(a)' <=> FromHome(a)) /\ Chain(cs)'
  BY <1>1, Same DEF Run
<1>3. regs' \in RegFiles
  <2>1. Junk \in Values
    BY DEF Junk, Values
  <2>2. QED
    BY <1>1, <2>1 DEF Clobbered, RegFiles
<1>4. Typed'
  BY <1>1, <1>2, <1>3 DEF Typed, Args
<1>5. Counting(cs)'
  BY <1>1 DEF Counting, Calling, Run, Typed
<1>6. Agreed'
  BY <1>1, <1>2 DEF Agreed, Run
<1>7. ASSUME place[i].pass_by_stack PROVE StackHeld' /\ HomesHeld'
  <2> DEFINE off == rsp + place[i].stack_offset
  <2>1. /\ UNCHANGED home
        /\ stack' = Written(stack, off, Words(i, Type(i)), Type(i).words)
    BY <1>7 DEF SpillArg, Words, Written
  <2>2. rsp \in Int /\ off \in Int /\ Type(i).words \in Nat
    <3>1. place[i] \in Places /\ Type(i) \in Descriptors
      BY <1>1, ChainFacts DEF Run
    <3>2. rsp \in Int /\ place[i].stack_offset \in Nat /\ Type(i).words \in Nat
      BY <3>1, WordsType DEF Typed, Places
    <3>3. QED
      BY <3>2
  <2>3. \A a : DOMAIN Words(a, Type(a)) = 1..Type(a).words
    BY DEF Words
  <2> HIDE DEF off
  <2>4. /\ Holds(stack', off, Words(i, Type(i)))
        /\ \A at \in Int, m \in Nat : \A others :
             DOMAIN others = 1..m /\ at + m <= off /\ Holds(stack, at, others) => Holds(stack', at, others)
    BY <2>1, <2>2, <2>3, WriteStack
  <2>5. ASSUME NEW a \in 1..(i - 1), place[a].pass_by_stack
        PROVE  Holds(stack', rsp + place[a].stack_offset, Words(a, Type(a)))
    <3>1. /\ place[a].stack_offset \in Nat /\ place[i].stack_offset \in Nat /\ Type(a).words \in Nat
          /\ place[a].stack_offset + Type(a).words <= place[i].stack_offset
      <4>1. a \in 1..Len(place) /\ a < i
        BY <1>1
      <4>2. QED
        BY <1>1, <1>7, <2>5, <4>1, StackOrder DEF Run
    <3>2. Holds(stack, rsp + place[a].stack_offset, Words(a, Type(a)))
      BY <1>1, <2>5 DEF Run, StackHeld, OnStack
    <3>3. rsp + place[a].stack_offset \in Int /\ rsp + place[a].stack_offset + Type(a).words <= off
      BY <2>2, <3>1 DEF off
    <3>4. QED
      BY <2>3, <2>4, <3>1, <3>2, <3>3
  <2>6. StackHeld'
    <3>1. \A a \in 1..i : place[a].pass_by_stack => Holds(stack', rsp + place[a].stack_offset, Words(a, Type(a)))
      <4>1. \A a \in 1..i : a = i \/ a \in 1..(i - 1)
        BY <1>1
      <4>2. QED
        BY <2>4, <2>5, <4>1 DEF off
    <3>2. \A a : Words(a, Type(a))' = Words(a, Type(a))
      BY <1>2 DEF Words
    <3>3. QED
      BY <1>1, <3>1, <3>2 DEF StackHeld, OnStack
  <2>7. HomesHeld'
    <3>1. i \notin homed
      BY <1>1, <1>7 DEF Run, Agreed
    <3>2. \A a \in homed : a < i' => a < i
      BY <1>1, <3>1 DEF Typed, Args
    <3>3. QED
      BY <1>1, <1>2, <2>1, <3>2 DEF Run, HomesHeld
  <2>8. QED
    BY <2>6, <2>7
<1>8. ASSUME ~place[i].pass_by_stack PROVE StackHeld' /\ HomesHeld'
  <2>1. home' = [home EXCEPT ![i] = Words(i, Type(i))] /\ UNCHANGED stack
    BY <1>8 DEF SpillArg
  <2>2. StackHeld'
    <3>1. \A a \in 1..i : place[a].pass_by_stack => OnStack(a)
      BY <1>1, <1>8 DEF Run, StackHeld
    <3>2. \A a : OnStack(a)' <=> OnStack(a)
      BY <1>1, <1>2, <2>1 DEF OnStack, Words
    <3>3. QED
      BY <1>1, <3>1, <3>2 DEF StackHeld
  <2>3. HomesHeld'
    <3>1. DOMAIN home = Args /\ \A a \in Args : home[a] \in [1..Type(a).words -> Values]
      BY <1>1 DEF Run, HomesHeld
    <3>2. DOMAIN home' = Args /\ \A a \in Args : home'[a] \in [1..Type(a).words -> Values]
      BY <1>1, <2>1, <3>1, WordsAreValues
    <3>3. \A a \in homed : a < i + 1 => home'[a] = Words(a, Type(a))
      <4>1. TAKE a \in homed
      <4>2. a \in Args
        BY DEF Typed
      <4>3. CASE a = i
        BY <1>1, <2>1, <3>1, <4>3
      <4>4. CASE a # i /\ a < i + 1
        <5>1. a < i
          BY <1>1, <4>2, <4>4 DEF Args, Typed
        <5>2. QED
          BY <1>1, <2>1, <3>1, <4>2, <4>4, <5>1 DEF Run, HomesHeld
      <4>5. QED
        BY <4>3, <4>4
    <3>4. \A a : Words(a, Type(a))' = Words(a, Type(a))
      BY <1>2 DEF Words
    <3>5. QED
      BY <1>1, <1>2, <3>2, <3>3, <3>4 DEF HomesHeld
  <2>4. QED
    BY <2>2, <2>3
<1>9. RegsHeld(cs)' /\ Received'
  BY <1>1 DEF RegsHeld, Received
<1>10. QED
  BY <1>2, <1>4, <1>5, <1>6, <1>7, <1>8, <1>9 DEF Run

LEMMA SkipSpillStep ==
  ASSUME Typed, NEW cs, Run(cs), SkipSpill
  PROVE  Typed' /\ Run(cs)'
<1>1. /\ pc = "spill" /\ i \in Args /\ i' = i + 1 /\ i \in Nat /\ ~place[i].pass_by_stack /\ i \notin homed
      /\ UNCHANGED <<types, call, pc, count, place, param, homed, home, next, regs, stack, rsp, saved, rbp,
                     local, va, got>>
  BY DEF SkipSpill, Args
<1>2. Args' = Args /\ (\A a : Type(a)' = Type(a)) /\ (\A a : FromHome(a)' <=> FromHome(a)) /\ Chain(cs)'
  BY <1>1, Same DEF Run
<1>3. \A a : Words(a, Type(a))' = Words(a, Type(a)) /\ (OnStack(a)' <=> OnStack(a))
  BY <1>1, <1>2 DEF Words, OnStack, Holds
<1>4. Typed'
  BY SMTT(30), <1>1, <1>2 DEF Typed, Args
<1>5. Counting(cs)'
  BY <1>1 DEF Counting, Calling, Run, Typed
<1>6. Agreed'
  BY <1>1, <1>2 DEF Agreed, Run
<1>7. HomesHeld'
  <2>1. \A a \in homed : a \in Nat /\ a # i
    BY <1>1 DEF Typed, Args
  <2>2. \A a \in homed : a < i + 1 => a < i
    BY <1>1, <2>1
  <2>3. QED
    BY <1>1, <1>2, <1>3, <2>2 DEF HomesHeld, Run
<1>8. StackHeld'
  <2>1. \A a \in 1..i : place[a].pass_by_stack => a \in 1..(i - 1)
    BY <1>1
  <2>2. QED
    BY <1>1, <1>3, <2>1 DEF StackHeld, Run
<1>9. RegsHeld(cs)' /\ Received'
  BY <1>1 DEF RegsHeld, Received
<1>10. QED
  BY <1>2, <1>4, <1>5, <1>6, <1>7, <1>8, <1>9 DEF Run

LEMMA NextRegType == NextReg \in [gp : 0..GP_MAX, fp : 0..FP_MAX] /\ NextReg.gp \in {0, 1} /\ NextReg.fp = 0
  BY RegisterAssumption DEF NextReg

LEMMA UsedFirst ==
  ASSUME NEW cs, Chain(cs)
  PROVE  Used(cs[1]) = NextReg
  BY RegisterAssumption DEF Chain, NewCount, NextReg, Used, Smaller

LEMMA SpilledStep ==
  ASSUME Typed, NEW cs, Run(cs), Spilled
  PROVE  Typed' /\ Run(cs)'
<1>1. /\ pc = "spill" /\ pc' = "load" /\ i \notin Args /\ i' = 1 /\ i >= 1 /\ i \in Nat /\ next' = NextReg
      /\ UNCHANGED <<types, call, count, place, param, homed, home, regs, stack, rsp, saved, rbp, local, va, got>>
  BY DEF Spilled, Run, Counting, Typed
<1>2. Args' = Args /\ (\A a : Type(a)' = Type(a)) /\ (\A a : FromHome(a)' <=> FromHome(a)) /\ Chain(cs)'
      /\ NextReg' = NextReg
  BY <1>1, Same DEF Run
<1>3. \A a : Words(a, Type(a))' = Words(a, Type(a)) /\ (OnStack(a)' <=> OnStack(a))
  BY <1>1, <1>2 DEF Words, OnStack, Holds
<1>4. \A a \in Args : a < i /\ a \in 1..(i - 1)
  BY <1>1 DEF Args, Typed
<1>5. Typed'
  BY SMTT(30), <1>1, <1>2, NextRegType DEF Typed, Phases, Calling
<1>6. Counting(cs)'
  BY <1>1, <1>2, UsedFirst DEF Counting, Calling, Run
<1>7. Agreed'
  BY <1>1, <1>2 DEF Agreed, Run
<1>8. HomesHeld'
  <2>1. \A a \in homed : a < i
    BY <1>4 DEF Typed
  <2>2. QED
    BY <1>1, <1>2, <1>3, <2>1 DEF HomesHeld, Run
<1>9. StackHeld'
  BY <1>1, <1>2, <1>3, <1>4 DEF StackHeld, Run
<1>10. RegsHeld(cs)' /\ Received'
  BY <1>1 DEF RegsHeld, Received
<1>11. QED
  BY <1>2, <1>5, <1>6, <1>7, <1>8, <1>9, <1>10 DEF Run

\* What the load of one argument leaves and puts in the registers.
LEMMA LoadArgRegs ==
  ASSUME Typed, NEW cs, Run(cs), LoadArg
  PROVE  /\ regs' \in RegFiles
         /\ next' = Used(cs[i + 1])
         /\ \A r \in NextReg.gp..(next.gp - 1) : regs'.gp[r] = regs.gp[r]
         /\ \A r \in 0..(next.fp - 1) : regs'.fp[r] = regs.fp[r]
         /\ InRegs(regs', Used(cs[i]), i, Type(i))
<1>1. /\ pc = "load" /\ i \in Args /\ i \in 1..Len(place) /\ i \in 1..Len(cs) /\ ~place[i].pass_by_stack
      /\ next = Used(cs[i])
      /\ FirstInReg(i) => next = NextReg
  BY DEF LoadArg, Run, Counting, Args, Chain
<1>2. /\ Type(i) \in Descriptors /\ Type(i).words <= 2
      /\ next.gp + GpWords(Type(i)) <= GP_MAX /\ next.fp + FpWords(Type(i)) <= FP_MAX
      /\ Used(cs[i + 1]) = [gp |-> next.gp + GpWords(Type(i)), fp |-> next.fp + FpWords(Type(i))]
  BY <1>1, ChainFacts DEF Run
<1> DEFINE vs == IF FromHome(i) THEN home[i] ELSE Words(i, Type(i))
           rs == IF FromHome(i) \/ Direct(i, "codegen") THEN regs ELSE Clobbered
<1>3. vs = Words(i, Type(i)) /\ vs \in [1..Type(i).words -> Values]
  <2>1. FromHome(i) => i \in homed
    BY <1>1 DEF Run, Agreed
  <2>2. FromHome(i) => home[i] = Words(i, Type(i))
    BY <1>1, <2>1 DEF Run, HomesHeld
  <2>3. i \in Nat
    BY <1>1
  <2>4. QED
    BY <2>2, <2>3, WordsAreValues
<1>4. rs \in RegFiles
  <2>1. Junk \in Values
    BY DEF Junk, Values
  <2>2. Clobbered \in RegFiles
    BY <2>1 DEF Clobbered, RegFiles
  <2>3. QED
    BY <2>2 DEF Typed
<1>5. next \in [gp : 0..GP_MAX, fp : 0..FP_MAX]
  BY DEF Typed
<1>6. regs' = place_reg_arg(Type(i), vs, rs) /\ next' = After(Type(i))
  BY DEF LoadArg
<1>7. rs # regs => next = NextReg
  <2>1. SUFFICES ASSUME ~FromHome(i), ~Direct(i, "codegen") PROVE FirstInReg(i)
    BY <1>1
  <2>2. QED
    BY <2>1 DEF FromHome, ComputedLast
<1> HIDE DEF vs, rs
<1>8. /\ regs' \in RegFiles
      /\ \A r \in 0..(next.gp - 1) : regs'.gp[r] = rs.gp[r]
      /\ \A r \in 0..(next.fp - 1) : regs'.fp[r] = rs.fp[r]
      /\ \A w \in 1..Type(i).words :
           IF InFp(Type(i), w) THEN regs'.fp[next.fp + Before(Type(i), w)] = vs[w]
           ELSE regs'.gp[next.gp + Before(Type(i), w)] = vs[w]
  BY <1>2, <1>3, <1>4, <1>5, <1>6, Loaded
<1>9. /\ \A r \in NextReg.gp..(next.gp - 1) : regs'.gp[r] = regs.gp[r]
      /\ \A r \in 0..(next.fp - 1) : regs'.fp[r] = regs.fp[r]
  <2>1. CASE rs = regs
    <3>1. \A r \in NextReg.gp..(next.gp - 1) : r \in 0..(next.gp - 1)
      BY <1>5, NextRegType
    <3>2. QED
      BY <1>8, <2>1, <3>1
  <2>2. CASE rs # regs
    BY <1>7, <2>2, NextRegType
  <2>3. QED
    BY <2>1, <2>2
<1>10. InRegs(regs', Used(cs[i]), i, Type(i))
  <2>1. \A w \in 1..Type(i).words : vs[w] = Word(i, w)
    BY <1>3 DEF Words
  <2>2. QED
    BY <1>1, <1>8, <2>1 DEF InRegs
<1>11. next' = Used(cs[i + 1])
  BY <1>2, <1>6 DEF After
<1>12. QED
  BY <1>8, <1>9, <1>10, <1>11

LEMMA LoadArgStep ==
  ASSUME Typed, NEW cs, Run(cs), LoadArg
  PROVE  Typed' /\ Run(cs)'
<1>1. /\ pc = "load" /\ i \in Args /\ i' = i + 1 /\ i \in Nat /\ ~place[i].pass_by_stack
      /\ i \in 1..Len(place) /\ Len(cs) = Len(place) + 1 /\ next = Used(cs[i])
      /\ UNCHANGED <<types, call, pc, count, place, param, homed, home, stack, rsp, saved, rbp, local, va, got>>
  BY DEF LoadArg, Args, Run, Counting, Chain
<1>2. Args' = Args /\ (\A a : Type(a)' = Type(a)) /\ (\A a : FromHome(a)' <=> FromHome(a)) /\ Chain(cs)'
      /\ NextReg' = NextReg
  BY <1>1, Same DEF Run
<1>3. \A a : Words(a, Type(a))' = Words(a, Type(a)) /\ (OnStack(a)' <=> OnStack(a))
  BY <1>1, <1>2 DEF Words, OnStack, Holds
<1>4. Used(cs[i + 1]) \in [gp : 0..GP_MAX, fp : 0..FP_MAX]
  <2>1. i + 1 \in 1..Len(cs)
    BY <1>1
  <2>2. QED
    BY <2>1, UsedGrows DEF Run
<1>13. next' = Used(cs[i + 1]) /\ regs' \in RegFiles
  BY LoadArgRegs
<1>5. Typed'
  <2>1. i' \in 0..(Len(call.args) + 1)
    BY <1>1 DEF Typed, Args
  <2>2. next' \in [gp : 0..GP_MAX, fp : 0..FP_MAX]
    BY <1>4, <1>13
  <2>3. QED
    BY <1>1, <1>2, <1>13, <2>1, <2>2 DEF Typed
<1>6. Counting(cs)'
  <2>1. ~FirstInReg(i)'
    BY <1>1 DEF FirstInReg
  <2>2. QED
    BY <1>1, <1>13, <2>1 DEF Counting, Calling, Run, Typed
<1>7. Agreed'
  BY <1>1, <1>2 DEF Agreed, Run
<1>8. HomesHeld'
  BY <1>1, <1>2, <1>3 DEF HomesHeld, Run
<1>9. StackHeld'
  BY <1>1, <1>2, <1>3 DEF StackHeld, Run
<1>10. RegsHeld(cs)'
  <2>1. ASSUME NEW a \in 1..(i - 1), ~place[a].pass_by_stack
        PROVE  InRegs(regs', Used(cs[a]), a, Type(a))
    <3>1. a \in 1..Len(place) /\ i \in (a + 1)..Len(cs)
      BY <1>1
    <3>2. InRegs(regs, Used(cs[a]), a, Type(a))
      BY <1>1, <2>1 DEF Run, RegsHeld
    <3>3. QED
      BY <1>1, <2>1, <3>1, <3>2, LoadArgRegs, InRegsStable DEF Run
  <2>2. \A a \in 1..i : a = i \/ a \in 1..(i - 1)
    BY <1>1
  <2>3. \A a \in 1..i : ~place[a].pass_by_stack => InRegs(regs', Used(cs[a]), a, Type(a))
    BY <2>1, <2>2, LoadArgRegs
  <2>4. QED
    BY <1>1, <1>2, <2>3 DEF RegsHeld
<1>11. Received'
  BY <1>1 DEF Received
<1>12. QED
  BY <1>2, <1>5, <1>6, <1>7, <1>8, <1>9, <1>10, <1>11 DEF Run

LEMMA SkipLoadStep ==
  ASSUME Typed, NEW cs, Run(cs), SkipLoad
  PROVE  Typed' /\ Run(cs)'
<1>1. /\ pc = "load" /\ i \in Args /\ i' = i + 1 /\ i \in Nat /\ place[i].pass_by_stack
      /\ i \in 1..Len(place) /\ next = Used(cs[i])
      /\ UNCHANGED <<types, call, pc, count, place, param, homed, home, next, regs, stack, rsp, saved, rbp,
                     local, va, got>>
  BY DEF SkipLoad, Args, Run, Counting
<1>2. Args' = Args /\ (\A a : Type(a)' = Type(a)) /\ (\A a : FromHome(a)' <=> FromHome(a)) /\ Chain(cs)'
      /\ NextReg' = NextReg
  BY <1>1, Same DEF Run
<1>3. \A a : Words(a, Type(a))' = Words(a, Type(a)) /\ (OnStack(a)' <=> OnStack(a))
  BY <1>1, <1>2 DEF Words, OnStack, Holds
<1>4. Used(cs[i + 1]) = Used(cs[i])
  BY <1>1, ChainFacts DEF Run
<1>5. Typed'
  <2>1. i' \in 0..(Len(call.args) + 1)
    BY <1>1 DEF Typed, Args
  <2>2. QED
    BY <1>1, <1>2, <2>1 DEF Typed
<1>6. Counting(cs)'
  <2>1. FirstInReg(i)' => FirstInReg(i)
    BY <1>1 DEF FirstInReg
  <2>2. FirstInReg(i)' => next' = NextReg'
    BY <1>1, <1>2, <2>1 DEF Run, Counting
  <2>3. QED
    BY <1>1, <1>4, <2>2 DEF Counting, Calling, Run
<1>7. Agreed'
  BY <1>1, <1>2 DEF Agreed, Run
<1>8. HomesHeld' /\ StackHeld'
  BY <1>1, <1>2, <1>3 DEF HomesHeld, StackHeld, Run
<1>9. RegsHeld(cs)'
  <2>1. \A a \in 1..i : ~place[a].pass_by_stack => a \in 1..(i - 1)
    BY <1>1
  <2>2. QED
    BY <1>1, <1>2, <2>1 DEF RegsHeld, Run
<1>10. Received'
  BY <1>1 DEF Received
<1>11. QED
  BY <1>2, <1>5, <1>6, <1>7, <1>8, <1>9, <1>10 DEF Run

LEMMA CallFunctionStep ==
  ASSUME Typed, NEW cs, Run(cs), CallFunction
  PROVE  Typed' /\ Run(cs)'
<1>1. /\ pc = "load" /\ pc' = "params" /\ i \notin Args /\ i' = 1 /\ i \in Nat /\ i >= 1
      /\ Len(place) = Len(call.args) /\ param = <<>> /\ local = <<>>
      /\ rbp' = rsp - 2 /\ count' = NewCount
      /\ UNCHANGED <<types, call, place, param, homed, home, next, stack, rsp, saved, local, va, got>>
  BY DEF CallFunction, Run, Counting, Calling, Typed
<1>2. Args' = Args /\ (\A a : Type(a)' = Type(a)) /\ (\A a : FromHome(a)' <=> FromHome(a)) /\ Chain(cs)'
      /\ NextReg' = NextReg
  BY <1>1, Same DEF Run
<1>3. \A a : OnStack(a)' <=> OnStack(a)
  BY <1>1, <1>2 DEF Words, OnStack, Holds
<1>4. i = Len(cs) /\ Len(cs) = Len(place) + 1 /\ Len(place) \in Nat /\ Args = 1..Len(place)
  <2>1. Len(cs) = Len(place) + 1 /\ Len(place) \in Nat /\ i <= Len(place) + 1
    BY <1>1 DEF Run, Chain, Typed
  <2>2. QED
    BY <1>1, <2>1 DEF Args
<1>5. /\ regs' \in RegFiles
      /\ \A r \in NextReg.gp..(GP_MAX - 1) : regs'.gp[r] = regs.gp[r]
      /\ \A r \in 0..(FP_MAX - 1) : regs'.fp[r] = regs.fp[r]
  <2> DEFINE gp == IF call.rtn_by_stk THEN [regs.gp EXCEPT ![0] = RtnBuf] ELSE regs.gp
             al == IF variadic THEN fp_count ELSE regs.al
  <2>1. regs \in RegFiles /\ count.fp \in Nat
    BY DEF Typed, Counts
  <2>2. regs' = [regs EXCEPT !.gp = gp, !.al = al]
    BY DEF CallFunction
  <2>3. al \in Nat
    BY <2>1, RegisterAssumption DEF fp_count, Smaller, RegFiles
  <2>4. gp \in [0..(GP_MAX - 1) -> Values] /\ \A r \in NextReg.gp..(GP_MAX - 1) : gp[r] = regs.gp[r]
    <3>1. RtnBuf \in Values
      BY DEF RtnBuf, Values
    <3>2. QED
      BY <2>1, <3>1, RegisterAssumption DEF RegFiles, NextReg
  <2> HIDE DEF gp, al
  <2>5. regs' = [gp |-> gp, fp |-> regs.fp, al |-> al]
    BY <2>1, <2>2 DEF RegFiles
  <2>6. QED
    BY <2>1, <2>3, <2>4, <2>5 DEF RegFiles
<1>6. count' \in Counts
  BY <1>1 DEF NewCount, Counts
<1>7. Typed'
  <2>1. rbp' \in Int /\ i' \in 0..(Len(call.args) + 1)
    BY <1>1, <1>4 DEF Typed
  <2>2. QED
    BY <1>1, <1>2, <1>5, <1>6, <2>1 DEF Typed, Phases
<1>8. Counting(cs)'
  <2>1. count' = cs[1] /\ rsp' = rbp' + 2
    BY <1>1 DEF Run, Chain, Typed
  <2>2. QED
    BY <1>1, <2>1 DEF Counting, Calling, Run
<1>9. Agreed'
  BY <1>1, <1>2 DEF Agreed, Run
<1>10. HomesHeld' /\ StackHeld'
  BY <1>1, <1>2, <1>3 DEF HomesHeld, StackHeld, Run
<1>11. RegsHeld(cs)'
  <2>1. ASSUME NEW a \in Args, ~place[a].pass_by_stack
        PROVE  InRegs(regs', Used(cs[a]), a, Type(a))
    <3>1. a \in 1..Len(place) /\ a \in 1..(i - 1) /\ Len(cs) \in (a + 1)..Len(cs)
      BY <1>4
    <3>2. InRegs(regs, Used(cs[a]), a, Type(a))
      BY <1>1, <2>1, <3>1 DEF Run, RegsHeld
    <3>3. Len(cs) \in 1..Len(cs) /\ Used(cs[Len(cs)]) \in [gp : 0..GP_MAX, fp : 0..FP_MAX]
      BY SMTT(30), <1>4, UsedGrows DEF Run
    <3>4. /\ \A r \in NextReg.gp..(Used(cs[Len(cs)]).gp - 1) : regs'.gp[r] = regs.gp[r]
          /\ \A r \in 0..(Used(cs[Len(cs)]).fp - 1) : regs'.fp[r] = regs.fp[r]
      BY <1>5, <3>3, NextRegType, RegisterAssumption
    <3>5. QED
      BY <2>1, <3>1, <3>2, <3>4, InRegsStable DEF Run
  <2>2. QED
    BY <1>1, <1>2, <2>1 DEF RegsHeld
<1>12. Received'
  BY <1>1 DEF Received
<1>13. QED
  BY <1>2, <1>7, <1>8, <1>9, <1>10, <1>11, <1>12 DEF Run

----------------------------------------------------------------------------
(* The steps of the callee                                                 *)

LEMMA ClassifyParamStep ==
  ASSUME Typed, NEW cs, Run(cs), ClassifyParam
  PROVE  Typed' /\ Run(cs)'
<1>1. /\ pc = "params" /\ i \in 1..call.named /\ i = Len(param) + 1 /\ count = cs[i]
      /\ i' = i + 1 /\ i \in Nat /\ local = <<>>
      /\ param' = Append(param, PlaceOf(Type(i), count)) /\ count' = Counted(Type(i), count)
      /\ UNCHANGED <<types, call, pc, place, homed, home, next, regs, stack, rsp, saved, rbp, local, va, got>>
  BY DEF ClassifyParam, Run, Counting
<1>2. Args' = Args /\ (\A a : Type(a)' = Type(a)) /\ (\A a : FromHome(a)' <=> FromHome(a)) /\ Chain(cs)'
  BY <1>1, Same DEF Run
<1>3. \A a : OnStack(a)' <=> OnStack(a)
  BY <1>1, <1>2 DEF Words, OnStack, Holds
<1>4. i \in 1..Len(place) /\ call.named <= Len(call.args)
  BY <1>1 DEF Run, Counting, Typed, Calling
<1>5. /\ param' = Append(param, place[i]) /\ count' = cs[i + 1]
      /\ place[i] \in Places /\ cs[i + 1] \in Counts
  BY <1>1, <1>4, ChainFacts DEF Run
<1>6. /\ param' \in Seq(Places) /\ Len(param') = i
      /\ \A a \in 1..(i - 1) : param'[a] = param[a]
      /\ param'[i] = place[i]
  <2>1. param \in Seq(Places)
    BY DEF Typed
  <2>2. QED
    BY <1>1, <1>5, <2>1, AppendProperties
<1>7. Typed'
  <2>1. i' \in 0..(Len(call.args) + 1) /\ Len(param') <= call.named
    BY <1>1, <1>4, <1>6 DEF Typed
  <2>2. QED
    BY <1>1, <1>2, <1>5, <1>6, <2>1 DEF Typed
<1>8. Counting(cs)'
  BY <1>1, <1>5, <1>6 DEF Counting, Calling, Run
<1>9. Agreed'
  <2>1. \A a \in 1..i : param'[a] = place[a]
    <3>1. \A a \in 1..i : a = i \/ a \in 1..(i - 1)
      BY <1>1
    <3>2. \A a \in 1..(i - 1) : param[a] = place[a]
      BY <1>1 DEF Run, Agreed
    <3>3. QED
      BY <1>6, <3>1, <3>2
  <2>2. QED
    BY <1>1, <1>2, <1>6, <2>1 DEF Agreed, Run
<1>10. HomesHeld' /\ StackHeld'
  BY <1>1, <1>2, <1>3 DEF HomesHeld, StackHeld, Run
<1>11. RegsHeld(cs)' /\ Received'
  BY <1>1, <1>2 DEF RegsHeld, Received, Run
<1>12. QED
  BY <1>2, <1>7, <1>8, <1>9, <1>10, <1>11 DEF Run

LEMMA PrologueStep ==
  ASSUME Typed, NEW cs, Run(cs), Prologue
  PROVE  Typed' /\ Run(cs)'
<1>1. /\ pc = "params" /\ pc' = "receive" /\ i \notin 1..call.named /\ i = Len(param) + 1
      /\ i' = 1 /\ local = <<>> /\ next' = NextReg
      /\ UNCHANGED <<types, call, count, place, param, homed, home, regs, stack, rsp, saved, rbp, local, got>>
  BY DEF Prologue, Run, Counting
<1>2. Args' = Args /\ (\A a : Type(a)' = Type(a)) /\ (\A a : FromHome(a)' <=> FromHome(a)) /\ Chain(cs)'
      /\ NextReg' = NextReg
  BY <1>1, Same DEF Run
<1>3. \A a : OnStack(a)' <=> OnStack(a)
  BY <1>1, <1>2 DEF Words, OnStack, Holds
<1>4. Len(param) = call.named /\ call.named \in Nat
  BY <1>1 DEF Typed
<1>5. va' \in [gp : Nat, fp : Nat, st : Int, area : RegFiles]
  <2>1. va \in [gp : Nat, fp : Nat, st : Int, area : RegFiles] /\ regs \in RegFiles
    BY DEF Typed
  <2> DEFINE area == [gp |-> [r \in DOMAIN regs.gp |-> IF r >= gp_count THEN regs.gp[r] ELSE Junk],
                      fp |-> [r \in DOMAIN regs.fp |-> IF regs.al # 0 /\ r >= fp_count THEN regs.fp[r] ELSE Junk],
                      al |-> 0]
  <2>2. area \in RegFiles
    <3>1. Junk \in Values
      BY DEF Junk, Values
    <3>2. QED
      BY <2>1, <3>1 DEF RegFiles
  <2>3. va' = va \/ va' = [va EXCEPT !.area = area]
    BY DEF Prologue
  <2> HIDE DEF area
  <2>4. QED
    BY <2>1, <2>2, <2>3
<1>6. Typed'
  <2>1. next' \in [gp : 0..GP_MAX, fp : 0..FP_MAX]
    BY <1>1, NextRegType
  <2>2. i' \in 0..(Len(call.args) + 1)
    <3>1. Len(call.args) \in Nat
      BY DEF Typed
    <3>2. QED
      BY <1>1, <3>1
  <2>3. pc' \in Phases
    BY <1>1 DEF Phases
  <2>4. QED
    BY <1>1, <1>2, <1>5, <2>1, <2>2, <2>3 DEF Typed
<1>7. Counting(cs)'
  <2>1. next' = Used(cs[1])
    BY <1>1, UsedFirst DEF Run
  <2>2. QED
    BY <1>1, <1>4, <2>1 DEF Counting, Calling, Run
<1>8. Agreed'
  BY <1>1, <1>2 DEF Agreed, Run
<1>9. HomesHeld' /\ StackHeld'
  BY <1>1, <1>2, <1>3 DEF HomesHeld, StackHeld, Run
<1>10. RegsHeld(cs)' /\ Received'
  BY <1>1, <1>2 DEF RegsHeld, Received, Run
<1>11. QED
  BY <1>2, <1>6, <1>7, <1>8, <1>9, <1>10 DEF Run

LEMMA ReceiveParamStep ==
  ASSUME Typed, NEW cs, Run(cs), ReceiveParam
  PROVE  Typed' /\ Run(cs)'
<1>1. /\ pc = "receive" /\ i \in 1..call.named /\ i = Len(local) + 1 /\ i' = i + 1 /\ i \in Nat
      /\ next = Used(cs[i]) /\ Len(param) = call.named /\ rsp = rbp + 2
      /\ UNCHANGED <<types, call, pc, count, place, param, homed, home, regs, stack, rsp, saved, rbp, va, got>>
  BY DEF ReceiveParam, Run, Counting
<1>2. Args' = Args /\ (\A a : Type(a)' = Type(a)) /\ (\A a : FromHome(a)' <=> FromHome(a)) /\ Chain(cs)'
  BY <1>1, Same DEF Run
<1>3. \A a : Words(a, Type(a))' = Words(a, Type(a)) /\ (OnStack(a)' <=> OnStack(a))
  BY <1>1, <1>2 DEF Words, OnStack, Holds
<1>4. /\ i \in 1..Len(place) /\ i \in Args /\ call.named <= Len(call.args) /\ call.named \in Nat
      /\ i + 1 \in 1..Len(cs) /\ param[i] = place[i]
  <2>1. /\ Len(place) = Len(call.args) /\ Len(cs) = Len(place) + 1
        /\ call.named <= Len(call.args) /\ call.named \in Nat /\ Len(call.args) \in Nat
    BY <1>1 DEF Run, Counting, Chain, Typed
  <2>2. QED
    BY <1>1, <2>1 DEF Args, Run, Agreed
<1>5. \E words \in Seq(Values) :
        /\ local' = Append(local, words)
        /\ ~place[i].pass_by_stack => words = Words(i, Type(i))
        /\ next' = Used(cs[i + 1])
  <2>1. CASE place[i].pass_by_stack
    <3>1. local' = Append(local, <<>>) /\ next' = Used(cs[i + 1])
      BY <1>1, <1>4, <2>1, ChainFacts DEF ReceiveParam, Run
    <3>2. <<>> \in Seq(Values)
      BY EmptySeq
    <3>3. QED
      BY <2>1, <3>1, <3>2
  <2>2. CASE ~place[i].pass_by_stack
    <3> DEFINE words == [w \in 1..Type(i).words |-> IF InFp(Type(i), w) THEN regs.fp[RegOf(Type(i), w)]
                                                    ELSE regs.gp[RegOf(Type(i), w)]]
    <3>1. local' = Append(local, words) /\ next' = After(Type(i))
      BY <1>4, <2>2 DEF ReceiveParam
    <3>2. InRegs(regs, next, i, Type(i))
      BY <1>1, <1>4, <2>2 DEF Run, RegsHeld
    <3>3. words = Words(i, Type(i))
      BY <3>2, RegOfIs DEF InRegs, Words
    <3>4. Words(i, Type(i)) \in Seq(Values)
      <4>1. Type(i).words \in Nat
        BY <1>4, ChainFacts, WordsType DEF Run
      <4>2. \A S : \A m \in Nat : [1..m -> S] \subseteq Seq(S)
        BY SeqDef
      <4>3. Words(i, Type(i)) \in [1..Type(i).words -> Values]
        BY <1>1, <1>4, <4>1, WordsAreValues
      <4>4. QED
        BY <4>1, <4>2, <4>3
    <3>5. next' = Used(cs[i + 1])
      BY <1>1, <1>4, <2>2, <3>1, ChainFacts DEF After, Run
    <3>6. QED
      BY <3>1, <3>3, <3>4, <3>5
  <2>3. QED
    BY <2>1, <2>2
<1>6. PICK words \in Seq(Values) :
        /\ local' = Append(local, words)
        /\ ~place[i].pass_by_stack => words = Words(i, Type(i))
        /\ next' = Used(cs[i + 1])
  BY <1>5
<1>7. /\ local' \in Seq(Seq(Values)) /\ Len(local') = i
      /\ \A a \in 1..(i - 1) : local'[a] = local[a]
      /\ local'[i] = words
  <2>1. local \in Seq(Seq(Values))
    BY DEF Typed
  <2>2. QED
    BY <1>1, <1>6, <2>1, AppendProperties
<1>8. Typed'
  <2>1. i' \in 0..(Len(call.args) + 1)
    <3>1. Len(call.args) \in Nat
      BY DEF Typed
    <3>2. QED
      BY <1>1, <1>4, <3>1
  <2>2. next' \in [gp : 0..GP_MAX, fp : 0..FP_MAX]
    BY <1>4, <1>6, UsedGrows DEF Run
  <2>3. QED
    BY <1>1, <1>2, <1>7, <2>1, <2>2 DEF Typed
<1>9. Counting(cs)'
  BY <1>1, <1>4, <1>6, <1>7 DEF Counting, Calling, Run
<1>10. Agreed'
  BY <1>1, <1>2 DEF Agreed, Run
<1>11. HomesHeld' /\ StackHeld'
  BY <1>1, <1>2, <1>3 DEF HomesHeld, StackHeld, Run
<1>12. RegsHeld(cs)'
  BY <1>1, <1>2 DEF RegsHeld, Run
<1>13. Received'
  <2>1. \A a \in 1..i : a = i \/ a \in 1..(i - 1)
    BY <1>1
  <2>2. \A a \in 1..(i - 1) : ~place[a].pass_by_stack => local[a] = Words(a, Type(a))
    BY <1>1 DEF Run, Received
  <2>3. QED
    BY <1>1, <1>3, <1>6, <1>7, <2>1, <2>2 DEF Received
<1>14. QED
  BY <1>2, <1>8, <1>9, <1>10, <1>11, <1>12, <1>13 DEF Run

LEMMA VaStartStep ==
  ASSUME Typed, NEW cs, Run(cs), va_start
  PROVE  Typed' /\ Run(cs)'
<1>1. /\ pc = "receive" /\ pc' = "body" /\ i \notin 1..call.named /\ i = Len(local) + 1 /\ i <= call.named + 1
      /\ i' = call.named + 1 /\ Len(param) = call.named /\ rsp = rbp + 2 /\ regs' = Clobbered
      /\ va' = [va EXCEPT !.gp = gp_count, !.fp = fp_count, !.st = rbp + 2 + count.stack]
      /\ UNCHANGED <<types, call, count, place, param, homed, home, next, stack, rsp, saved, rbp, local, got>>
  BY DEF va_start, Run, Counting
<1>2. Args' = Args /\ (\A a : Type(a)' = Type(a)) /\ (\A a : FromHome(a)' <=> FromHome(a)) /\ Chain(cs)'
  BY <1>1, Same DEF Run
<1>3. \A a : OnStack(a)' <=> OnStack(a)
  BY <1>1, <1>2 DEF Words, OnStack, Holds
<1>4. call.named \in Nat /\ call.named <= Len(call.args) /\ Len(call.args) \in Nat /\ Len(local) = call.named
  <2>1. call.named \in Nat /\ call.named <= Len(call.args) /\ Len(call.args) \in Nat /\ Len(local) \in Nat
    BY DEF Typed
  <2>2. QED
    BY <1>1, <2>1
<1>5. Typed'
  <2>1. regs' \in RegFiles
    <3>1. Junk \in Values
      BY DEF Junk, Values
    <3>2. QED
      BY <1>1, <3>1 DEF Clobbered, RegFiles
  <2>2. va' \in [gp : Nat, fp : Nat, st : Int, area : RegFiles]
    <3>1. count.gp \in Nat /\ count.fp \in Nat /\ count.stack \in Nat /\ rbp \in Int
      BY DEF Typed, Counts
    <3>2. gp_count \in Nat /\ fp_count \in Nat
      BY <3>1, RegisterAssumption DEF gp_count, fp_count, Smaller
    <3>3. rbp + 2 + count.stack \in Int
      BY <3>1
    <3>4. va \in [gp : Nat, fp : Nat, st : Int, area : RegFiles]
      BY DEF Typed
    <3>5. QED
      BY <1>1, <3>2, <3>3, <3>4
  <2>3. pc' \in Phases /\ i' \in 0..(Len(call.args) + 1)
    BY <1>1, <1>4 DEF Phases
  <2>4. QED
    BY <1>1, <1>2, <2>1, <2>2, <2>3 DEF Typed
<1>6. Counting(cs)'
  BY <1>1, <1>4 DEF Counting, Calling, Run
<1>7. Agreed'
  BY <1>1, <1>2 DEF Agreed, Run
<1>8. HomesHeld' /\ StackHeld'
  BY <1>1, <1>2, <1>3 DEF HomesHeld, StackHeld, Run
<1>9. RegsHeld(cs)' /\ Received'
  BY <1>1, <1>2 DEF RegsHeld, Received, Run, Words
<1>10. QED
  BY <1>2, <1>5, <1>6, <1>7, <1>8, <1>9 DEF Run

LEMMA VaArgStep ==
  ASSUME Typed, NEW cs, Run(cs), va_arg
  PROVE  Typed' /\ Run(cs)'
<1>1. /\ pc = "body" /\ i \in Args /\ i' = i + 1 /\ Len(param) = call.named /\ Len(local) = call.named /\ rsp = rbp + 2
      /\ UNCHANGED <<types, call, pc, count, place, param, homed, home, next, regs, stack, rsp, saved, rbp, local>>
  BY DEF va_arg, Run, Counting
<1>2. Args' = Args /\ (\A a : Type(a)' = Type(a)) /\ (\A a : FromHome(a)' <=> FromHome(a)) /\ Chain(cs)'
  BY <1>1, Same DEF Run
<1>3. \A a : OnStack(a)' <=> OnStack(a)
  BY <1>1, <1>2 DEF Words, OnStack, Holds
<1>4. Type(i) \in Descriptors /\ i \in Nat /\ i' \in 0..(Len(call.args) + 1)
  <2>1. call.args \in Seq([ty : Descriptors, shape : Shapes]) /\ Len(call.args) \in Nat
    BY DEF Typed
  <2>2. i \in 1..Len(call.args)
    BY <1>1 DEF Args
  <2>3. call.args[i] \in [ty : Descriptors, shape : Shapes]
    BY <2>1, <2>2, ElementOfSeq
  <2>4. i \in Nat /\ i' \in 0..(Len(call.args) + 1)
    BY <1>1, <2>1, <2>2
  <2>5. QED
    BY <2>3, <2>4 DEF Type
<1>5. va' \in [gp : Nat, fp : Nat, st : Int, area : RegFiles]
  <2>1. va \in [gp : Nat, fp : Nat, st : Int, area : RegFiles]
    BY DEF Typed
  <2>2. /\ FpWords(Type(i)) \in Nat /\ GpWords(Type(i)) \in Nat
        /\ Type(i).words \in Nat /\ Type(i).align \in Nat \ {0}
    BY <1>4, WordsType
  <2>3. OverflowAt(Type(i)) \in Int
    BY <2>1, <2>2, AlignIntType DEF OverflowAt
  <2>4. CASE InArea(Type(i))
    <3>1. va' = [va EXCEPT !.gp = @ + GpWords(Type(i)), !.fp = @ + FpWords(Type(i))]
      BY <2>4 DEF va_arg
    <3>2. va.gp + GpWords(Type(i)) \in Nat /\ va.fp + FpWords(Type(i)) \in Nat
      BY <2>1, <2>2
    <3>3. QED
      BY <2>1, <3>1, <3>2
  <2>5. CASE ~InArea(Type(i))
    <3>1. va' = [va EXCEPT !.st = OverflowAt(Type(i)) + Type(i).words]
      BY <2>5 DEF va_arg
    <3>2. OverflowAt(Type(i)) + Type(i).words \in Int
      BY <2>2, <2>3
    <3>3. QED
      BY <2>1, <3>1, <3>2
  <2>6. QED
    BY <2>4, <2>5
<1>6. Typed'
  BY <1>1, <1>2, <1>4, <1>5 DEF Typed
<1>7. Counting(cs)'
  <2>1. i' >= 1
    BY <1>1, <1>4
  <2>2. QED
    BY <1>1, <2>1 DEF Counting, Calling, Run
<1>8. Agreed'
  BY <1>1, <1>2 DEF Agreed, Run
<1>9. HomesHeld' /\ StackHeld'
  BY <1>1, <1>2, <1>3 DEF HomesHeld, StackHeld, Run
<1>10. RegsHeld(cs)' /\ Received'
  BY <1>1, <1>2 DEF RegsHeld, Received, Run, Words
<1>11. QED
  BY <1>2, <1>6, <1>7, <1>8, <1>9, <1>10 DEF Run

LEMMA ReturnStep ==
  ASSUME Typed, NEW cs, Run(cs), Return
  PROVE  Typed' /\ Run(cs)'
<1>1. /\ pc = "body" /\ pc' = "returned" /\ Len(param) = call.named
      /\ UNCHANGED <<types, call, i, count, place, param, homed, home, next, regs, stack, saved, rbp, local, va, got>>
  BY DEF Return, Run, Counting
<1>2. Args' = Args /\ (\A a : Type(a)' = Type(a)) /\ (\A a : FromHome(a)' <=> FromHome(a)) /\ Chain(cs)'
  BY <1>1, Same DEF Run
<1>3. Typed'
  <2>1. rsp' \in Int
    <3>1. rbp \in Int /\ saved.rsp \in Int /\ saved.size \in Nat
      BY DEF Typed
    <3>2. AlignTo(saved.size, 2) \in Nat
      BY <3>1, AlignToType
    <3>3. rsp' \in {rbp + 2, saved.rsp, rbp + 2 + AlignTo(saved.size, 2)}
      BY DEF Return
    <3>4. QED
      BY <3>1, <3>2, <3>3
  <2>2. QED
    BY <1>1, <1>2, <2>1 DEF Typed, Phases
<1>4. Counting(cs)'
  BY <1>1 DEF Counting, Calling, Run
<1>5. Agreed'
  BY <1>1, <1>2 DEF Agreed, Run
<1>6. HomesHeld' /\ StackHeld' /\ RegsHeld(cs)' /\ Received'
  BY <1>1 DEF HomesHeld, StackHeld, RegsHeld, Received
<1>7. QED
  BY <1>2, <1>3, <1>4, <1>5, <1>6 DEF Run

LEMMA StutterStep ==
  ASSUME Typed, NEW cs, Run(cs), UNCHANGED callVars
  PROVE  Typed' /\ Run(cs)'
<1>1. UNCHANGED <<types, call, pc, i, count, place, param, homed, home, next, regs, stack, rsp, saved, rbp,
                  local, va, got>>
  BY DEF callVars
<1>2. Args' = Args /\ (\A a : Type(a)' = Type(a)) /\ (\A a : FromHome(a)' <=> FromHome(a)) /\ Chain(cs)'
      /\ NextReg' = NextReg /\ (\A a : FirstInReg(a)' <=> FirstInReg(a))
  BY <1>1, Same DEF Run
<1>3. \A a : OnStack(a)' <=> OnStack(a)
  BY <1>1, <1>2 DEF Words, OnStack, Holds
<1>4. Typed'
  BY <1>1, <1>2 DEF Typed
<1>5. Counting(cs)'
  BY <1>1, <1>2 DEF Counting, Run
<1>6. Agreed'
  BY <1>1, <1>2 DEF Agreed, Run
<1>7. HomesHeld' /\ StackHeld'
  BY <1>1, <1>2, <1>3 DEF HomesHeld, StackHeld, Run, Words
<1>8. RegsHeld(cs)' /\ Received'
  BY <1>1, <1>2 DEF RegsHeld, Received, Run, Words
<1>9. QED
  BY <1>2, <1>4, <1>5, <1>6, <1>7, <1>8 DEF Run

----------------------------------------------------------------------------
(* The invariant of a call                                                 *)

LEMMA CallStep ==
  ASSUME NoRedeclaration, CallInv, [CallNext]_callVars
  PROVE  CallInv'
<1>1. Typed
  BY DEF CallInv
<1>2. PICK cs : Run(cs)
  BY DEF CallInv
<1>3. SUFFICES Typed' /\ \E ds : Run(ds)'
  BY DEF CallInv
<1>4. CASE funcall
  BY <1>1, <1>2, <1>4, FuncallStep
<1>5. CASE ClassifyArg
  BY <1>1, <1>2, <1>5, ClassifyArgStep
<1>6. CASE prepare_funcall
  BY <1>1, <1>2, <1>6, PrepareStep
<1>7. CASE gen_funcall
  BY <1>1, <1>2, <1>7, GenFuncallStep
<1>8. CASE SpillArg
  BY <1>1, <1>2, <1>8, SpillArgStep
<1>9. CASE SkipSpill
  BY <1>1, <1>2, <1>9, SkipSpillStep
<1>10. CASE Spilled
  BY <1>1, <1>2, <1>10, SpilledStep
<1>11. CASE LoadArg
  BY <1>1, <1>2, <1>11, LoadArgStep
<1>12. CASE SkipLoad
  BY <1>1, <1>2, <1>12, SkipLoadStep
<1>13. CASE CallFunction
  BY <1>1, <1>2, <1>13, CallFunctionStep
<1>14. CASE ClassifyParam
  BY <1>1, <1>2, <1>14, ClassifyParamStep
<1>15. CASE Prologue
  BY <1>1, <1>2, <1>15, PrologueStep
<1>16. CASE ReceiveParam
  BY <1>1, <1>2, <1>16, ReceiveParamStep
<1>17. CASE va_start
  BY <1>1, <1>2, <1>17, VaStartStep
<1>18. CASE va_arg
  BY <1>1, <1>2, <1>18, VaArgStep
<1>19. CASE Return
  BY <1>1, <1>2, <1>19, ReturnStep
<1>20. CASE UNCHANGED callVars
  BY <1>1, <1>2, <1>20, StutterStep
<1>21. QED
  BY <1>4, <1>5, <1>6, <1>7, <1>8, <1>9, <1>10, <1>11, <1>12, <1>13, <1>14, <1>15, <1>16, <1>17, <1>18,
     <1>19, <1>20 DEF CallNext

LEMMA CallInvHolds ==
  ASSUME NoRedeclaration
  PROVE  CallSpec => []CallInv
<1>1. CallInit => CallInv
  BY BeginsIdle
<1>2. CallInv /\ [CallNext]_callVars => CallInv'
  BY CallStep
<1>3. QED
  BY <1>1, <1>2, PTL DEF CallSpec

-----------------------------------------------------------------------------
(***************************************************************************)
(* The other two properties: the stack is aligned at the call and          *)
(* restored after it, and va_arg finds each unnamed argument.              *)
(*                                                                         *)
(* Both need that alignments are powers of two.  What is used of that is   *)
(* AlignsNest: an alignment is a multiple of every smaller one.  The       *)
(* alignment of the whole argument area then serves each argument in it    *)
(* (Based), and rounding an address up in the callee gives the offset that *)
(* the caller rounded up.  The va_list stands at the counts that           *)
(* calling_convention had before the argument (VaHeld), which are those of *)
(* Chain.                                                                  *)
(***************************************************************************)

Nest(s, t) == /\ s.align > 1 => s.align % 2 = 0
              /\ s.align > 1 /\ s.align <= t.align => t.align % s.align = 0
AlignsNest == \A s, t \in types : Nest(s, t)

Aligned(a) == place[a].pass_by_stack /\ Type(a).align > 1
Based(base) == \A a \in 1..Len(place) : Aligned(a) => base % Type(a).align = 0

Placed ==
  /\ types \subseteq Descriptors
  /\ call.args \in Seq([ty : types, shape : Shapes])
  /\ \A a \in 1..Len(place) : Aligned(a) => place[a].stack_offset % Type(a).align = 0

\* While the arguments are counted: what the area will need.
Counted2 ==
  /\ count.align = 2 \/ (count.align > 2 /\ \E t \in types : t.align = count.align)
  /\ \A a \in 1..Len(place) : place[a].pass_by_stack => count.stack > 0 /\ Type(a).align <= count.align

\* How far the stack pointer is from where it was.
Reserved ==
  /\ saved.size = 0 => rsp = saved.rsp
  /\ saved.size # 0 /\ saved.align <= 2 => rsp = saved.rsp - AlignTo(saved.size, 2)

StackInv ==
  /\ AlignsNest
  /\ Placed
  /\ pc \in {"idle", "classify", "begin"} => rsp % 2 = 0 /\ Counted2
  /\ pc \in {"spill", "load", "params", "receive", "body"} => rsp % 2 = 0 /\ Based(rsp) /\ Reserved
  /\ pc \in {"params", "receive", "body"} => rbp = rsp - 2
  /\ pc = "returned" => rsp = saved.rsp

----------------------------------------------------------------------------
(* Multiples                                                               *)

Multiple(x, a) == \E k \in Int : x = k * a

LEMMA MultipleIs ==
  ASSUME NEW x \in Int, NEW a \in Nat \ {0}
  PROVE  Multiple(x, a) <=> x % a = 0
<1>1. x = a * (x \div a) + (x % a) /\ x \div a \in Int /\ x % a \in 0..(a - 1)
  OBVIOUS
<1>2. ASSUME x % a = 0 PROVE Multiple(x, a)
  <2>1. x = (x \div a) * a
    BY <1>1, <1>2
  <2>2. QED
    BY <1>1, <2>1 DEF Multiple
<1>3. ASSUME NEW k \in Int, x = k * a PROVE x % a = 0
  <2> DEFINE d == k - (x \div a)
             r == x % a
  <2>1. d \in Int /\ r \in 0..(a - 1) /\ d * a = r
    BY <1>1, <1>3
  <2> HIDE DEF d, r
  <2>2. d <= 0 \/ d * a >= a
    BY <2>1
  <2>3. d >= 0 \/ d * a <= -a
    BY <2>1
  <2>4. d = 0
    BY <2>1, <2>2, <2>3
  <2>5. r = 0
    BY <2>1, <2>4
  <2>6. QED
    BY <2>5 DEF r
<1>4. QED
  BY <1>2, <1>3 DEF Multiple

LEMMA Sums ==
  ASSUME NEW x \in Int, NEW y \in Int, NEW a \in Nat \ {0}, x % a = 0, y % a = 0
  PROVE  (x + y) % a = 0 /\ (x - y) % a = 0
<1>1. PICK k \in Int : x = k * a
  BY MultipleIs DEF Multiple
<1>2. PICK l \in Int : y = l * a
  BY MultipleIs DEF Multiple
<1>3. x + y = (k + l) * a /\ x - y = (k - l) * a
  BY <1>1, <1>2
<1>4. k + l \in Int /\ k - l \in Int
  OBVIOUS
<1>5. Multiple(x + y, a) /\ Multiple(x - y, a)
  BY <1>3, <1>4 DEF Multiple
<1>6. QED
  BY <1>5, MultipleIs

LEMMA Through ==
  ASSUME NEW x \in Int, NEW b \in Nat \ {0}, NEW a \in Nat \ {0}, x % b = 0, b % a = 0
  PROVE  x % a = 0
<1>1. PICK k \in Int : x = k * b
  BY MultipleIs DEF Multiple
<1>2. PICK l \in Int : b = l * a
  BY MultipleIs DEF Multiple
<1>3. x = (k * l) * a
  BY <1>1, <1>2
<1>4. k * l \in Int
  OBVIOUS
<1>5. Multiple(x, a)
  BY <1>3, <1>4 DEF Multiple
<1>6. QED
  BY <1>5, MultipleIs

LEMMA Rounded ==
  ASSUME NEW x \in Int, NEW a \in Nat \ {0}
  PROVE  AlignTo(x, a) \in Int /\ AlignTo(x, a) % a = 0 /\ AlignDown(x, a) \in Int /\ AlignDown(x, a) % a = 0
<1>1. ASSUME NEW q \in Int PROVE q * a \in Int /\ (q * a) % a = 0
  <2>1. q * a \in Int /\ Multiple(q * a, a)
    BY DEF Multiple
  <2>2. QED
    BY <2>1, MultipleIs
<1>2. (x + a - 1) \div a \in Int /\ x \div a \in Int
  OBVIOUS
<1>3. QED
  BY <1>1, <1>2 DEF AlignTo, AlignDown

\* Rounding up commutes with adding a multiple.
LEMMA RoundAbove ==
  ASSUME NEW b \in Int, NEW x \in Int, NEW a \in Nat \ {0}, b % a = 0
  PROVE  AlignTo(b + x, a) = b + AlignTo(x, a)
<1>1. PICK k \in Int : b = k * a
  BY MultipleIs DEF Multiple
<1> DEFINE n == x + a - 1
           q == n \div a
           p == (b + n) \div a
<1>2. n \in Int /\ q \in Int /\ p \in Int
  OBVIOUS
<1>3. n = a * q + (n % a) /\ n % a \in 0..(a - 1)
  BY <1>2
<1>4. b + n = a * p + ((b + n) % a) /\ (b + n) % a \in 0..(a - 1)
  BY <1>2
<1>5. p = k + q
  <2> DEFINE d == p - k - q
             r == n % a
             s == (b + n) % a
  <2>1. d \in Int /\ r \in 0..(a - 1) /\ s \in 0..(a - 1) /\ d * a = r - s
    BY <1>1, <1>2, <1>3, <1>4
  <2> HIDE DEF d, r, s
  <2>2. d <= 0 \/ d * a >= a
    BY <2>1
  <2>3. d >= 0 \/ d * a <= -a
    BY <2>1
  <2>4. d = 0
    BY <2>1, <2>2, <2>3
  <2>5. QED
    BY <1>2, <2>4 DEF d
<1>6. b + x + a - 1 = b + n
  OBVIOUS
<1>7. AlignTo(b + x, a) = p * a /\ AlignTo(x, a) = q * a
  BY <1>6 DEF AlignTo
<1>8. (k + q) * a = k * a + q * a
  BY <1>2
<1>9. QED
  BY <1>1, <1>5, <1>7, <1>8

----------------------------------------------------------------------------
(* The stack pointer                                                       *)

LEMMA StackBegins ==
  ASSUME CallInit, AlignsNest
  PROVE  StackInv
<1>1. /\ pc = "idle" /\ place = <<>> /\ call.args = <<>> /\ rsp = 0
      /\ count = [gp |-> 0, fp |-> 0, stack |-> 0, align |-> 2] /\ types \subseteq Descriptors
  BY DEF CallInit, Idle
<1>2. Placed /\ Counted2
  BY <1>1 DEF Placed, Counted2
<1>3. QED
  BY <1>1, <1>2 DEF StackInv

LEMMA StackSame ==
  ASSUME UNCHANGED <<types, call, place>>
  PROVE  /\ AlignsNest' <=> AlignsNest
         /\ Placed' <=> Placed
         /\ \A base : Based(base)' <=> Based(base)
         /\ (Counted2' <=> Counted2) \/ ~UNCHANGED count
<1>1. \A a : Type(a)' = Type(a) /\ (Aligned(a)' <=> Aligned(a))
  BY DEF Type, Aligned
<1>2. QED
  BY <1>1 DEF AlignsNest, Placed, Based, Counted2

LEMMA FuncallStack ==
  ASSUME StackInv, CallInv, funcall
  PROVE  StackInv'
<1>1. pc = "idle" /\ pc' = "classify" /\ place = <<>> /\ UNCHANGED <<types, place>>
  BY DEF CallInv, Run, Counting, funcall
<1>2. PICK n \in 0..MaxArgs :
        \E args \in [1..n -> Expressions], named \in 0..n, rtn, optimize \in BOOLEAN, top \in Tops :
          /\ call' = [args |-> args, named |-> named, rtn_by_stk |-> rtn, optimize |-> optimize]
          /\ rsp' = top
          /\ count' = [gp |-> IF rtn THEN 1 ELSE 0, fp |-> 0, stack |-> 0, align |-> 2]
  BY DEF funcall
<1>3. PICK args \in [1..n -> Expressions], top \in Tops :
        call'.args = args /\ rsp' = top /\ count'.align = 2
  BY <1>2
<1>4. rsp' % 2 = 0
  BY <1>3, TopAssumption
<1>5. call'.args \in Seq([ty : types, shape : Shapes])
  <2>1. Expressions \subseteq [ty : types, shape : Shapes]
    BY DEF Expressions
  <2>2. n \in Nat /\ args \in [1..n -> [ty : types, shape : Shapes]]
    BY <2>1, BoundAssumption
  <2>3. \A S : \A m \in Nat : [1..m -> S] \subseteq Seq(S)
    BY SeqDef
  <2>4. QED
    BY <1>3, <2>2, <2>3
<1>6. Placed'
  BY <1>1, <1>5 DEF Placed, StackInv
<1>7. Counted2'
  BY <1>1, <1>3 DEF Counted2
<1>8. AlignsNest'
  BY <1>1 DEF AlignsNest, StackInv
<1>9. QED
  BY <1>1, <1>4, <1>6, <1>7, <1>8 DEF StackInv

LEMMA OffsetIs ==
  ASSUME NEW ty \in Descriptors, NEW c \in Counts
  PROVE  /\ PlaceOf(ty, c).pass_by_stack <=> ~Fits(ty, c)
         /\ PlaceOf(ty, c).pass_by_stack => PlaceOf(ty, c).stack_offset = StackOffset(ty, c)
         /\ StackOffset(ty, c) \in Nat
         /\ ty.align > 1 => StackOffset(ty, c) % ty.align = 0
<1>1. c.stack \in Nat /\ c.stack \in Int /\ ty.align \in Nat \ {0}
  BY WordsType DEF Counts
<1>2. AlignTo(c.stack, ty.align) \in Nat
  BY <1>1, AlignToType
<1>3. AlignTo(c.stack, ty.align) % ty.align = 0
  <2>1. PICK n \in Int : n = c.stack
    BY <1>1
  <2>2. PICK a \in Nat \ {0} : a = ty.align
    BY <1>1
  <2>3. AlignTo(n, a) % a = 0
    BY Rounded
  <2>4. QED
    BY <2>1, <2>2, <2>3
<1>4. PlaceOf(ty, c).pass_by_stack <=> ~Fits(ty, c)
  BY DEF PlaceOf
<1>5. ~Fits(ty, c) => PlaceOf(ty, c).stack_offset = StackOffset(ty, c)
  BY DEF PlaceOf
<1>6. ty.align > 1 => StackOffset(ty, c) = AlignTo(c.stack, ty.align)
  BY DEF StackOffset
<1>7. ~(ty.align > 1) => StackOffset(ty, c) = c.stack
  BY DEF StackOffset
<1>8. QED
  BY <1>1, <1>2, <1>3, <1>4, <1>5, <1>6, <1>7

LEMMA ClassifyArgStack ==
  ASSUME StackInv, CallInv, ClassifyArg
  PROVE  StackInv'
<1>1. /\ pc = "classify" /\ pc' = pc /\ UNCHANGED <<types, call, rsp>>
      /\ place' = Append(place, PlaceOf(Type(i), count)) /\ count' = Counted(Type(i), count)
      /\ i \in Args /\ Placed /\ Counted2 /\ rsp % 2 = 0 /\ AlignsNest
  BY DEF ClassifyArg, StackInv
<1>2. PICK t : t = Type(i)
  OBVIOUS
<1>3. t \in types /\ t \in Descriptors
  <2>1. i \in 1..Len(call.args) /\ call.args \in Seq([ty : types, shape : Shapes])
    BY <1>1 DEF Args, Placed
  <2>2. call.args[i] \in [ty : types, shape : Shapes]
    BY <2>1, ElementOfSeq
  <2>3. QED
    BY <1>1, <1>2, <2>2 DEF Type, Placed
<1>4. /\ count \in Counts /\ place \in Seq(Places) /\ Len(place) + 1 = i
      /\ t.words \in Nat \ {0} /\ t.align \in Nat \ {0}
  BY <1>1, <1>3, WordsType DEF CallInv, Typed, Run, Counting
<1>5. PICK p : p = PlaceOf(t, count)
  OBVIOUS
<1>6. p \in Places
  BY <1>3, <1>4, <1>5, CountedType
<1>7. PICK off \in Nat : off = StackOffset(t, count) /\ (t.align > 1 => off % t.align = 0)
  BY <1>3, <1>4, OffsetIs
<1>8. /\ place' \in Seq(Places) /\ Len(place') = i
      /\ \A a \in 1..(i - 1) : place'[a] = place[a]
      /\ place'[i] = p
  BY <1>1, <1>2, <1>4, <1>5, <1>6, AppendProperties
<1>9. \A a : Type(a)' = Type(a)
  BY <1>1 DEF Type
<1>10. \A a \in 1..Len(place') : a = i \/ (a \in 1..Len(place) /\ a \in 1..(i - 1))
  BY <1>4, <1>8
<1>11. p.pass_by_stack => p.stack_offset = off /\ ~Fits(t, count)
  BY <1>3, <1>4, <1>5, <1>7, OffsetIs
<1>12. Placed'
  <2>1. \A a \in 1..Len(place') : Aligned(a)' => place'[a].stack_offset % Type(a).align = 0
    <3>1. SUFFICES ASSUME NEW a \in 1..Len(place'), Aligned(a)'
                   PROVE  place'[a].stack_offset % Type(a).align = 0
      OBVIOUS
    <3>2. CASE a = i
      <4>1. p.pass_by_stack /\ t.align > 1
        BY <1>2, <1>8, <1>9, <3>1, <3>2 DEF Aligned
      <4>2. QED
        BY <1>2, <1>7, <1>8, <1>11, <3>2, <4>1
    <3>3. CASE a \in 1..Len(place) /\ a \in 1..(i - 1)
      <4>1. Aligned(a) /\ place'[a] = place[a]
        BY <1>8, <1>9, <3>1, <3>3 DEF Aligned
      <4>2. QED
        BY <1>1, <3>3, <4>1 DEF Placed
    <3>4. QED
      BY <1>10, <3>2, <3>3
  <2>2. QED
    BY <1>1, <1>9, <2>1 DEF Placed
<1>13. Counted2'
  <2>1. CASE Fits(t, count)
    <3>1. count'.stack = count.stack /\ count'.align = count.align /\ ~p.pass_by_stack
      BY <1>1, <1>2, <1>5, <2>1 DEF Counted, PlaceOf
    <3>2. QED
      BY <1>1, <1>8, <1>9, <1>10, <3>1 DEF Counted2
  <2>2. CASE ~Fits(t, count)
    <3>1. /\ count'.stack = off + t.words
          /\ count'.align = IF t.align <= 1 THEN count.align ELSE Larger(count.align, t.align)
      <4>1. count' = Counted(t, count)
        BY <1>1, <1>2
      <4>2. Counted(t, count).stack = StackOffset(t, count) + t.words
        BY <2>2 DEF Counted
      <4>3. Counted(t, count).align = IF t.align <= 1 THEN count.align ELSE Larger(count.align, t.align)
        BY <2>2 DEF Counted
      <4>4. QED
        BY <1>7, <4>1, <4>2, <4>3
    <3>2. count'.stack > 0
      BY <1>4, <1>7, <3>1
    <3>3. count.align \in Nat /\ count.align >= 2
      BY <1>1, <1>4 DEF Counted2, Counts
    <3>4. \/ count'.align = count.align /\ t.align <= count.align
          \/ count'.align = t.align /\ t.align > count.align
      BY <1>4, <3>1, <3>3 DEF Larger
    <3>5. count'.align = 2 \/ (count'.align > 2 /\ \E u \in types : u.align = count'.align)
      BY <1>1, <1>3, <1>4, <3>3, <3>4 DEF Counted2
    <3>6. ASSUME NEW a \in 1..Len(place'), place'[a].pass_by_stack
          PROVE  Type(a).align <= count'.align
      <4>1. CASE a = i
        BY <1>2, <1>4, <3>3, <3>4, <4>1
      <4>2. CASE a \in 1..Len(place) /\ a \in 1..(i - 1)
        <5>1. Type(a).align <= count.align /\ count.align <= count'.align
          BY <1>1, <1>4, <1>8, <3>3, <3>4, <3>6, <4>2 DEF Counted2
        <5>2. Type(a).align \in Nat
          <6>1. a \in 1..Len(call.args) /\ call.args \in Seq([ty : Descriptors, shape : Shapes])
            BY <4>2 DEF CallInv, Typed
          <6>2. call.args[a] \in [ty : Descriptors, shape : Shapes]
            BY <6>1, ElementOfSeq
          <6>3. QED
            BY <6>2, WordsType DEF Type
        <5>3. count'.align \in Nat
          BY <1>4, <3>3, <3>4
        <5>4. QED
          BY <3>3, <5>1, <5>2, <5>3
      <4>3. QED
        BY <1>10, <4>1, <4>2
    <3>7. QED
      BY <1>1, <1>9, <3>2, <3>5, <3>6 DEF Counted2
  <2>3. QED
    BY <2>1, <2>2
<1>14. AlignsNest'
  BY <1>1 DEF AlignsNest
<1>15. QED
  BY <1>1, <1>12, <1>13, <1>14 DEF StackInv

\* The area gets the alignment of the most aligned argument in it, a multiple of all the others.
LEMMA GenFuncallStack ==
  ASSUME StackInv, CallInv, gen_funcall
  PROVE  StackInv'
<1>1. /\ pc = "begin" /\ pc' = "spill" /\ UNCHANGED <<types, call, place>>
      /\ saved' = [rsp |-> rsp, size |-> count.stack, align |-> count.align]
      /\ rsp % 2 = 0 /\ Counted2 /\ AlignsNest /\ Placed
  BY DEF gen_funcall, StackInv
<1>2. PICK al : al = count.align
  OBVIOUS
<1>3. count.stack \in Nat /\ al \in Nat \ {0} /\ rsp \in Int
  BY <1>2 DEF CallInv, Typed, Counts
<1>4. \A a \in 1..Len(place) : Type(a) \in types /\ Type(a).align \in Nat \ {0}
  <2>1. SUFFICES ASSUME NEW a \in 1..Len(place) PROVE Type(a) \in types /\ Type(a).align \in Nat \ {0}
    OBVIOUS
  <2>2. a \in 1..Len(call.args) /\ call.args \in Seq([ty : types, shape : Shapes])
    BY <1>1 DEF Placed, CallInv, Typed
  <2>3. call.args[a] \in [ty : types, shape : Shapes]
    BY <2>2, ElementOfSeq
  <2>4. QED
    BY <1>1, <2>3, WordsType DEF Type, Placed
<1>5. rsp' \in Int /\ rsp' % 2 = 0 /\ Based(rsp')
  <2>1. CASE count.stack = 0
    <3>1. rsp' = rsp
      BY <2>1 DEF gen_funcall
    <3>2. \A a \in 1..Len(place) : ~Aligned(a)
      BY <1>1, <2>1 DEF Counted2, Aligned
    <3>3. QED
      BY <1>1, <1>3, <3>1, <3>2 DEF Based
  <2>2. CASE count.stack # 0 /\ al > 2
    <3>1. rsp' = AlignDown(rsp - count.stack, al)
      BY <1>2, <2>2 DEF gen_funcall
    <3>2. rsp' \in Int /\ rsp' % al = 0
      BY <1>3, <3>1, Rounded
    <3>3. PICK u \in types : u.align = al
      BY <1>1, <1>2, <1>3, <2>2 DEF Counted2
    <3>4. PICK two \in Nat \ {0} : two = 2
      OBVIOUS
    <3>5. rsp' % 2 = 0
      <4>1. Nest(u, u)
        BY <1>1, <3>3 DEF AlignsNest
      <4>2. al % two = 0
        BY <1>3, <2>2, <3>3, <3>4, <4>1 DEF Nest
      <4>3. rsp' % two = 0
        BY <1>3, <3>2, <4>2, Through
      <4>4. QED
        BY <3>4, <4>3
    <3>6. ASSUME NEW a \in 1..Len(place), Aligned(a)
          PROVE  rsp' % Type(a).align = 0
      <4>1. Type(a) \in types /\ Type(a).align > 1 /\ Type(a).align <= al
        BY <1>1, <1>2, <1>4, <3>6 DEF Aligned, Counted2
      <4>2. al % Type(a).align = 0
        BY <1>1, <3>3, <4>1 DEF AlignsNest, Nest
      <4>3. QED
        BY <1>3, <1>4, <3>2, <4>2, Through
    <3>7. QED
      BY <3>2, <3>5, <3>6 DEF Based
  <2>3. CASE count.stack # 0 /\ ~(al > 2)
    <3>1. rsp' = rsp - AlignTo(count.stack, 2)
      BY <1>2, <2>3 DEF gen_funcall
    <3>2. AlignTo(count.stack, 2) \in Int /\ AlignTo(count.stack, 2) % 2 = 0
      BY <1>3, Rounded
    <3>3. rsp' \in Int /\ rsp' % 2 = 0
      BY <1>1, <1>3, <3>1, <3>2, Sums
    <3>4. ASSUME NEW a \in 1..Len(place), Aligned(a)
          PROVE  Type(a).align = 2
      BY <1>1, <1>2, <1>3, <1>4, <2>3, <3>4 DEF Aligned, Counted2
    <3>5. QED
      BY <3>3, <3>4 DEF Based
  <2>4. QED
    BY <2>1, <2>2, <2>3
<1>6. Reserved'
  BY <1>1, <1>2, <1>3 DEF Reserved, gen_funcall
<1>7. Based(rsp)'
  BY <1>1, <1>5 DEF Based, Aligned, Type
<1>8. AlignsNest' /\ Placed'
  BY <1>1, StackSame
<1>9. QED
  BY <1>1, <1>5, <1>6, <1>7, <1>8 DEF StackInv

LEMMA StackStep ==
  ASSUME StackInv, CallInv, [CallNext]_callVars
  PROVE  StackInv'
<1>1. CASE funcall
  BY <1>1, FuncallStack
<1>2. CASE ClassifyArg
  BY <1>2, ClassifyArgStack
<1>3. CASE prepare_funcall
  <2>1. pc = "classify" /\ pc' = "begin" /\ UNCHANGED <<types, call, place, count, rsp>>
    BY <1>3 DEF prepare_funcall
  <2>2. QED
    BY <2>1, StackSame DEF StackInv
<1>4. CASE gen_funcall
  BY <1>4, GenFuncallStack
<1>5. CASE SpillArg \/ SkipSpill \/ Spilled \/ LoadArg \/ SkipLoad
  <2>1. pc \in {"spill", "load"} /\ pc' \in {"spill", "load"} /\ UNCHANGED <<types, call, place, rsp, saved>>
    BY <1>5 DEF SpillArg, SkipSpill, Spilled, LoadArg, SkipLoad
  <2>2. Reserved' <=> Reserved
    BY <2>1 DEF Reserved
  <2>3. Based(rsp)' <=> Based(rsp)
    BY <2>1 DEF Based, Aligned, Type
  <2>4. QED
    BY <2>1, <2>2, <2>3, StackSame DEF StackInv
<1>6. CASE CallFunction
  <2>1. pc = "load" /\ pc' = "params" /\ UNCHANGED <<types, call, place, rsp, saved>> /\ rbp' = rsp - 2
    BY <1>6 DEF CallFunction
  <2>2. Reserved' <=> Reserved
    BY <2>1 DEF Reserved
  <2>3. Based(rsp)' <=> Based(rsp)
    BY <2>1 DEF Based, Aligned, Type
  <2>4. QED
    BY <2>1, <2>2, <2>3, StackSame DEF StackInv
<1>7. CASE ClassifyParam \/ Prologue \/ ReceiveParam \/ va_start \/ va_arg
  <2>1. /\ pc \in {"params", "receive", "body"} /\ pc' \in {"params", "receive", "body"}
        /\ UNCHANGED <<types, call, place, rsp, rbp, saved>>
    BY <1>7 DEF ClassifyParam, Prologue, ReceiveParam, va_start, va_arg
  <2>2. Reserved' <=> Reserved
    BY <2>1 DEF Reserved
  <2>3. Based(rsp)' <=> Based(rsp)
    BY <2>1 DEF Based, Aligned, Type
  <2>4. QED
    BY <2>1, <2>2, <2>3, StackSame DEF StackInv
<1>8. CASE Return
  <2>1. /\ pc = "body" /\ pc' = "returned" /\ UNCHANGED <<types, call, place, saved>>
        /\ rbp = rsp - 2 /\ Reserved
    BY <1>8 DEF Return, StackInv
  <2>2. rsp \in Int /\ saved.rsp \in Int /\ saved.size \in Nat /\ saved.align \in Nat
    BY DEF CallInv, Typed
  <2>3. AlignTo(saved.size, 2) \in Int
    BY <2>2, Rounded
  <2>4. rbp + 2 = rsp
    BY <2>1, <2>2
  <2>5. rsp' = saved.rsp
    BY <1>8, <2>1, <2>2, <2>3, <2>4 DEF Return, Reserved
  <2>6. QED
    BY <2>1, <2>5, StackSame DEF StackInv
<1>9. CASE UNCHANGED callVars
  <2>1. UNCHANGED <<types, call, place, count, pc, rsp, rbp, saved>>
    BY <1>9 DEF callVars
  <2>2. (Reserved' <=> Reserved) /\ (Based(rsp)' <=> Based(rsp))
    BY <2>1 DEF Reserved, Based, Aligned, Type
  <2>3. QED
    BY <2>1, <2>2, StackSame DEF StackInv
<1>10. QED
  BY <1>1, <1>2, <1>3, <1>4, <1>5, <1>6, <1>7, <1>8, <1>9 DEF CallNext

----------------------------------------------------------------------------
(* The unnamed arguments                                                   *)

\* How far va_arg has come, and what it has returned.
VaHeld(cs) ==
  /\ got \in Seq({Words(a, Type(a)) : a \in Args})
  /\ pc \notin {"body", "returned"} => got = <<>>
  /\ pc = "params" /\ variadic => regs.al = Used(cs[Len(cs)]).fp
  /\ pc = "receive" => count = cs[call.named + 1]
  /\ pc \in {"receive", "body"} =>
       \A a \in (call.named + 1)..Len(call.args) :
         ~place[a].pass_by_stack => InRegs(va.area, Used(cs[a]), a, Type(a))
  /\ pc = "body" =>
       /\ i \in (call.named + 1)..(Len(call.args) + 1)
       /\ Len(got) = i - call.named - 1
       /\ va.gp = Used(cs[i]).gp /\ va.fp = Used(cs[i]).fp
       /\ va.st = rsp + cs[i].stack
  /\ VaArgsArrive

\* The number of words of each kind in one or two words.
LEMMA WordCounts ==
  ASSUME NEW ty \in Descriptors
  PROVE  /\ ty.words = 1 /\ ty.lo = "sse" => FpWords(ty) = 1 /\ GpWords(ty) = 0
         /\ ty.words = 1 /\ ty.lo # "sse" => FpWords(ty) = 0 /\ GpWords(ty) = 1
         /\ ty.words = 2 /\ ty.lo # "sse" /\ ty.hi # "sse" => FpWords(ty) = 0 /\ GpWords(ty) = 2
         /\ ty.words = 2 /\ (ty.lo = "sse" \/ ty.hi = "sse") => FpWords(ty) > 0
<1> DEFINE f == {w \in 1..ty.words : InFp(ty, w)}
           g == {w \in 1..ty.words : ~InFp(ty, w)}
<1>1. FpWords(ty) = Cardinality(f) /\ GpWords(ty) = Cardinality(g) /\ ty.words \in Nat
  BY WordsType DEF FpWords, GpWords
<1>2. InFp(ty, 1) <=> ty.lo = "sse"
  BY DEF InFp
<1>3. InFp(ty, 2) <=> ty.hi = "sse"
  BY DEF InFp
<1>4. \A x : Cardinality({x}) = 1
  BY FS_Singleton
<1>5. Cardinality({}) = 0
  BY FS_EmptySet
<1>6. Cardinality({1, 2}) = 2
  <2>1. IsFiniteSet({1}) /\ Cardinality({1}) = 1
    BY FS_Singleton
  <2> {1, 2} = {1} \cup {2} /\ 2 \notin {1}
    OBVIOUS
  <2>2. Cardinality({1} \cup {2}) = Cardinality({1}) + 1
    BY <2>1, FS_AddElement
  <2>3. QED
    BY <2>1, <2>2
<1>7. ty.words = 1 => 1..ty.words = {1}
  OBVIOUS
<1>8. ty.words = 2 => 1..ty.words = {1, 2}
  OBVIOUS
<1>9. ASSUME ty.words = 1, ty.lo = "sse" PROVE FpWords(ty) = 1 /\ GpWords(ty) = 0
  <2>1. f = {1} /\ g = {}
    BY <1>2, <1>7, <1>9
  <2>2. QED
    BY <1>1, <1>4, <1>5, <2>1
<1>10. ASSUME ty.words = 1, ty.lo # "sse" PROVE FpWords(ty) = 0 /\ GpWords(ty) = 1
  <2>1. f = {} /\ g = {1}
    BY <1>2, <1>7, <1>10
  <2>2. QED
    BY <1>1, <1>4, <1>5, <2>1
<1>11. ASSUME ty.words = 2, ty.lo # "sse", ty.hi # "sse" PROVE FpWords(ty) = 0 /\ GpWords(ty) = 2
  <2>1. f = {} /\ g = {1, 2}
    BY <1>2, <1>3, <1>8, <1>11
  <2>2. QED
    BY <1>1, <1>5, <1>6, <2>1
<1>12. ASSUME ty.words = 2, ty.lo = "sse" \/ ty.hi = "sse" PROVE FpWords(ty) > 0
  <2>1. f # {}
    BY <1>2, <1>3, <1>8, <1>12
  <2>2. IsFiniteSet(f)
    <3>1. IsFiniteSet(1..ty.words) /\ f \subseteq 1..ty.words
      BY <1>1, FS_Interval
    <3>2. QED
      BY <3>1, FS_Subset
  <2>3. Cardinality(f) # 0
    BY <2>1, <2>2, FS_EmptySet
  <2>4. QED
    BY <1>1, <2>2, <2>3, FS_CardinalityType
<1>13. QED
  BY <1>9, <1>10, <1>11, <1>12

\* va_arg looks into the save area exactly for what calling_convention gave registers.
LEMMA AreaIsFits ==
  ASSUME NEW ty \in Descriptors, NEW c \in Counts, va.gp = Used(c).gp, va.fp = Used(c).fp
  PROVE  InArea(ty) <=> Fits(ty, c)
<1> DEFINE F == FpWords(ty)
           G == GpWords(ty)
<1>1. /\ F \in Nat /\ G \in Nat /\ ty.words \in Nat \ {0} /\ c.gp \in Nat /\ c.fp \in Nat
      /\ GP_MAX \in Nat \ {0} /\ FP_MAX \in Nat \ {0}
  BY WordsType, RegisterAssumption DEF Counts
<1>2. va.gp = Smaller(c.gp, GP_MAX) /\ va.fp = Smaller(c.fp, FP_MAX)
  BY DEF Used
<1>3. \A x, n \in Nat, m \in Nat \ {0} : n # 0 => (Smaller(x, m) <= m - n <=> x + n <= m)
  BY DEF Smaller
<1>4. /\ G # 0 => (va.gp <= GP_MAX - G <=> c.gp + G <= GP_MAX)
      /\ F # 0 => (va.fp <= FP_MAX - F <=> c.fp + F <= FP_MAX)
  BY <1>1, <1>2, <1>3
<1>5. /\ ty.kind \in {"int", "fp"} => ty.words = 1
      /\ ty.kind = "fp" <=> (ty.lo = "sse" /\ ty.kind \in {"int", "fp"})
      /\ ty.kind = "x87" => ty.all = "x87"
      /\ ty.kind = "int" => ty.all = "int"
      /\ ty.kind = "fp" => ty.all = "sse"
      /\ ty.kind \in Kinds
  BY DEF Descriptors
<1>6. /\ ty.words = 1 /\ ty.lo = "sse" => F = 1 /\ G = 0
      /\ ty.words = 1 /\ ty.lo # "sse" => F = 0 /\ G = 1
      /\ ty.words = 2 /\ ty.lo # "sse" /\ ty.hi # "sse" => F = 0 /\ G = 2
      /\ ty.words = 2 /\ (ty.lo = "sse" \/ ty.hi = "sse") => F > 0
  BY WordCounts
<1> HIDE DEF F, G
<1>7. PICK room \in BOOLEAN : room <=> (F = 0 \/ c.fp + F <= FP_MAX) /\ (G = 0 \/ c.gp + G <= GP_MAX)
  OBVIOUS
<1>8. CASE ~is_by_reg_agg(ty)
  <2>1. ~InArea(ty)
    BY <1>8 DEF InArea
  <2>2. ty.kind \notin {"int", "fp"}
    BY <1>5, <1>8 DEF is_by_reg_agg
  <2>3. ~Fits(ty, c)
    BY <1>5, <1>8, <2>2 DEF Fits, Kinds
  <2>4. QED
    BY <2>1, <2>3
<1>9. CASE is_by_reg_agg(ty)
  <2>1. ty.words \in {1, 2} /\ ty.kind # "x87"
    BY <1>1, <1>5, <1>9 DEF is_by_reg_agg
  <2>2. InArea(ty) <=> room
    <3>1. CASE va_arg_need_copy(ty)
      <4>1. ty.words = 2 /\ F > 0
        BY <1>6, <3>1 DEF va_arg_need_copy
      <4>2. InArea(ty) <=> (G = 0 \/ va.gp <= GP_MAX - G) /\ va.fp <= FP_MAX - F
        BY <1>9, <3>1 DEF InArea, F, G
      <4>3. QED
        BY <1>1, <1>4, <1>7, <4>1, <4>2
    <3>2. CASE ~va_arg_need_copy(ty) /\ ty.lo = "sse"
      <4>1. F = 1 /\ G = 0
        BY <1>6, <2>1, <3>2 DEF va_arg_need_copy
      <4>2. InArea(ty) <=> va.fp <= FP_MAX - 1
        BY <1>9, <3>2 DEF InArea
      <4>3. QED
        BY <1>1, <1>4, <1>7, <4>1, <4>2
    <3>3. CASE ~va_arg_need_copy(ty) /\ ty.lo # "sse"
      <4>1. F = 0 /\ G = ty.words
        BY <1>6, <2>1, <3>3 DEF va_arg_need_copy
      <4>2. InArea(ty) <=> va.gp <= GP_MAX - ty.words
        BY <1>9, <3>3 DEF InArea
      <4>3. QED
        BY <1>1, <1>4, <1>7, <4>1, <4>2
    <3>4. QED
      BY <3>1, <3>2, <3>3
  <2>3. Fits(ty, c) <=> room
    <3>1. CASE ty.kind \in {"bitint", "record"}
      <4>1. Fits(ty, c) <=> (F = 0 \/ c.fp + F <= FP_MAX) /\ (G = 0 \/ c.gp + G <= GP_MAX)
        BY <1>9, <3>1 DEF Fits, F, G
      <4>2. QED
        BY <1>7, <4>1
    <3>2. CASE ty.kind = "fp"
      <4>1. F = 1 /\ G = 0
        BY <1>5, <1>6, <3>2
      <4>2. Fits(ty, c) <=> c.fp < FP_MAX
        BY <3>2 DEF Fits
      <4>3. QED
        BY <1>1, <1>7, <4>1, <4>2
    <3>3. CASE ty.kind = "int"
      <4>1. F = 0 /\ G = 1
        BY <1>5, <1>6, <3>3
      <4>2. Fits(ty, c) <=> c.gp < GP_MAX
        BY <3>3 DEF Fits
      <4>3. QED
        BY <1>1, <1>7, <4>1, <4>2
    <3>4. QED
      BY <1>5, <2>1, <3>1, <3>2, <3>3 DEF Kinds
  <2>4. QED
    BY <2>2, <2>3
<1>10. QED
  BY <1>8, <1>9

LEMMA VaBegins ==
  ASSUME CallInit, NEW cs
  PROVE  VaHeld(cs)
<1>1. pc = "idle" /\ got = <<>> /\ call.args = <<>>
  BY DEF CallInit, Idle
<1>2. QED
  BY <1>1 DEF VaHeld, VaArgsArrive

\* Before the callee runs nothing is known of its va_list.
LEMMA VaBefore ==
  ASSUME got = <<>>, UNCHANGED got, pc' \in Calling, NEW cs
  PROVE  VaHeld(cs)'
<1>1. got' = <<>> /\ got' \in Seq({Words(a, Type(a)) : a \in Args})'
  OBVIOUS
<1>2. pc' \notin {"params", "receive", "body", "returned"}
  BY DEF Calling
<1>3. VaArgsArrive'
  BY <1>2 DEF VaArgsArrive
<1>4. QED
  BY <1>1, <1>2, <1>3 DEF VaHeld

\* What VaHeld says of the arguments depends on the call alone.
LEMMA VaSame ==
  ASSUME UNCHANGED <<call, place, got>>
  PROVE  /\ {Words(a, Type(a)) : a \in Args}' = {Words(a, Type(a)) : a \in Args}
         /\ variadic' <=> variadic
         /\ \A rs, base, a : InRegs(rs, base, a, Type(a))' <=> InRegs(rs, base, a, Type(a))
         /\ \A k : Words(call.named + k, Type(call.named + k))' = Words(call.named + k, Type(call.named + k))
<1>1. Args' = Args /\ \A a : Type(a)' = Type(a)
  BY DEF Args, Type
<1>2. \A a : Words(a, Type(a))' = Words(a, Type(a))
  BY <1>1 DEF Words
<1>3. QED
  BY <1>1, <1>2 DEF variadic, InRegs, Words

LEMMA VaCall ==
  ASSUME Typed, NEW cs, Run(cs), VaHeld(cs), CallFunction
  PROVE  VaHeld(cs)'
<1>1. /\ pc = "load" /\ pc' = "params" /\ i \notin Args /\ got = <<>> /\ got' = <<>>
      /\ UNCHANGED <<call, place, got>> /\ count = cs[Len(cs)]
      /\ regs' = [regs EXCEPT !.gp = IF call.rtn_by_stk THEN [@ EXCEPT ![0] = RtnBuf] ELSE @,
                              !.al = IF variadic THEN fp_count ELSE @]
  BY DEF CallFunction, VaHeld, Run, Counting, Calling
<1>2. variadic => regs'.al = Used(cs[Len(cs)]).fp
  <2>1. regs \in RegFiles
    BY DEF Typed
  <2>2. variadic => regs'.al = fp_count
    BY <1>1, <2>1 DEF RegFiles
  <2>3. QED
    BY <1>1, <2>2 DEF fp_count, Used
<1>3. VaArgsArrive'
  BY <1>1 DEF VaArgsArrive
<1>4. got' \in Seq({Words(a, Type(a)) : a \in Args})'
  BY <1>1
<1>5. QED
  BY <1>1, <1>2, <1>3, <1>4, VaSame DEF VaHeld

LEMMA VaClassifyParam ==
  ASSUME Typed, NEW cs, Run(cs), VaHeld(cs), ClassifyParam
  PROVE  VaHeld(cs)'
<1>1. /\ pc = "params" /\ pc' = "params" /\ got = <<>> /\ got' = <<>>
      /\ UNCHANGED <<call, place, got, regs>>
  BY DEF ClassifyParam, VaHeld
<1>2. VaArgsArrive' /\ got' \in Seq({Words(a, Type(a)) : a \in Args})'
  BY <1>1 DEF VaArgsArrive
<1>3. QED
  BY <1>1, <1>2, VaSame DEF VaHeld

\* The prologue saves the registers from the counts of the named parameters on, and every
\* unnamed argument was loaded into those.
LEMMA VaPrologue ==
  ASSUME Typed, NEW cs, Run(cs), VaHeld(cs), Prologue
  PROVE  VaHeld(cs)'
<1>1. /\ pc = "params" /\ pc' = "receive" /\ got = <<>> /\ got' = <<>>
      /\ UNCHANGED <<call, place, got, regs, count>> /\ i \notin 1..call.named
      /\ i = Len(param) + 1 /\ count = cs[i] /\ Len(place) = Len(call.args)
      /\ variadic => regs.al = Used(cs[Len(cs)]).fp
  BY DEF Prologue, VaHeld, Run, Counting, Calling
<1>2. /\ call.named \in Nat /\ Len(call.args) \in Nat /\ Len(param) <= call.named /\ Len(param) \in Nat
      /\ call.named <= Len(call.args) /\ Len(cs) = Len(place) + 1
  <2>1. Len(cs) = Len(place) + 1
    BY DEF Run, Chain
  <2>2. call.named \in Nat /\ Len(call.args) \in Nat /\ call.named <= Len(call.args)
    BY DEF Typed
  <2>3. Len(param) <= call.named /\ Len(param) \in Nat
    BY DEF Typed
  <2>4. QED
    BY <2>1, <2>2, <2>3
<1>3. i = call.named + 1 /\ i \in 1..Len(cs)
  BY <1>1, <1>2
<1>4. PICK g \in 0..GP_MAX : g = Used(cs[i]).gp
  BY <1>3, UsedGrows DEF Run
<1>5. PICK f \in 0..FP_MAX : f = Used(cs[i]).fp
  BY <1>3, UsedGrows DEF Run
<1>6. gp_count = g /\ fp_count = f
  BY <1>1, <1>4, <1>5 DEF gp_count, fp_count, Used
<1>7. ASSUME variadic
      PROVE  /\ \A r \in g..(GP_MAX - 1) : va'.area.gp[r] = regs.gp[r]
             /\ regs.al # 0 => \A r \in f..(FP_MAX - 1) : va'.area.fp[r] = regs.fp[r]
  <2>1. va' = [va EXCEPT !.area =
                   [gp |-> [r \in DOMAIN regs.gp |-> IF r >= g THEN regs.gp[r] ELSE Junk],
                    fp |-> [r \in DOMAIN regs.fp |-> IF regs.al # 0 /\ r >= f THEN regs.fp[r] ELSE Junk],
                    al |-> 0]]
    BY <1>6, <1>7 DEF Prologue
  <2>2. va \in [gp : Nat, fp : Nat, st : Int, area : RegFiles]
    BY DEF Typed
  <2>3. va'.area = [gp |-> [r \in DOMAIN regs.gp |-> IF r >= g THEN regs.gp[r] ELSE Junk],
                    fp |-> [r \in DOMAIN regs.fp |-> IF regs.al # 0 /\ r >= f THEN regs.fp[r] ELSE Junk],
                    al |-> 0]
    BY <2>1, <2>2
  <2>4. DOMAIN regs.gp = 0..(GP_MAX - 1) /\ DOMAIN regs.fp = 0..(FP_MAX - 1)
    BY DEF Typed, RegFiles
  <2>5. va'.area.gp = [r \in 0..(GP_MAX - 1) |-> IF r >= g THEN regs.gp[r] ELSE Junk]
    BY <2>3, <2>4
  <2>6. va'.area.fp = [r \in 0..(FP_MAX - 1) |-> IF regs.al # 0 /\ r >= f THEN regs.fp[r] ELSE Junk]
    BY <2>3, <2>4
  <2>7. GP_MAX \in Nat /\ FP_MAX \in Nat
    BY RegisterAssumption
  <2>8. QED
    BY <2>5, <2>6, <2>7
<1>8. ASSUME NEW a \in (call.named + 1)..Len(call.args), ~place[a].pass_by_stack
      PROVE  InRegs(va'.area, Used(cs[a]), a, Type(a))
  <2>1. a \in Nat /\ a >= call.named + 1 /\ a <= Len(call.args) /\ Len(cs) = Len(call.args) + 1
    BY <1>1, <1>2
  <2>2. variadic /\ a \in 1..Len(place) /\ a \in Args /\ a \in Nat /\ i <= a
        /\ a \in 1..Len(cs) /\ a + 1 \in 1..Len(cs) /\ Len(cs) \in 1..Len(cs) /\ a + 1 <= Len(cs)
    <3>1. variadic
      BY <1>2, <2>1 DEF variadic
    <3>2. a \in 1..Len(call.args) /\ a \in 1..Len(cs) /\ a + 1 \in 1..Len(cs) /\ Len(cs) \in 1..Len(cs)
      BY <1>2, <2>1
    <3>3. QED
      BY <1>1, <1>3, <2>1, <3>1, <3>2 DEF Args
  <2>3. InRegs(regs, Used(cs[a]), a, Type(a))
    BY <1>1, <1>8, <2>2 DEF Run, RegsHeld
  <2>4. PICK t : t = Type(a)
    OBVIOUS
  <2>5. /\ t \in Descriptors /\ t.words <= 2
        /\ Used(cs[a]).gp + GpWords(t) <= GP_MAX
        /\ Used(cs[a]).fp + FpWords(t) <= FP_MAX
        /\ Used(cs[a + 1]) = [gp |-> Used(cs[a]).gp + GpWords(t), fp |-> Used(cs[a]).fp + FpWords(t)]
    BY <1>8, <2>2, <2>4, ChainFacts DEF Run
  <2> Chain(cs)
    BY DEF Run
  <2>6. /\ Used(cs[a]) \in [gp : 0..GP_MAX, fp : 0..FP_MAX]
         /\ Used(cs[i]).gp <= Used(cs[a]).gp /\ Used(cs[i]).fp <= Used(cs[a]).fp
    BY <1>3, <2>2, UsedGrows
  <2>7. PICK ug \in Nat : ug = Used(cs[a]).gp /\ g <= ug
    BY <1>4, <2>6
  <2>8. PICK uf \in Nat : uf = Used(cs[a]).fp /\ f <= uf
    BY <1>5, <2>6
  <2>9. Used(cs[a + 1]).fp <= Used(cs[Len(cs)]).fp /\ Used(cs[Len(cs)]).fp \in Nat
    BY <2>2, UsedGrows
  <2>10. SUFFICES ASSUME NEW w \in 1..t.words
                 PROVE  IF InFp(t, w) THEN va'.area.fp[uf + Before(t, w)] = Word(a, w)
                        ELSE va'.area.gp[ug + Before(t, w)] = Word(a, w)
    BY <2>4, <2>7, <2>8 DEF InRegs
  <2>11. PICK k \in Nat : k = Before(t, w) /\ k < IF InFp(t, w) THEN FpWords(t) ELSE GpWords(t)
    BY <2>5, RegWords
  <2>12. FpWords(t) \in Nat /\ GpWords(t) \in Nat /\ GP_MAX \in Nat /\ FP_MAX \in Nat
    BY <2>5, WordsType, RegisterAssumption
  <2>13. CASE InFp(t, w)
    <3>1. regs.fp[uf + k] = Word(a, w)
      BY <2>3, <2>4, <2>8, <2>11, <2>13 DEF InRegs
    <3>2. uf + k \in f..(FP_MAX - 1)
      <4>1. PICK n \in Nat : k < n /\ uf + n <= FP_MAX
        BY <2>5, <2>8, <2>11, <2>13, <2>12
      <4>2. f <= uf /\ f \in Nat /\ FP_MAX \in Nat
        BY <2>8, <2>12
      <4>3. QED
        BY <2>12, <4>1, <4>2
    <3>3. regs.al = Used(cs[Len(cs)]).fp /\ Used(cs[a + 1]).fp = uf + FpWords(t)
      BY <1>1, <2>2, <2>5, <2>8
    <3>4. regs.al # 0
      BY <2>9, <2>11, <2>12, <2>13, <3>3
    <3>5. QED
      BY <1>7, <2>2, <2>11, <2>13, <3>1, <3>2, <3>4
  <2>14. CASE ~InFp(t, w)
    <3>1. regs.gp[ug + k] = Word(a, w)
      BY <2>3, <2>4, <2>7, <2>11, <2>14 DEF InRegs
    <3>2. ug + k \in g..(GP_MAX - 1)
      <4>1. PICK n \in Nat : k < n /\ ug + n <= GP_MAX
        BY <2>5, <2>7, <2>11, <2>14, <2>12
      <4>2. g <= ug /\ g \in Nat /\ GP_MAX \in Nat
        BY <2>7, <2>12
      <4>3. QED
        BY <2>12, <4>1, <4>2
    <3>3. QED
      BY <1>7, <2>2, <2>11, <2>14, <3>1, <3>2
  <2>15. QED
    BY <2>13, <2>14
<1>9. VaArgsArrive' /\ got' \in Seq({Words(a, Type(a)) : a \in Args})'
  BY <1>1 DEF VaArgsArrive
<1>10. \A a \in (call.named + 1)..Len(call.args) :
         ~place[a].pass_by_stack => InRegs(va.area, Used(cs[a]), a, Type(a))'
  BY <1>1, <1>8 DEF InRegs, Type
<1>11. QED
  BY <1>1, <1>3, <1>9, <1>10 DEF VaHeld

LEMMA VaReceive ==
  ASSUME Typed, NEW cs, Run(cs), VaHeld(cs), ReceiveParam
  PROVE  VaHeld(cs)'
<1>1. /\ pc = "receive" /\ pc' = "receive" /\ got = <<>> /\ got' = <<>>
      /\ UNCHANGED <<call, place, got, regs, count, va>>
  BY DEF ReceiveParam, VaHeld
<1>2. VaArgsArrive' /\ got' \in Seq({Words(a, Type(a)) : a \in Args})'
  BY <1>1 DEF VaArgsArrive
<1>3. \A a : InRegs(va.area, Used(cs[a]), a, Type(a))' <=> InRegs(va.area, Used(cs[a]), a, Type(a))
  BY <1>1 DEF InRegs, Type
<1>4. QED
  BY <1>1, <1>2, <1>3 DEF VaHeld

LEMMA VaStart ==
  ASSUME Typed, NEW cs, Run(cs), VaHeld(cs), va_start
  PROVE  VaHeld(cs)'
<1>1. /\ pc = "receive" /\ pc' = "body" /\ got = <<>> /\ got' = <<>>
      /\ UNCHANGED <<call, place, got, count, rsp>>
      /\ va' = [va EXCEPT !.gp = gp_count, !.fp = fp_count, !.st = rbp + 2 + count.stack]
      /\ i' = call.named + 1 /\ rsp = rbp + 2 /\ count = cs[call.named + 1]
  BY DEF va_start, VaHeld, Run, Counting
<1>2. va \in [gp : Nat, fp : Nat, st : Int, area : RegFiles] /\ call.named \in Nat
      /\ Len(call.args) \in Nat /\ call.named <= Len(call.args)
  BY DEF Typed
<1>3. /\ va'.gp = Used(count).gp /\ va'.fp = Used(count).fp
      /\ va'.st = rsp + count.stack /\ va'.area = va.area
  BY <1>1, <1>2 DEF gp_count, fp_count, Used
<1>4. i' \in (call.named + 1)..(Len(call.args) + 1) /\ Len(got') = i' - call.named - 1
  <2>1. Len(got') = 0
    BY <1>1
  <2>2. QED
    BY <1>1, <1>2, <2>1
<1>5. VaArgsArrive' /\ got' \in Seq({Words(a, Type(a)) : a \in Args})'
  BY <1>1 DEF VaArgsArrive
<1>6. \A a : InRegs(va.area, Used(cs[a]), a, Type(a))' <=> InRegs(va.area, Used(cs[a]), a, Type(a))
  BY <1>1, <1>3 DEF InRegs, Type
<1>7. \A a \in (call.named + 1)..Len(call.args) :
         ~place[a].pass_by_stack => InRegs(va.area, Used(cs[a]), a, Type(a))
  BY <1>1 DEF VaHeld
<1>8. QED
  BY <1>1, <1>3, <1>4, <1>5, <1>6, <1>7 DEF VaHeld

\* What va_arg returns, and where the va_list stands after it.
LEMMA VaArgIs ==
  ASSUME Typed, NEW cs, Run(cs), VaHeld(cs), StackInv, va_arg
  PROVE  /\ got' = Append(got, Words(i, Type(i)))
         /\ va'.gp = Used(cs[i + 1]).gp /\ va'.fp = Used(cs[i + 1]).fp
         /\ va'.st = rsp + cs[i + 1].stack
         /\ va'.area = va.area
<1>1. /\ pc = "body" /\ i \in Args /\ i \in (call.named + 1)..Len(call.args)
      /\ va.gp = Used(cs[i]).gp /\ va.fp = Used(cs[i]).fp /\ va.st = rsp + cs[i].stack
      /\ i \in 1..Len(place)
  <2>1. pc = "body" /\ i \in Args /\ i \in (call.named + 1)..(Len(call.args) + 1)
        /\ va.gp = Used(cs[i]).gp /\ va.fp = Used(cs[i]).fp /\ va.st = rsp + cs[i].stack
    BY DEF va_arg, VaHeld
  <2>2. Len(place) = Len(call.args) /\ call.named \in Nat /\ Len(call.args) \in Nat
    BY <2>1 DEF Run, Counting, Calling, Typed
  <2>3. QED
    BY <2>1, <2>2 DEF Args
<1> Chain(cs)
  BY DEF Run
<1>2. PICK t : t = Type(i)
  OBVIOUS
<1>3. PICK c : c = cs[i]
  OBVIOUS
<1>4. PICK d : d = cs[i + 1]
  OBVIOUS
<1>5. /\ t \in Descriptors /\ c \in Counts /\ place[i] = PlaceOf(t, c) /\ d = Counted(t, c)
      /\ ~place[i].pass_by_stack =>
              /\ t.words <= 2
              /\ Used(d) = [gp |-> Used(c).gp + GpWords(t), fp |-> Used(c).fp + FpWords(t)]
      /\ place[i].pass_by_stack => Used(d) = Used(c)
  BY <1>1, <1>2, <1>3, <1>4, ChainFacts
<1>6. InArea(t) <=> Fits(t, c)
  BY <1>1, <1>3, <1>5, AreaIsFits
<1>7. place[i].pass_by_stack <=> ~Fits(t, c)
  BY <1>5, OffsetIs
<1>8. va \in [gp : Nat, fp : Nat, st : Int, area : RegFiles] /\ rsp \in Int
  BY DEF Typed
<1>9. CASE InArea(t)
  <2>1. got' = Append(got, FromArea(t)) /\ va' = [va EXCEPT !.gp = @ + GpWords(t), !.fp = @ + FpWords(t)]
    BY <1>2, <1>9 DEF va_arg
  <2>2. InRegs(va.area, Used(c), i, t)
    BY <1>1, <1>2, <1>3, <1>6, <1>7, <1>9 DEF VaHeld
  <2>3. ASSUME NEW w \in 1..t.words
        PROVE  (IF InFp(t, w) THEN va.area.fp[va.fp + Before(t, w)]
                ELSE va.area.gp[va.gp + Before(t, w)]) = Word(i, w)
    BY <1>1, <1>3, <2>2 DEF InRegs
  <2>4. FromArea(t) = Words(i, t)
    BY <2>3 DEF FromArea, Words, Before
  <2>5. /\ va'.gp = va.gp + GpWords(t) /\ va'.fp = va.fp + FpWords(t)
        /\ va'.st = va.st /\ va'.area = va.area
    BY <1>8, <2>1
  <2>6. Used(d).gp = Used(c).gp + GpWords(t) /\ Used(d).fp = Used(c).fp + FpWords(t)
    BY <1>5, <1>6, <1>7, <1>9
  <2>7. d.stack = c.stack
    BY <1>5, <1>6, <1>9 DEF Counted
  <2>8. QED
    BY <1>1, <1>2, <1>3, <1>4, <2>1, <2>4, <2>5, <2>6, <2>7
<1>10. CASE ~InArea(t)
  <2>1. PICK off \in Nat : off = StackOffset(t, c)
    BY <1>5, OffsetIs
  <2>2. OverflowAt(t) = rsp + off
    <3>1. c.stack \in Nat /\ t.align \in Nat \ {0}
      BY <1>5, WordsType DEF Counts
    <3>2. CASE t.align <= 1
      BY <1>1, <1>3, <2>1, <3>1, <3>2 DEF OverflowAt, StackOffset
    <3>3. CASE ~(t.align <= 1)
      <4>1. Aligned(i)
        BY <1>2, <1>6, <1>7, <1>10, <3>1, <3>3 DEF Aligned
      <4>2. rsp % t.align = 0
        BY <1>1, <1>2, <4>1 DEF StackInv, Based
      <4>3. AlignTo(rsp + c.stack, t.align) = rsp + AlignTo(c.stack, t.align)
        <5>1. PICK x \in Int : x = c.stack
          BY <3>1
        <5>2. PICK a \in Nat \ {0} : a = t.align
          BY <3>1
        <5>3. AlignTo(rsp + x, a) = rsp + AlignTo(x, a)
          BY <1>8, <4>2, <5>2, RoundAbove
        <5>4. QED
          BY <5>1, <5>2, <5>3
      <4>4. OverflowAt(t) = AlignTo(rsp + c.stack, t.align)
        BY <1>1, <1>3, <3>3 DEF OverflowAt
      <4>5. off = AlignTo(c.stack, t.align)
        BY <2>1, <3>1, <3>3 DEF StackOffset
      <4>6. QED
        BY <4>3, <4>4, <4>5
    <3>4. QED
      BY <3>2, <3>3
  <2>3. /\ got' = Append(got, [w \in 1..t.words |-> AtStack(rsp + off + w - 1)])
        /\ va' = [va EXCEPT !.st = rsp + off + t.words]
    BY <1>2, <1>10, <2>2 DEF va_arg
  <2>4. OnStack(i)
    BY <1>1, <1>6, <1>7, <1>10 DEF Run, StackHeld
  <2>5. place[i].stack_offset = off
    BY <1>5, <1>6, <1>7, <1>10, <2>1, OffsetIs
  <2>6. ASSUME NEW w \in 1..t.words PROVE AtStack(rsp + off + w - 1) = Word(i, w)
    BY <1>2, <2>4, <2>5 DEF OnStack, Holds, Words, AtStack
  <2>7. [w \in 1..t.words |-> AtStack(rsp + off + w - 1)] = Words(i, t)
    BY <2>6 DEF Words
  <2>8. d.stack = off + t.words
    BY <1>5, <1>6, <1>10, <2>1 DEF Counted
  <2>9. va'.st = rsp + off + t.words /\ va'.gp = va.gp /\ va'.fp = va.fp /\ va'.area = va.area
    BY <1>8, <2>3
  <2>10. rsp + d.stack = rsp + off + t.words
    <3>1. t.words \in Nat
      BY <1>5, WordsType
    <3>2. QED
      BY <1>8, <2>1, <2>8, <3>1
  <2>11. Used(d) = Used(c)
    BY <1>5, <1>6, <1>7, <1>10
  <2>12. QED
    BY <1>1, <1>2, <1>3, <1>4, <2>3, <2>7, <2>9, <2>10, <2>11
<1>11. QED
  BY <1>9, <1>10

LEMMA VaArgHeld ==
  ASSUME Typed, NEW cs, Run(cs), VaHeld(cs), StackInv, va_arg
  PROVE  VaHeld(cs)'
<1>1. /\ pc = "body" /\ pc' = "body" /\ i \in Args /\ i' = i + 1 /\ UNCHANGED <<call, place, rsp>>
      /\ i \in (call.named + 1)..(Len(call.args) + 1) /\ Len(got) = i - call.named - 1
      /\ got \in Seq({Words(a, Type(a)) : a \in Args}) /\ VaArgsArrive
  BY DEF va_arg, VaHeld
<1>2. call.named \in Nat /\ Len(call.args) \in Nat /\ i \in 1..Len(call.args)
  BY <1>1 DEF Typed, Args
<1>3. PICK ws \in {Words(a, Type(a)) : a \in Args} : ws = Words(i, Type(i))
  BY <1>1
<1>4. /\ got' = Append(got, ws)
      /\ va'.gp = Used(cs[i + 1]).gp /\ va'.fp = Used(cs[i + 1]).fp
      /\ va'.st = rsp + cs[i + 1].stack
      /\ va'.area = va.area
  BY <1>3, VaArgIs
<1>5. /\ got' \in Seq({Words(a, Type(a)) : a \in Args}) /\ Len(got') = Len(got) + 1
      /\ \A k \in 1..Len(got) : got'[k] = got[k]
      /\ got'[Len(got) + 1] = ws
  BY <1>1, <1>3, <1>4, AppendProperties
<1>6. Args' = Args /\ \A a : Type(a)' = Type(a)
  BY <1>1 DEF Args, Type
<1>7. got' \in Seq({Words(a, Type(a)) : a \in Args})'
  BY <1>5, <1>6 DEF Words
<1>8. /\ i' \in (call.named + 1)..(Len(call.args) + 1) /\ Len(got') = i' - call.named - 1
      /\ Len(got) \in Nat /\ i = call.named + (Len(got) + 1)
  <2>1. Len(got) \in Nat
    BY <1>1, LenProperties
  <2>2. PICK n \in Nat : n = Len(got)
    BY <2>1
  <2>3. i = call.named + (n + 1)
    BY <1>1, <1>2, <2>2
  <2>4. i' = i + 1 /\ Len(got') = n + 1
    BY <1>1, <1>5, <2>2
  <2>5. i' - call.named - 1 = n + 1 /\ i' >= call.named + 1 /\ i' \in Nat /\ i' <= Len(call.args) + 1
    BY <1>2, <2>3, <2>4
  <2>6. i' \in (call.named + 1)..(Len(call.args) + 1)
    BY <1>2, <2>5
  <2>7. QED
    BY <2>1, <2>2, <2>3, <2>4, <2>5, <2>6
<1>9. ASSUME NEW k \in DOMAIN got'
      PROVE  got'[k] = Words(call.named + k, Type(call.named + k))
  <2>1. k \in 1..Len(got) \/ k = Len(got) + 1
    <3>1. DOMAIN got' = 1..(Len(got) + 1)
      BY <1>5, LenProperties
    <3>2. QED
      BY <1>8, <3>1
  <2>2. CASE k \in 1..Len(got)
    <3>1. k \in DOMAIN got
      BY <1>1, <2>2, LenProperties
    <3>2. QED
      BY <1>1, <1>5, <2>2, <3>1 DEF VaArgsArrive
  <2>3. CASE k = Len(got) + 1
    BY <1>3, <1>5, <1>8, <2>3
  <2>4. QED
    BY <2>1, <2>2, <2>3
<1>10. VaArgsArrive'
  BY <1>1, <1>6, <1>9 DEF VaArgsArrive, Words
<1>11. \A a \in (call.named + 1)..Len(call.args) :
         ~place[a].pass_by_stack => InRegs(va.area, Used(cs[a]), a, Type(a))
  BY <1>1 DEF VaHeld
<1>12. \A a : InRegs(va.area, Used(cs[a]), a, Type(a))' <=> InRegs(va.area, Used(cs[a]), a, Type(a))
  BY <1>1, <1>4 DEF InRegs, Type
<1>13. QED
  BY <1>1, <1>4, <1>7, <1>8, <1>10, <1>11, <1>12 DEF VaHeld

LEMMA VaReturn ==
  ASSUME Typed, NEW cs, Run(cs), VaHeld(cs), Return
  PROVE  VaHeld(cs)'
<1>1. pc = "body" /\ pc' = "returned" /\ UNCHANGED <<call, place, got>>
      /\ got \in Seq({Words(a, Type(a)) : a \in Args}) /\ VaArgsArrive
  BY DEF Return, VaHeld
<1>2. VaArgsArrive'
  BY <1>1, VaSame DEF VaArgsArrive
<1>3. got' \in Seq({Words(a, Type(a)) : a \in Args})'
  BY <1>1, VaSame
<1>4. QED
  BY <1>1, <1>2, <1>3 DEF VaHeld

LEMMA VaStutter ==
  ASSUME Typed, NEW cs, Run(cs), VaHeld(cs), UNCHANGED callVars
  PROVE  VaHeld(cs)'
<1>1. UNCHANGED <<call, place, got, pc, i, count, regs, va, rsp>>
  BY DEF callVars
<1>2. \A a : InRegs(va.area, Used(cs[a]), a, Type(a))' <=> InRegs(va.area, Used(cs[a]), a, Type(a))
  BY <1>1 DEF InRegs, Type
<1>3. VaArgsArrive' <=> VaArgsArrive
  BY <1>1, VaSame DEF VaArgsArrive
<1>4. QED
  BY <1>1, <1>2, <1>3, VaSame DEF VaHeld

VaInv == Typed /\ StackInv /\ \E cs : Run(cs) /\ VaHeld(cs)

LEMMA VaStep ==
  ASSUME NoRedeclaration, VaInv, [CallNext]_callVars
  PROVE  VaInv'
<1>1. Typed /\ StackInv
  BY DEF VaInv
<1>2. PICK cs : Run(cs) /\ VaHeld(cs)
  BY DEF VaInv
<1>3. CallInv
  BY <1>1, <1>2 DEF CallInv
<1>4. StackInv' /\ CallInv'
  BY <1>1, <1>3, StackStep, CallStep
<1>5. Typed'
  BY <1>4 DEF CallInv
<1>6. SUFFICES \E ds : Run(ds)' /\ VaHeld(ds)'
  BY <1>4, <1>5 DEF VaInv
<1>7. CASE pc' \in Calling /\ UNCHANGED got
  <2>1. PICK ds : Run(ds)'
    BY <1>4 DEF CallInv
  <2>2. got = <<>>
    <3>1. CASE pc \in {"body", "returned"}
      BY <1>7, <3>1 DEF CallNext, funcall, ClassifyArg, prepare_funcall, gen_funcall, SpillArg, SkipSpill, Spilled,
           LoadArg, SkipLoad, CallFunction, ClassifyParam, Prologue, ReceiveParam, va_start, va_arg, Return,
           callVars, Calling
    <3>2. QED
      BY <1>2, <3>1 DEF VaHeld
  <2>3. VaHeld(ds)'
    BY <1>7, <2>2, VaBefore
  <2>4. QED
    BY <2>1, <2>3
<1>8. CASE funcall \/ ClassifyArg \/ prepare_funcall \/ gen_funcall \/ SpillArg \/ SkipSpill \/ Spilled \/ LoadArg \/ SkipLoad
  <2>1. pc' \in Calling /\ UNCHANGED got
    BY <1>8 DEF funcall, ClassifyArg, prepare_funcall, gen_funcall, SpillArg, SkipSpill, Spilled,
           LoadArg, SkipLoad, Calling
  <2>2. QED
    BY <1>7, <2>1
<1>9. CASE CallFunction
  BY <1>1, <1>2, <1>9, CallFunctionStep, VaCall
<1>10. CASE ClassifyParam
  BY <1>1, <1>2, <1>10, ClassifyParamStep, VaClassifyParam
<1>11. CASE Prologue
  BY <1>1, <1>2, <1>11, PrologueStep, VaPrologue
<1>12. CASE ReceiveParam
  BY <1>1, <1>2, <1>12, ReceiveParamStep, VaReceive
<1>13. CASE va_start
  BY <1>1, <1>2, <1>13, VaStartStep, VaStart
<1>14. CASE va_arg
  BY <1>1, <1>2, <1>14, VaArgStep, VaArgHeld
<1>15. CASE Return
  BY <1>1, <1>2, <1>15, ReturnStep, VaReturn
<1>16. CASE UNCHANGED callVars
  BY <1>1, <1>2, <1>16, StutterStep, VaStutter
<1>17. QED
  BY <1>8, <1>9, <1>10, <1>11, <1>12, <1>13, <1>14, <1>15, <1>16 DEF CallNext

-----------------------------------------------------------------------------
(* The members of a record                                                 *)

\* The bit-fields that are declared, but for two faults of the code: the mask of
\* a static field of 64 bits is a shift by 64 (parse.c 2993), and a packed field
\* as wide as its type is loaded without a shift (codegen.c 898).
NarrowFields ==
  \A d \in Decls : d.bitfield =>
    /\ d.width < 64
    /\ d.width < d.ty.size * 8 \/ (~d.packed /\ Packs \subseteq {0})

\* The bits of a member, from the first bit of the record.
Lo(m) == m.offset * 8 + m.bit_offset
Hi(m) == Lo(m) + BitsOf(m)

\* What struct_decl gives a member: one integer that holds a field, or, packed,
\* bytes that share one with another only at their ends.
Reachable(m) ==
  /\ m.bitfield => m.width <= m.ty.size * 8 /\ m.width < 64 /\ m.ty.size \in {1, 2, 4, 8}
  /\ ~m.bitfield => m.bit_offset = 0
  /\ m.bitfield /\ m.named => m.width > 0
  /\ m.bitfield /\ m.is_aligned_bitfiled =>
       /\ m.bit_offset + m.width <= Access(m) * 8
       /\ m.width = m.ty.size * 8 => m.bit_offset = 0
  /\ m.bitfield /\ ~m.is_aligned_bitfiled =>
       m.bit_offset < 8 /\ (m.bit_offset > 0 => m.bit_offset + m.width > 8)

FieldsIn(N) ==
  [ty : MemberTypes, bitfield : BOOLEAN, width : Nat, named : BOOLEAN, packed : BOOLEAN, alt : Nat,
   offset : N, bit_offset : N, is_aligned_bitfiled : BOOLEAN]
Fields == FieldsIn(Nat)
Members == {m \in Fields : Reachable(m)}

LEMMA RoundUp ==
  ASSUME NEW n \in Nat, NEW a \in Nat \ {0}
  PROVE  /\ AlignTo(n, a) \in Nat /\ AlignTo(n, a) >= n
         /\ \E q \in Nat : AlignTo(n, a) = q * a
<1> DEFINE q == (n + a - 1) \div a
<1>1. q \in Nat
  OBVIOUS
<1>2. n + a - 1 = q * a + ((n + a - 1) % a) /\ (n + a - 1) % a \in 0..(a - 1)
  OBVIOUS
<1>3. q * a \in Nat
  BY <1>1
<1>4. AlignTo(n, a) = q * a
  BY DEF AlignTo
<1>5. q * a >= n
  BY <1>2, <1>3
<1> HIDE DEF q
<1>6. QED
  BY <1>1, <1>3, <1>4, <1>5

LEMMA Round8 ==
  ASSUME NEW n \in Nat
  PROVE  /\ AlignTo(n, 8) \in Nat /\ AlignTo(n, 8) >= n /\ AlignTo(n, 8) < n + 8
         /\ AlignTo(n, 8) % 8 = 0
  BY DEF AlignTo

LEMMA PowerAbove ==
  ASSUME NEW v \in 0..64
  PROVE  /\ next_pow_of_two(v) \in {8, 16, 32, 64} /\ next_pow_of_two(v) >= v
         /\ \A u \in {8, 16, 32, 64} : v <= u => next_pow_of_two(v) <= u
         /\ \A u \in {8, 16, 32, 64} : v <= u /\ v > u - 8 => next_pow_of_two(v) = u
  BY DEF next_pow_of_two

\* Taking a place changes nothing else of a member.
SameField(m, d) == m.ty = d.ty /\ m.bitfield = d.bitfield /\ m.width = d.width /\ m.named = d.named
HasPlace(m, d, o, p, q) == SameField(m, d) /\ m.offset = o /\ m.bit_offset = p /\ m.is_aligned_bitfiled = q
LEMMA AtFields ==
  ASSUME NEW d \in Declarators, NEW N, NEW o \in N, NEW p \in N, NEW q \in BOOLEAN, NEW m, m = At(d, o, p, q)
  PROVE  m \in FieldsIn(N) /\ HasPlace(m, d, o, p, q)
<1> DEFINE Before0 == [ty : MemberTypes, bitfield : BOOLEAN, width : Nat, named : BOOLEAN, packed : BOOLEAN, alt : Nat,
                       offset : {0}, bit_offset : {0}, is_aligned_bitfiled : {FALSE}]
           e == [d EXCEPT !.offset = o, !.bit_offset = p, !.is_aligned_bitfiled = q]
<1>1. d \in Before0
  BY Zenon DEF Declarators
<1>2. At(d, o, p, q) = e
  BY Zenon DEF At
<1>3. /\ e = [ty |-> d.ty, bitfield |-> d.bitfield, width |-> d.width, named |-> d.named, packed |-> d.packed,
              alt |-> d.alt, offset |-> o, bit_offset |-> p, is_aligned_bitfiled |-> q]
      /\ d.ty \in MemberTypes /\ d.bitfield \in BOOLEAN /\ d.width \in Nat /\ d.named \in BOOLEAN
      /\ d.packed \in BOOLEAN /\ d.alt \in Nat
  <2>1. /\ d.ty \in MemberTypes /\ d.bitfield \in BOOLEAN /\ d.width \in Nat /\ d.named \in BOOLEAN
        /\ d.packed \in BOOLEAN /\ d.alt \in Nat
    BY <1>1, Zenon
  <2>2. DOMAIN d = {"ty", "bitfield", "width", "named", "packed", "alt", "offset", "bit_offset", "is_aligned_bitfiled"}
    BY <1>1
  <2>3. DOMAIN e = DOMAIN d
    OBVIOUS
  <2>4. d = [x \in DOMAIN d |-> d[x]]
    BY <1>1, Zenon
  <2>5. /\ e.ty = d.ty /\ e.bitfield = d.bitfield /\ e.width = d.width /\ e.named = d.named
        /\ e.packed = d.packed /\ e.alt = d.alt /\ e.offset = o /\ e.bit_offset = p /\ e.is_aligned_bitfiled = q
    BY <2>2, <2>4
  <2>6. e = [x \in DOMAIN e |-> e[x]]
    BY Zenon
  <2> HIDE DEF e
  <2>7. QED
    BY <2>1, <2>2, <2>3, <2>5, <2>6
<1>4. e \in FieldsIn(N)
  BY <1>3, Zenon DEF FieldsIn
<1>5. e.offset = o /\ e.bit_offset = p /\ e.is_aligned_bitfiled = q /\ SameField(e, d)
  BY <1>3 DEF SameField
<1> HIDE DEF e
<1>6. QED
  BY <1>2, <1>4, <1>5, Zenon DEF HasPlace

IsAt(m, d, o, p, q) ==
  m \in Fields /\ SameField(m, d) /\ m.offset = o /\ m.bit_offset = p /\ m.is_aligned_bitfiled = q
LEMMA AtIs ==
  ASSUME NEW d \in Declarators, NEW o \in Nat, NEW p \in Nat, NEW q \in BOOLEAN, NEW m, m = At(d, o, p, q)
  PROVE  IsAt(m, d, o, p, q)
<1> DEFINE N == Nat
<1> HIDE DEF N
<1>0. o \in N /\ p \in N
  BY DEF N
<1>1. m \in FieldsIn(N) /\ HasPlace(m, d, o, p, q)
  BY <1>0, AtFields
<1>2. QED
  BY <1>1, Zenon DEF IsAt, HasPlace, Fields, N

\* The integers a packed field may be read as: it ends with the field's last byte.
LEMMA PackedIs ==
  ASSUME NEW d \in Declarators, d.bitfield, d.width > 0, d.width < 64, d.width < d.ty.size * 8,
         NEW bits \in Nat, NEW m, m = PackedField(d, bits)
  PROVE  /\ m \in Members /\ SameField(m, d)
         /\ Lo(m) = bits
         /\ (m.offset + Access(m)) * 8 = AlignTo(bits + d.width, 8)
<1> DEFINE ceil == AlignTo(bits + d.width, 8)
           fits == {r \in {8, 16, 32, 64} : ceil % r = 0 /\ AlignDown(ceil - r, 8) <= bits}
<1>0. d.width \in Nat /\ d.ty.size \in {1, 2, 4, 8} /\ d.width <= d.ty.size * 8 /\ d.bitfield \in BOOLEAN
      /\ d.named \in BOOLEAN
  BY DEF Declarators
<1>1. ceil \in Nat /\ ceil >= bits + d.width /\ ceil < bits + d.width + 8 /\ ceil % 8 = 0 /\ bits + d.width \in Nat
  <2>1. bits + d.width \in Nat
    BY <1>0
  <2>2. QED
    BY <2>1, Round8
<1>2. ceil > 0
  BY <1>0, <1>1
<1> HIDE DEF ceil
<1>3. \A r \in {8, 16, 32, 64} : AlignDown(ceil - r, 8) = ceil - r
  <2>1. ceil - 8 \in Int /\ ceil - 16 \in Int /\ ceil - 32 \in Int /\ ceil - 64 \in Int
    BY <1>1
  <2>2. /\ ((ceil - 8) \div 8) * 8 = ceil - 8 /\ ((ceil - 16) \div 8) * 8 = ceil - 16
        /\ ((ceil - 32) \div 8) * 8 = ceil - 32 /\ ((ceil - 64) \div 8) * 8 = ceil - 64
    BY <1>1
  <2>3. QED
    BY <2>2 DEF AlignDown
<1>4. CASE fits # {}
  <2>1. PICK r \in fits : r = Min(fits)
    <3>1. \E x \in fits : \A y \in fits : x <= y
      <4>1. fits \subseteq {8, 16, 32, 64}
        OBVIOUS
      <4> HIDE DEF fits
      <4>2. CASE 8 \in fits
        BY <4>1, <4>2
      <4>3. CASE 8 \notin fits /\ 16 \in fits
        BY <4>1, <4>3
      <4>4. CASE 8 \notin fits /\ 16 \notin fits /\ 32 \in fits
        BY <4>1, <4>4
      <4>5. CASE 8 \notin fits /\ 16 \notin fits /\ 32 \notin fits
        <5>1. \A y \in fits : y = 64
          BY <4>1, <4>5
        <5>2. PICK x \in fits : TRUE
          BY <1>4
        <5>3. QED
          BY <5>1, <5>2
      <4>6. QED
        BY <4>2, <4>3, <4>4, <4>5
    <3> HIDE DEF fits
    <3>2. QED
      BY <3>1 DEF Min
  <2>2. r \in {8, 16, 32, 64} /\ ceil % r = 0 /\ ceil - r <= bits
    BY <2>1, <1>3
  <2>3. ceil >= r
    BY <1>1, <1>2, <2>2
  <2> DEFINE o == (ceil - r) \div 8
  <2>4. o \in Nat /\ o * 8 = ceil - r
    BY <1>1, <2>2, <2>3
  <2>5. m = At(d, o, bits - o * 8, TRUE)
    <3>1. m = At(d, (ceil - Min(fits)) \div 8, bits - ((ceil - Min(fits)) \div 8) * 8, fits # {})
      BY <1>4, Zenon DEF PackedField, ceil
    <3>2. QED
      BY <3>1, <2>1, <1>4
  <2> HIDE DEF o, fits
  <2>6. PICK p \in Nat : p = bits - o * 8
    BY <2>2, <2>4, <1>1
  <2>7. IsAt(m, d, o, p, TRUE)
    BY <2>4, <2>5, <2>6, AtIs, Zenon
  <2>8. /\ m \in Fields /\ SameField(m, d)
        /\ m.offset = o /\ m.bit_offset = p /\ m.is_aligned_bitfiled
        /\ m.ty = d.ty /\ m.bitfield = d.bitfield /\ m.width = d.width /\ m.named = d.named
    BY <2>7, Zenon DEF IsAt, SameField
  <2>9. p + d.width <= r /\ p + d.width > r - 8 /\ p + d.width \in 0..64
    BY <1>0, <1>1, <2>2, <2>4, <2>6
  <2>10. Access(m) = r \div 8
    <3>1. next_pow_of_two(p + d.width) = r
      BY <2>9, <2>2, PowerAbove
    <3>2. QED
      BY <3>1, <2>8 DEF Access
  <2>11. Access(m) \in Nat /\ Access(m) * 8 = r
    BY <2>10, <2>2
  <2>12. Reachable(m)
    BY <1>0, <2>8, <2>9, <2>11 DEF Reachable
  <2>13. Lo(m) = bits /\ (m.offset + Access(m)) * 8 = ceil
    BY <1>1, <2>4, <2>6, <2>8, <2>11, <2>2 DEF Lo
  <2>14. QED
    BY <2>8, <2>12, <2>13 DEF Members, ceil
<1>5. CASE fits = {}
  <2> DEFINE o == bits \div 8
  <2>1. o \in Nat /\ bits - o * 8 \in 0..7
    OBVIOUS
  <2>2. m = At(d, o, bits - o * 8, FALSE)
    <3>1. m = At(d, bits \div 8, bits - (bits \div 8) * 8, FALSE)
      BY <1>5, Zenon DEF PackedField, ceil
    <3>2. QED
      BY <3>1
  <2>3. (bits - o * 8) + d.width > 8
    <3>1. SUFFICES ASSUME (bits - o * 8) + d.width <= 8 PROVE FALSE
      BY <1>0, <2>1
    <3>2. ceil - 8 <= bits
      BY <3>1, <1>0, <1>1, <2>1
    <3>3. 8 \in fits
      BY <3>2, <1>1, <1>3
    <3>4. QED
      BY <3>3, <1>5
  <2> HIDE DEF o, fits
  <2>40. PICK p \in 0..7 : p = bits - o * 8
    BY <2>1
  <2>41. IsAt(m, d, o, p, FALSE)
    <3>1. p \in Nat /\ FALSE \in BOOLEAN
      BY <2>40
    <3>2. QED
      BY <3>1, <2>1, <2>2, <2>40, AtIs, Zenon
  <2>4. /\ m \in Fields /\ SameField(m, d)
        /\ m.offset = o /\ m.bit_offset = p /\ ~m.is_aligned_bitfiled
        /\ m.ty = d.ty /\ m.bitfield = d.bitfield /\ m.width = d.width /\ m.named = d.named
    BY <2>41, Zenon DEF IsAt, SameField
  <2>5. Access(m) = AlignTo(d.width + (bits - o * 8), 8) \div 8
    BY <2>4, <2>40 DEF Access, bitfield_footprint
  <2>6. (o + Access(m)) * 8 = ceil
    <3> DEFINE w == d.width
    <3>1. w \in Nat /\ Access(m) = (((w + (bits - o * 8) + 7) \div 8) * 8) \div 8
      BY <1>0, <2>5 DEF AlignTo
    <3>2. ceil = ((bits + w + 7) \div 8) * 8
      BY <1>0 DEF ceil, AlignTo
    <3> HIDE DEF w
    <3>3. QED
      BY <3>1, <3>2, <2>1
  <2>7. Access(m) \in Nat
    BY <1>0, <2>5, <2>1 DEF AlignTo
  <2>8. Reachable(m)
    BY <1>0, <2>3, <2>4, <2>40 DEF Reachable
  <2>9. Lo(m) = bits
    BY <2>1, <2>4, <2>40 DEF Lo
  <2>10. QED
    BY <2>4, <2>6, <2>8, <2>9 DEF Members, ceil
<1>6. QED
  BY <1>4, <1>5

LEMMA UnitIs ==
  ASSUME NEW d \in Declarators, d.bitfield, d.width > 0, d.width < 64, NEW bits \in Nat,
         NEW m, m = UnitField(d, bits)
  PROVE  /\ m \in Members /\ SameField(m, d)
         /\ Lo(m) >= bits
         /\ m.is_aligned_bitfiled /\ m.offset % m.ty.size = 0 /\ Access(m) <= m.ty.size
<1> DEFINE w == d.width
           s == d.ty.size
           start == IF bits \div (s * 8) # (bits + w - 1) \div (s * 8) THEN AlignTo(bits, s * 8) ELSE bits
           o == (start \div (s * 8)) * s
<1>0. w \in Nat /\ w > 0 /\ s \in {1, 2, 4, 8} /\ w <= s * 8
  BY DEF Declarators
<1>1. m = At(d, o, start - o * 8, TRUE)
  BY DEF UnitField
<1>2. start \in Nat /\ start >= bits /\ start \div (s * 8) = (start + w - 1) \div (s * 8)
  <2> HIDE DEF w, s
  <2>1. CASE s = 1
    BY <1>0, <2>1 DEF AlignTo
  <2>2. CASE s = 2
    BY <1>0, <2>2 DEF AlignTo
  <2>3. CASE s = 4
    BY <1>0, <2>3 DEF AlignTo
  <2>4. CASE s = 8
    BY <1>0, <2>4 DEF AlignTo
  <2>5. QED
    BY <1>0, <2>1, <2>2, <2>3, <2>4
<1> HIDE DEF start
<1>3. o \in Nat /\ o % s = 0 /\ start - o * 8 \in Nat /\ start - o * 8 + w <= s * 8 /\ (w = s * 8 => start - o * 8 = 0)
  <2> HIDE DEF w, s
  <2>1. CASE s = 1
    BY <1>0, <1>2, <2>1
  <2>2. CASE s = 2
    BY <1>0, <1>2, <2>2
  <2>3. CASE s = 4
    BY <1>0, <1>2, <2>3
  <2>4. CASE s = 8
    BY <1>0, <1>2, <2>4
  <2>5. QED
    BY <1>0, <2>1, <2>2, <2>3, <2>4
<1> HIDE DEF o
<1>4. PICK p \in Nat : p = start - o * 8
  BY <1>3
<1>41. IsAt(m, d, o, p, TRUE)
  BY <1>1, <1>3, <1>4, AtIs
<1>42. /\ m \in Fields /\ SameField(m, d)
       /\ m.offset = o /\ m.bit_offset = p /\ m.is_aligned_bitfiled
       /\ m.ty = d.ty /\ m.bitfield = d.bitfield /\ m.width = d.width /\ m.named = d.named
  BY <1>41, Zenon DEF IsAt, SameField
<1>5. Access(m) <= s /\ p + w <= Access(m) * 8
  <2>1. p + w \in 0..64 /\ p + w <= s * 8 /\ s * 8 \in {8, 16, 32, 64}
    BY <1>0, <1>3, <1>4
  <2>2. PICK r \in {8, 16, 32, 64} : r = next_pow_of_two(p + w) /\ r >= p + w /\ r <= s * 8
    BY <2>1, PowerAbove
  <2>3. Access(m) = r \div 8
    BY <2>2, <1>42 DEF Access
  <2> HIDE DEF w, s
  <2>4. QED
    BY <2>2, <2>3, <1>0
<1>6. Lo(m) = start
  BY <1>2, <1>3, <1>4, <1>42 DEF Lo
<1>7. Reachable(m)
  BY <1>0, <1>3, <1>4, <1>42, <1>5 DEF Reachable
<1>8. QED
  BY <1>2, <1>3, <1>42, <1>5, <1>6, <1>7 DEF Members

-----------------------------------------------------------------------------
(* Access                                                                  *)

Inside(m, b) == b - Lo(m) \in 0..(BitsOf(m) - 1)

\* The facts about a member that the access lemmas use.
LEMMA MemberIs ==
  ASSUME NEW m \in Members
  PROVE  /\ m \in Fields /\ Reachable(m)
         /\ m.bitfield \in BOOLEAN /\ m.named \in BOOLEAN /\ m.is_aligned_bitfiled \in BOOLEAN
         /\ m.width \in Nat /\ m.offset \in Nat /\ m.bit_offset \in Nat /\ m.ty.size \in Nat
<1>1. m \in Fields /\ Reachable(m)
  BY Zenon DEF Members
<1>2. m.ty \in MemberTypes
  BY <1>1, Zenon DEF Fields, FieldsIn
<1>3. m.ty.size \in Nat
  BY <1>2, Zenon DEF MemberTypes
<1>4. QED
  BY <1>1, <1>3, Zenon DEF Fields, FieldsIn

\* The integer or the bytes that are accessed hold all of the member.
LEMMA AccessHolds ==
  ASSUME NEW m \in Members, m.named
  PROVE  /\ Access(m) \in Nat /\ BitsOf(m) \in Nat
         /\ m.bit_offset + BitsOf(m) <= Access(m) * 8
         /\ m.bitfield => BitsOf(m) = m.width
         /\ m.bitfield /\ ~m.is_aligned_bitfiled => Access(m) * 8 < m.bit_offset + m.width + 8
<1>1. /\ Reachable(m)
      /\ m.bitfield \in BOOLEAN /\ m.named \in BOOLEAN /\ m.is_aligned_bitfiled \in BOOLEAN
      /\ m.width \in Nat /\ m.offset \in Nat /\ m.bit_offset \in Nat /\ m.ty.size \in Nat
  BY MemberIs
<1>2. CASE ~m.bitfield
  BY <1>1, <1>2 DEF Access, BitsOf, Reachable
<1>3. CASE m.bitfield /\ m.is_aligned_bitfiled
  <2>1. Access(m) \in Nat
    BY <1>3 DEF Access, next_pow_of_two
  <2>2. QED
    BY <1>1, <1>3, <2>1 DEF BitsOf, Reachable
<1>4. CASE m.bitfield /\ ~m.is_aligned_bitfiled
  <2>1. PICK v \in Nat : v = m.width + m.bit_offset
    BY <1>1
  <2>2. Access(m) = AlignTo(v, 8) \div 8
    BY <1>4, <2>1 DEF Access, bitfield_footprint
  <2>3. Access(m) \in Nat /\ Access(m) * 8 >= v /\ Access(m) * 8 < v + 8
    BY <2>2 DEF AlignTo
  <2>4. QED
    BY <1>1, <1>4, <2>1, <2>3 DEF BitsOf
<1>5. QED
  BY <1>1, <1>2, <1>3, <1>4

\* A store writes the member's bits and leaves every other as it was.
LEMMA StoredIs ==
  ASSUME NEW a, rec.members[a] \in Members, rec.members[a].named, NEW b \in Nat, NEW value
  PROVE  Stored(a, b, value) = IF Inside(rec.members[a], b) THEN Bit(a, b - Lo(rec.members[a]), value) ELSE Old(b)
<1> DEFINE m == rec.members[a]
           k == b - m.offset * 8
           j == b - (m.offset * 8 + m.bit_offset)
<1>1. /\ Reachable(m)
      /\ m.bitfield \in BOOLEAN /\ m.is_aligned_bitfiled \in BOOLEAN
      /\ m.width \in Nat /\ m.offset \in Nat /\ m.bit_offset \in Nat /\ m.ty.size \in Nat
  BY MemberIs
<1>2. /\ Access(m) \in Nat /\ BitsOf(m) \in Nat
      /\ m.bit_offset + BitsOf(m) <= Access(m) * 8
      /\ m.bitfield => BitsOf(m) = m.width
      /\ m.bitfield /\ ~m.is_aligned_bitfiled => Access(m) * 8 < m.bit_offset + m.width + 8
  BY AccessHolds
<1>3. Stored(a, b, value) = IF k \notin 0..(Access(m) * 8 - 1) THEN Old(b)
                            ELSE IF m.bitfield THEN gen_bitfield_store2(a, m, b, value) ELSE Bit(a, k, value)
  BY DEF Stored
<1>4. Inside(m, b) <=> j \in 0..(BitsOf(m) - 1)
  BY DEF Inside, Lo
<1>5. j \in Int /\ k \in Int /\ k = j + m.bit_offset /\ j = b - Lo(m)
  BY <1>1 DEF Lo
<1> HIDE DEF m
<1>6. CASE k \notin 0..(Access(m) * 8 - 1)
  <2>1. j \notin 0..(BitsOf(m) - 1)
    BY <1>1, <1>2, <1>5, <1>6
  <2>2. QED
    BY <1>3, <1>4, <1>6, <2>1 DEF m
<1>7. CASE k \in 0..(Access(m) * 8 - 1) /\ ~m.bitfield
  <2>1. m.bit_offset = 0 /\ BitsOf(m) = Access(m) * 8
    BY <1>1, <1>7 DEF Reachable, BitsOf, Access
  <2>2. j = k /\ j \in 0..(BitsOf(m) - 1)
    BY <1>1, <1>5, <1>7, <2>1
  <2>3. QED
    BY <1>3, <1>4, <1>5, <1>7, <2>2 DEF m
<1>8. CASE k \in 0..(Access(m) * 8 - 1) /\ m.bitfield /\ m.is_aligned_bitfiled
  <2>1. gen_bitfield_store2(a, m, b, value) = IF j \in 0..(m.width - 1) THEN Bit(a, j, value) ELSE Old(b)
    BY <1>8 DEF gen_bitfield_store2
  <2>2. QED
    BY <1>2, <1>3, <1>4, <1>5, <1>8, <2>1 DEF m
<1>9. CASE k \in 0..(Access(m) * 8 - 1) /\ m.bitfield /\ ~m.is_aligned_bitfiled
  <2> DEFINE byte == b \div 8 - m.offset
             left == m.bit_offset + m.width - byte * 8
             bit == b % 8
  <2>1. gen_bitfield_store2(a, m, b, value) =
          IF byte = 0 /\ m.bit_offset > 0
          THEN IF bit < m.bit_offset THEN Old(b) ELSE Bit(a, j, value)
          ELSE IF left >= 8 \/ bit < left THEN Bit(a, j, value) ELSE Old(b)
    BY <1>9 DEF gen_bitfield_store2
  <2>2. /\ byte \in Nat /\ bit \in 0..7 /\ k = byte * 8 + bit
        /\ left \in Int
    <3>1. b >= m.offset * 8 /\ m.offset \in Nat
      BY <1>1, <1>2, <1>9
    <3>2. QED
      BY <3>1, <1>1
  <2>3. m.bit_offset < 8 /\ (m.bit_offset > 0 => m.bit_offset + m.width > 8)
    BY <1>1, <1>9 DEF Reachable
  <2>4. left = m.bit_offset + m.width - byte * 8
    OBVIOUS
  <2> HIDE DEF byte, left, bit, j, k
  <2>5. CASE byte = 0 /\ m.bit_offset > 0
    <3>1. bit < m.bit_offset <=> j \notin 0..(m.width - 1)
      BY <1>1, <1>5, <2>2, <2>3, <2>5
    <3>2. QED
      BY <1>2, <1>3, <1>4, <1>5, <1>9, <2>1, <2>5, <3>1 DEF m
  <2>6. CASE ~(byte = 0 /\ m.bit_offset > 0)
    <3>1. (left >= 8 \/ bit < left) <=> j \in 0..(m.width - 1)
      BY <1>1, <1>5, <2>2, <2>3, <2>4, <2>6
    <3>2. QED
      BY <1>2, <1>3, <1>4, <1>5, <1>9, <2>1, <2>6, <3>1 DEF m
  <2>7. QED
    BY <2>5, <2>6
<1>10. QED
  BY <1>1, <1>6, <1>7, <1>8, <1>9

\* What a member loads, at run time and in a constant expression.
ReadsAs(m) == [k \in 0..(m.ty.size * 8 - 1) |-> IF k < BitsOf(m) THEN Old(Lo(m) + k) ELSE NoBit("extended")]
LEMMA LoadIs ==
  ASSUME NEW m \in Members, m.named
  PROVE  load(m) = ReadsAs(m) /\ (m.bitfield => eval_bitfield(m) = ReadsAs(m))
<1>1. /\ Reachable(m)
      /\ m.bitfield \in BOOLEAN /\ m.is_aligned_bitfiled \in BOOLEAN
      /\ m.width \in Nat /\ m.offset \in Nat /\ m.bit_offset \in Nat /\ m.ty.size \in Nat
  BY MemberIs
<1>2. /\ Access(m) \in Nat /\ BitsOf(m) \in Nat
      /\ m.bit_offset + BitsOf(m) <= Access(m) * 8
      /\ m.bitfield => BitsOf(m) = m.width
  BY AccessHolds
<1>3. CASE ~m.bitfield
  <2>1. m.bit_offset = 0 /\ BitsOf(m) = m.ty.size * 8
    BY <1>1, <1>3 DEF Reachable, BitsOf
  <2>2. Lo(m) = m.offset * 8
    BY <1>1, <2>1 DEF Lo
  <2>3. load(m) = [k \in 0..(m.ty.size * 8 - 1) |-> Old(m.offset * 8 + k)]
    BY <1>3 DEF load
  <2>4. \A k \in 0..(m.ty.size * 8 - 1) : k < BitsOf(m)
    BY <1>1, <2>1
  <2>5. QED
    BY <1>3, <2>2, <2>3, <2>4 DEF ReadsAs
<1>4. CASE m.bitfield
  <2> DEFINE start == m.offset * 8
             loaded(k) == IF k < Access(m) * 8 THEN Old(start + k) ELSE NoBit("extended")
  <2>1. load(m) = [k \in 0..(m.ty.size * 8 - 1) |->
                     IF m.is_aligned_bitfiled /\ m.width = m.ty.size * 8 THEN loaded(k)
                     ELSE IF k < m.width THEN loaded(m.bit_offset + k) ELSE NoBit("extended")]
    BY <1>4 DEF load, gen_bitfield_load
  <2>2. ASSUME NEW k \in 0..(m.ty.size * 8 - 1), k < m.width PROVE loaded(m.bit_offset + k) = Old(Lo(m) + k)
    <3>0. k \in Nat
      BY <1>1
    <3>1. m.bit_offset + k < m.bit_offset + m.width /\ start + (m.bit_offset + k) = Lo(m) + k
      BY <3>0, <1>1, <2>2 DEF Lo
    <3>2. m.bit_offset + m.width <= Access(m) * 8
      BY <1>2, <1>4
    <3>3. m.bit_offset + k < Access(m) * 8
      BY <3>0, <3>1, <3>2, <1>1, <1>2
    <3>4. QED
      BY <3>1, <3>3
  <2>3. m.is_aligned_bitfiled /\ m.width = m.ty.size * 8 => m.bit_offset = 0
    BY <1>1, <1>4 DEF Reachable
  <2>4. \A k \in 0..(m.ty.size * 8 - 1) : m.bit_offset = 0 => m.bit_offset + k = k
    BY <1>1
  <2> HIDE DEF loaded
  <2>5. load(m) = ReadsAs(m)
    <3>1. ASSUME NEW k \in 0..(m.ty.size * 8 - 1)
          PROVE  (IF m.is_aligned_bitfiled /\ m.width = m.ty.size * 8 THEN loaded(k)
                  ELSE IF k < m.width THEN loaded(m.bit_offset + k) ELSE NoBit("extended"))
                 = IF k < BitsOf(m) THEN Old(Lo(m) + k) ELSE NoBit("extended")
      <4>2. CASE m.is_aligned_bitfiled /\ m.width = m.ty.size * 8
        <5>1. k < m.width
          BY <1>1, <4>2
        <5>2. loaded(k) = Old(Lo(m) + k)
          BY <2>2, <2>3, <2>4, <4>2, <5>1
        <5>3. QED
          BY <1>2, <1>4, <4>2, <5>1, <5>2
      <4>3. CASE ~(m.is_aligned_bitfiled /\ m.width = m.ty.size * 8)
        BY <1>2, <1>4, <4>3, <2>2
      <4>4. QED
        BY <4>2, <4>3
    <3>2. QED
      BY <2>1, <3>1, Zenon DEF ReadsAs
  <2>6. eval_bitfield(m) = ReadsAs(m)
    <3>1. \A k \in 0..(m.ty.size * 8 - 1) : m.offset * 8 + m.bit_offset + k = Lo(m) + k
      BY DEF Lo
    <3>2. eval_bitfield(m) = [k \in 0..(m.ty.size * 8 - 1) |->
                                IF k < m.width THEN Old(m.offset * 8 + m.bit_offset + k) ELSE NoBit("extended")]
      BY Zenon DEF eval_bitfield
    <3>3. QED
      BY <1>2, <1>4, <3>1, <3>2 DEF ReadsAs
  <2>7. QED
    BY <2>5, <2>6
<1>5. QED
  BY <1>1, <1>3, <1>4

\* The writer of constants writes the member's bits, if they are still zero, and no other.
LEMMA InitBitIs ==
  ASSUME NEW a, rec.members[a] \in Members, rec.members[a].named, NEW b \in Nat, NEW old, NEW mask64,
         Inside(rec.members[a], b) => old = NoBit("zero")
  PROVE  InitBit(a, b, old, mask64) =
           IF Inside(rec.members[a], b) THEN Bit(a, b - Lo(rec.members[a]), "constant") ELSE old
<1> DEFINE m == rec.members[a]
           k == b - m.offset * 8
           j == b - (m.offset * 8 + m.bit_offset)
           byte == b \div 8 - m.offset
<1>1. /\ Reachable(m)
      /\ m.bitfield \in BOOLEAN /\ m.is_aligned_bitfiled \in BOOLEAN
      /\ m.width \in Nat /\ m.offset \in Nat /\ m.bit_offset \in Nat /\ m.ty.size \in Nat
  BY MemberIs
<1>2. /\ Access(m) \in Nat /\ BitsOf(m) \in Nat
      /\ m.bit_offset + BitsOf(m) <= Access(m) * 8
      /\ m.bitfield => BitsOf(m) = m.width
  BY AccessHolds
<1>3. m.bitfield => m.width # 64
  BY <1>1 DEF Reachable
<1>4. InitBit(a, b, old, mask64) =
        IF k \notin 0..(Access(m) * 8 - 1) THEN old
        ELSE IF ~m.bitfield THEN Bit(a, j, "constant")
        ELSE IF m.is_aligned_bitfiled
             THEN IF j \notin 0..((IF m.width = 64 THEN mask64 ELSE m.width) - 1) THEN old
                  ELSE IF old = NoBit("zero") THEN Bit(a, j, "constant") ELSE NoBit("mixed")
             ELSE IF j \in 0..(m.width - 1) \/ (byte = 0 /\ m.bit_offset > 0 /\ j > 0)
                  THEN Bit(a, j, "constant") ELSE old
  BY DEF InitBit
<1>5. Inside(m, b) <=> j \in 0..(BitsOf(m) - 1)
  BY DEF Inside, Lo
<1>6. j \in Int /\ k \in Int /\ k = j + m.bit_offset /\ j = b - Lo(m)
  BY <1>1 DEF Lo
<1>7. byte = 0 => b < m.offset * 8 + 8
  BY <1>1
<1> HIDE DEF m, j, k, byte
<1>8. CASE k \notin 0..(Access(m) * 8 - 1)
  <2>1. j \notin 0..(BitsOf(m) - 1)
    BY <1>1, <1>2, <1>6, <1>8
  <2>2. QED
    BY <1>4, <1>5, <1>8, <2>1 DEF m
<1>9. CASE k \in 0..(Access(m) * 8 - 1) /\ ~m.bitfield
  <2>1. m.bit_offset = 0 /\ BitsOf(m) = Access(m) * 8
    BY <1>1, <1>9 DEF Reachable, BitsOf, Access
  <2>2. j \in 0..(BitsOf(m) - 1)
    BY <1>1, <1>6, <1>9, <2>1
  <2>3. QED
    BY <1>4, <1>5, <1>6, <1>9, <2>2 DEF m
<1>10. CASE k \in 0..(Access(m) * 8 - 1) /\ m.bitfield /\ m.is_aligned_bitfiled
  BY <1>2, <1>3, <1>4, <1>5, <1>6, <1>10 DEF m
<1>11. CASE k \in 0..(Access(m) * 8 - 1) /\ m.bitfield /\ ~m.is_aligned_bitfiled
  <2>1. m.bit_offset < 8 /\ (m.bit_offset > 0 => m.bit_offset + m.width > 8)
    BY <1>1, <1>11 DEF Reachable
  <2>2. byte = 0 /\ m.bit_offset > 0 /\ j > 0 => j \in 0..(m.width - 1)
    <3>1. byte = 0 => k < 8
      BY <1>7, <1>1 DEF k
    <3>2. QED
      BY <1>1, <1>6, <2>1, <3>1
  <2>3. QED
    BY <1>2, <1>4, <1>5, <1>6, <1>11, <2>2 DEF m
<1>12. QED
  BY <1>1, <1>8, <1>9, <1>10, <1>11

-----------------------------------------------------------------------------
(* The layout                                                              *)

Recs ==
  [kind : {"struct", "union"}, pack : Packs \cup {0}, bits : Nat, alt : Aligns \cup {0},
   members : Seq(Members), size : Int, align : Int]

\* The integer a bit-field is accessed through begins in the record, and is aligned in it.
InUnit(m, bits, alt) ==
  /\ m.bitfield /\ Access(m) <= m.ty.size /\ m.offset % m.ty.size = 0 /\ m.offset * 8 < bits
  /\ m.ty.size \in Aligns /\ m.ty.size <= alt
Spanned(m, bits, alt) == (m.offset + Access(m)) * 8 <= AlignTo(bits, 8) \/ InUnit(m, bits, alt)

\* The members of a struct follow one another.
InOrder(r) ==
  /\ \A a \in 1..Len(r.members) : Hi(r.members[a]) <= r.bits
  /\ \A a, b \in 1..Len(r.members) : a < b => Hi(r.members[a]) <= Lo(r.members[b])

\* All that is accessed of a member lies in the record, once its size is known.
InReach(r) ==
  /\ \A a \in 1..Len(r.members) : r.members[a].named => Spanned(r.members[a], r.bits, r.alt)
  /\ r.size >= 0 => \A a \in 1..Len(r.members) :
                       r.members[a].named => r.members[a].offset + Access(r.members[a]) <= r.size

Layout(r) == (r.kind = "struct" => InOrder(r)) /\ InReach(r)

LEMMA AlignsAre ==
  /\ 1 \in Aligns /\ Aligns \subseteq Nat \ {0}
  /\ \A d \in Decls : d.ty.align \in Aligns /\ d.alt \in Aligns \cup {0}
  /\ Packs \subseteq Aligns \cup {0}
<1>1. \A d \in Decls : d.ty.align \in Nat \ {0} /\ d.alt \in Nat
  <2>1. SUFFICES ASSUME NEW d \in Decls PROVE d.ty.align \in Nat \ {0} /\ d.alt \in Nat
    OBVIOUS
  <2>2. d \in Declarators
    BY DeclAssumption
  <2>3. d.ty \in MemberTypes /\ d.alt \in Nat
    BY <2>2 DEF Declarators
  <2>4. QED
    BY <2>3 DEF MemberTypes
<1>2. 1 \in Aligns
  BY DEF Aligns
<1>3. ASSUME NEW a \in Aligns PROVE a \in Nat \ {0}
  <2>1. a # 0 /\ (a \in Packs \/ a = 1 \/ \E d \in Decls : a = d.ty.align \/ a = d.alt)
    BY Zenon DEF Aligns
  <2>2. CASE a \in Packs
    BY <2>1, <2>2, PackAssumption, Zenon
  <2>3. CASE a = 1
    BY <2>3
  <2>4. CASE \E d \in Decls : a = d.ty.align \/ a = d.alt
    <3>1. a \in Nat
      BY <1>1, <2>4, Zenon
    <3>2. QED
      BY <2>1, <3>1
  <2>5. QED
    BY <2>1, <2>2, <2>3, <2>4
<1>4. ASSUME NEW d \in Decls PROVE d.ty.align \in Aligns /\ d.alt \in Aligns \cup {0}
  <2>1. d.ty.align # 0
    BY <1>1
  <2>2. QED
    BY <2>1, Zenon DEF Aligns
<1>5. Packs \subseteq Aligns \cup {0}
  BY Zenon DEF Aligns
<1>6. QED
  BY <1>2, <1>3, <1>4, <1>5

LEMMA DeclIs ==
  ASSUME NEW d \in Decls
  PROVE  /\ d \in Declarators
         /\ d.bitfield \in BOOLEAN /\ d.named \in BOOLEAN /\ d.packed \in BOOLEAN
         /\ d.width \in Nat /\ d.alt \in Nat /\ d.ty \in MemberTypes /\ d.ty.size \in Nat
         /\ d.bitfield => /\ d.ty.size \in {1, 2, 4, 8} /\ d.ty.align = d.ty.size
                          /\ d.width <= d.ty.size * 8 /\ (d.named => d.width > 0)
<1>1. d \in Declarators
  BY DeclAssumption
<1>2. d.bitfield \in BOOLEAN /\ d.named \in BOOLEAN /\ d.packed \in BOOLEAN
      /\ d.width \in Nat /\ d.alt \in Nat /\ d.ty \in MemberTypes
  BY <1>1, Zenon DEF Declarators
<1>3. d.ty.size \in Nat
  BY <1>2 DEF MemberTypes
<1>4. QED
  BY <1>1, <1>2, <1>3 DEF Declarators

\* What each member counts for in the alignment of the record is an alignment.
LEMMA AltIs ==
  ASSUME rec.pack \in Packs \cup {0}, rec.alt \in Aligns \cup {0}, NEW d \in Decls
  PROVE  /\ mem_align(d) \in Aligns
         /\ alt_align(d) \in Aligns \cup {0} /\ alt_align(d) >= rec.alt
         /\ d.bitfield /\ d.named /\ ~d.packed /\ ~(rec.pack > 0) => alt_align(d) >= d.ty.size
<1>1. rec.pack \in Packs \cup {0} /\ rec.alt \in Aligns \cup {0}
  OBVIOUS
<1>2. /\ 1 \in Aligns /\ Aligns \subseteq Nat \ {0}
      /\ d.ty.align \in Aligns /\ d.alt \in Aligns \cup {0} /\ Packs \subseteq Aligns \cup {0}
  BY AlignsAre
<1>20. /\ rec.pack \in Nat /\ rec.alt \in Nat /\ d.ty.align \in Nat /\ d.alt \in Nat
       /\ rec.pack > 0 => rec.pack \in Aligns
  <2>1. rec.pack \in Aligns \cup {0}
    BY <1>1, <1>2
  <2>2. 0 \in Nat /\ ~(0 > 0) /\ \A a \in Aligns : a \in Nat
    BY <1>2
  <2>3. rec.pack \in Nat /\ rec.alt \in Nat /\ d.ty.align \in Nat /\ d.alt \in Nat
    BY <1>1, <1>2, <2>1, <2>2, Zenon
  <2>4. rec.pack > 0 => rec.pack \in Aligns
    BY <2>1, <2>2, Zenon
  <2>5. QED
    BY <2>3, <2>4
<1>3. mem_align(d) \in Aligns
  <2>2. CASE d.packed
    BY <1>2, <2>2 DEF mem_align
  <2>3. CASE ~d.packed /\ rec.pack > 0 /\ rec.pack < d.ty.align
    BY <1>20, <2>3 DEF mem_align
  <2>4. CASE ~d.packed /\ ~(rec.pack > 0 /\ rec.pack < d.ty.align)
    BY <1>2, <2>4 DEF mem_align
  <2>5. QED
    BY <2>2, <2>3, <2>4
<1>30. mem_align(d) \in Nat
  BY <1>2, <1>3
<1>40. /\ alt_align(d) \in {rec.alt, mem_align(d), d.alt}
       /\ alt_align(d) >= rec.alt /\ (d.named => alt_align(d) >= mem_align(d))
  <2> DEFINE x == mem_align(d)
  <2>1. alt_align(d) = IF d.bitfield /\ ~d.named THEN rec.alt ELSE Larger(rec.alt, Larger(x, d.alt))
    BY DEF alt_align
  <2>2. x \in Nat
    BY <1>30
  <2> HIDE DEF x
  <2>3. /\ Larger(rec.alt, Larger(x, d.alt)) \in {rec.alt, x, d.alt}
        /\ Larger(rec.alt, Larger(x, d.alt)) >= rec.alt /\ Larger(rec.alt, Larger(x, d.alt)) >= x
    BY <1>20, <2>2 DEF Larger
  <2>4. QED
    BY <1>20, <2>1, <2>3 DEF x
<1>4. alt_align(d) \in Aligns \cup {0} /\ alt_align(d) >= rec.alt
  BY <1>1, <1>2, <1>3, <1>40, Zenon
<1>5. ASSUME d.bitfield, d.named, ~d.packed, ~(rec.pack > 0) PROVE alt_align(d) >= d.ty.size
  <2>1. mem_align(d) = d.ty.align /\ d.ty.align = d.ty.size
    BY <1>5, DeclIs DEF mem_align
  <2>2. QED
    BY <1>40, <1>5, <2>1
<1>6. QED
  BY <1>3, <1>4, <1>5

LEMMA AlignedBy ==
  ASSUME rec \in Recs
  PROVE  rec.pack \in Packs \cup {0} /\ rec.alt \in Aligns \cup {0}
  BY DEF Recs

LEMMA FirstIs ==
  ASSUME rec \in Recs, NEW d \in Decls
  PROVE  FirstBit(d) \in Nat /\ FirstBit(d) >= rec.bits
<1>1. rec.bits \in Nat /\ d.alt \in Nat
  BY DeclIs, Zenon DEF Recs
<1>2. d.alt > 0 => d.alt * 8 \in Nat \ {0}
  BY <1>1
<1>3. d.alt > 0 => AlignTo(rec.bits, d.alt * 8) \in Nat /\ AlignTo(rec.bits, d.alt * 8) >= rec.bits
  BY <1>1, <1>2, RoundUp
<1>4. QED
  BY <1>1, <1>3 DEF FirstBit

LEMMA BitsAre ==
  ASSUME NEW m \in Members
  PROVE  /\ Lo(m) \in Nat /\ BitsOf(m) \in Nat /\ Hi(m) \in Nat /\ Hi(m) = Lo(m) + BitsOf(m)
         /\ m.named => Hi(m) <= (m.offset + Access(m)) * 8 /\ Access(m) \in Nat /\ m.offset \in Nat
<1>1. m.offset \in Nat /\ m.bit_offset \in Nat /\ m.width \in Nat /\ m.ty.size \in Nat
      /\ m.bitfield \in BOOLEAN
  BY MemberIs
<1>2. Lo(m) \in Nat /\ BitsOf(m) \in Nat
  BY <1>1 DEF Lo, BitsOf
<1>3. ASSUME m.named PROVE Hi(m) <= (m.offset + Access(m)) * 8 /\ Access(m) \in Nat
  <2>1. Access(m) \in Nat /\ m.bit_offset + BitsOf(m) <= Access(m) * 8
    BY <1>3, AccessHolds
  <2>2. QED
    BY <1>1, <1>2, <2>1 DEF Hi, Lo
<1>4. QED
  BY <1>1, <1>2, <1>3 DEF Hi

\* A member of a struct lies at or after the first free bit, and is reached inside of the record.
LEMMA PlaceIs ==
  ASSUME NarrowFields, rec \in Recs, NEW d \in Decls, ~(d.bitfield /\ d.width = 0),
         NEW first \in Nat, first >= rec.bits, NEW m, m = Place(d, first), NEW alt, alt = alt_align(d)
  PROVE  /\ m \in Members /\ Lo(m) >= first /\ SameField(m, d)
         /\ m.named => Spanned(m, Hi(m), alt)
<1>0. /\ d \in Declarators
      /\ d.bitfield \in BOOLEAN /\ d.named \in BOOLEAN /\ d.packed \in BOOLEAN
      /\ d.width \in Nat /\ d.alt \in Nat /\ d.ty \in MemberTypes /\ d.ty.size \in Nat
      /\ d.bitfield => /\ d.ty.size \in {1, 2, 4, 8} /\ d.ty.align = d.ty.size
                       /\ d.width <= d.ty.size * 8 /\ (d.named => d.width > 0)
  BY DeclIs
<1>1. /\ d.ty.align \in Aligns /\ mem_align(d) \in Aligns /\ Aligns \subseteq Nat \ {0}
      /\ d.bitfield /\ d.named /\ ~d.packed /\ ~(rec.pack > 0) => alt >= d.ty.size
  BY AlignedBy, AltIs, AlignsAre
<1>2. rec.pack \in Packs \cup {0} /\ Packs \subseteq Nat
  BY PackAssumption DEF Recs
<1>3. CASE ~d.bitfield
  <2> DEFINE a == mem_align(d)
  <2>0. a \in Nat /\ a # 0
    BY <1>1
  <2>1. a * 8 \in Nat \ {0} /\ a \in Nat
    <3> HIDE DEF a
    <3>1. QED
      BY <2>0
  <2> HIDE DEF a
  <2>20. PICK e \in Nat \ {0} : e = a * 8
    BY <2>1
  <2>21. AlignTo(first, e) >= first /\ \E q \in Nat : AlignTo(first, e) = q * e
    BY RoundUp
  <2>2. PICK q \in Nat : AlignTo(first, a * 8) = q * (a * 8) /\ q * (a * 8) >= first
    BY <2>20, <2>21
  <2>3. PICK o \in Nat : o = q * a
    BY <2>1
  <2>4. AlignTo(first, a * 8) = o * 8
    BY <2>1, <2>2, <2>3
  <2>5. m = At(d, o, 0, FALSE)
    <3>1. m = At(d, AlignTo(first, a * 8) \div 8, 0, FALSE)
      BY <1>3, Zenon DEF Place, a
    <3>2. (o * 8) \div 8 = o
      OBVIOUS
    <3>3. QED
      BY <2>4, <3>1, <3>2
  <2>6. IsAt(m, d, o, 0, FALSE)
    BY <1>0, <2>5, AtIs
  <2>7. /\ m \in Fields /\ SameField(m, d) /\ m.offset = o /\ m.bit_offset = 0
        /\ m.ty = d.ty /\ m.bitfield = d.bitfield /\ m.named = d.named
    BY <2>6, Zenon DEF IsAt, SameField
  <2>8. Reachable(m) /\ Lo(m) = o * 8 /\ Hi(m) = (o + d.ty.size) * 8 /\ Access(m) = d.ty.size
    BY <1>0, <1>3, <2>7 DEF Reachable, Lo, Hi, BitsOf, Access
  <2>9. AlignTo((o + d.ty.size) * 8, 8) >= (o + d.ty.size) * 8
    <3>1. (o + d.ty.size) * 8 \in Nat
      BY <1>0
    <3>2. QED
      BY <3>1, Round8
  <2>10. QED
    BY <1>0, <2>2, <2>4, <2>7, <2>8, <2>9 DEF Members, Spanned
<1>4. CASE d.bitfield /\ (d.packed \/ rec.pack > 0)
  <2>1. d.width > 0 /\ d.width < 64 /\ d.width < d.ty.size * 8
    <3>1. rec.pack > 0 => ~(Packs \subseteq {0})
      <4>1. ~(0 > 0)
        OBVIOUS
      <4>2. QED
        BY <1>2, <4>1, Zenon
    <3>2. d.width < 64 /\ (d.width < d.ty.size * 8 \/ (~d.packed /\ Packs \subseteq {0}))
      BY <1>4, Zenon DEF NarrowFields
    <3>3. QED
      BY <3>1, <3>2, <1>0, <1>4
  <2>2. m = PackedField(d, first)
    BY <1>4, Zenon DEF Place
  <2>3. /\ m \in Members /\ SameField(m, d) /\ Lo(m) = first
        /\ (m.offset + Access(m)) * 8 = AlignTo(first + d.width, 8)
    BY <1>0, <1>4, <2>1, <2>2, PackedIs
  <2>4. Hi(m) = first + d.width
    BY <1>4, <2>3 DEF Hi, BitsOf, SameField
  <2>5. AlignTo(Hi(m), 8) \in Nat
    <3>1. Hi(m) \in Nat
      BY <1>0, <2>4
    <3>2. QED
      BY <3>1, Round8
  <2>6. QED
    BY <2>3, <2>4, <2>5 DEF Spanned
<1>5. CASE d.bitfield /\ ~(d.packed \/ rec.pack > 0)
  <2>1. d.width > 0 /\ d.width < 64
    BY <1>0, <1>5 DEF NarrowFields
  <2>2. m = UnitField(d, first)
    BY <1>5, Zenon DEF Place
  <2>3. /\ m \in Members /\ SameField(m, d) /\ Lo(m) >= first
        /\ m.offset % m.ty.size = 0 /\ Access(m) <= m.ty.size
    BY <1>0, <1>5, <2>1, <2>2, UnitIs
  <2>4. m.offset \in Nat /\ m.bit_offset \in Nat
    BY <2>3, MemberIs
  <2>5. m.ty = d.ty /\ m.bitfield = d.bitfield /\ m.width = d.width /\ m.named = d.named
    BY <2>3 DEF SameField
  <2>6. m.offset * 8 < Hi(m)
    BY <1>0, <1>5, <2>1, <2>4, <2>5 DEF Hi, Lo, BitsOf
  <2>7. m.named => m.ty.size \in Aligns /\ m.ty.size <= alt
    BY <1>0, <1>1, <1>5, <2>5
  <2>8. QED
    BY <1>5, <2>3, <2>5, <2>6, <2>7 DEF Spanned, InUnit
<1>6. QED
  BY <1>0, <1>3, <1>4, <1>5

LEMMA MembersAre ==
  ASSUME NEW r \in Recs
  PROVE  /\ r.members \in Seq(Members) /\ Len(r.members) \in Nat /\ DOMAIN r.members = 1..Len(r.members)
         /\ \A a \in 1..Len(r.members) : r.members[a] \in Members
         /\ r.bits \in Nat /\ r.alt \in Nat /\ r.alt \in Aligns \cup {0} /\ r.size \in Int
         /\ r.kind \in {"struct", "union"}
<1>1. /\ r.members \in Seq(Members) /\ r.bits \in Nat /\ r.alt \in Aligns \cup {0} /\ r.size \in Int
      /\ r.kind \in {"struct", "union"}
  BY Zenon DEF Recs
<1>2. Len(r.members) \in Nat /\ DOMAIN r.members = 1..Len(r.members)
      /\ \A a \in 1..Len(r.members) : r.members[a] \in Members
  BY <1>1
<1>3. r.alt \in Nat
  <2>1. Aligns \subseteq Nat
    BY AlignsAre
  <2>2. 0 \in Nat
    OBVIOUS
  <2>3. QED
    BY <1>1, <2>1, <2>2, Zenon
<1>4. QED
  BY <1>1, <1>2, <1>3

\* What holds of a longer record with more room and no smaller alignment.
LEMMA SpannedGrows ==
  ASSUME NEW m \in Members, m.named, NEW x \in Nat, NEW y \in Nat, x <= y,
         NEW s \in Nat, NEW t \in Nat, s <= t, Spanned(m, x, s)
  PROVE  Spanned(m, y, t)
<1>1. m.offset \in Nat /\ Access(m) \in Nat /\ m.ty.size \in Nat
  BY BitsAre, MemberIs
<1>2. CASE (m.offset + Access(m)) * 8 <= AlignTo(x, 8)
  <2>1. AlignTo(x, 8) <= AlignTo(y, 8)
    BY DEF AlignTo
  <2>2. AlignTo(x, 8) \in Nat /\ AlignTo(y, 8) \in Nat
    BY Round8
  <2>3. (m.offset + Access(m)) * 8 <= AlignTo(y, 8)
    BY <1>1, <1>2, <2>1, <2>2
  <2>4. QED
    BY <2>3 DEF Spanned
<1>3. CASE InUnit(m, x, s)
  <2>1. m.offset * 8 < y /\ m.ty.size <= t
    BY <1>1, <1>3 DEF InUnit
  <2>2. QED
    BY <1>3, <2>1 DEF Spanned, InUnit
<1>4. QED
  BY <1>2, <1>3 DEF Spanned

LEMMA LayoutBegins ==
  ASSUME NEW kind \in {"struct", "union"}, NEW pack \in Packs \cup {0}, NEW r, r = Open(kind, pack)
  PROVE  r \in Recs /\ Layout(r) /\ r.size = -1
<1>1. r.members = <<>> /\ r.size = -1 /\ Len(r.members) = 0
  BY DEF Open
<1>2. r \in Recs
  <2>1. <<>> \in Seq(Members) /\ 0 \in Nat /\ -1 \in Int /\ 1 \in Int
    OBVIOUS
  <2>2. QED
    BY <2>1, Zenon DEF Open, Recs
<1>3. 1..Len(r.members) = {} /\ ~(r.size >= 0)
  BY <1>1
<1>4. QED
  BY <1>1, <1>2, <1>3 DEF Layout, InOrder, InReach

\* A record with room added at its end.
LEMMA LayoutGrows ==
  ASSUME NEW r \in Recs, Layout(r), NEW q \in Recs, ~(q.size >= 0), q.kind = r.kind, q.members = r.members,
         q.bits >= r.bits, q.alt >= r.alt
  PROVE  Layout(q)
<1> DEFINE n == Len(r.members)
<1>1. /\ n \in Nat /\ \A a \in 1..n : r.members[a] \in Members
      /\ r.bits \in Nat /\ r.alt \in Nat /\ q.bits \in Nat /\ q.alt \in Nat
  BY MembersAre
<1>2. ASSUME NEW a \in 1..n, r.members[a].named PROVE Spanned(r.members[a], q.bits, q.alt)
  <2>1. Spanned(r.members[a], r.bits, r.alt)
    BY <1>2, Zenon DEF Layout, InReach
  <2>2. QED
    BY <1>1, <1>2, <2>1, SpannedGrows
<1>3. ASSUME r.kind = "struct", NEW a \in 1..n PROVE Hi(r.members[a]) <= q.bits
  <2>1. Hi(r.members[a]) <= r.bits /\ Hi(r.members[a]) \in Nat
    BY <1>1, <1>3, BitsAre DEF Layout, InOrder
  <2>2. QED
    BY <1>1, <2>1
<1>4. QED
  BY <1>2, <1>3 DEF Layout, InOrder, InReach

\* A record with a member laid behind the others.
LEMMA LayoutAppend ==
  ASSUME NEW r \in Recs, Layout(r), NEW m \in Members, NEW q \in Recs, ~(q.size >= 0),
         q.kind = r.kind, q.members = Append(r.members, m), q.bits >= r.bits, q.alt >= r.alt,
         r.kind = "struct" => Lo(m) >= r.bits /\ Hi(m) <= q.bits,
         m.named => Spanned(m, q.bits, q.alt)
  PROVE  Layout(q)
<1> DEFINE n == Len(r.members)
<1>1. /\ r.members \in Seq(Members) /\ n \in Nat /\ \A a \in 1..n : r.members[a] \in Members
      /\ r.bits \in Nat /\ r.alt \in Nat /\ q.bits \in Nat /\ q.alt \in Nat
  BY MembersAre
<1>2. /\ Len(q.members) = n + 1 /\ q.members[n + 1] = m
      /\ \A a \in 1..n : q.members[a] = r.members[a]
  BY <1>1
<1>3. Lo(m) \in Nat /\ Hi(m) \in Nat /\ \A a \in 1..n : Lo(r.members[a]) \in Nat /\ Hi(r.members[a]) \in Nat
  BY <1>1, BitsAre
<1>4. \A a \in 1..(n + 1) : a = n + 1 \/ a \in 1..n
  BY <1>1
<1>5. ASSUME NEW a \in 1..(n + 1), q.members[a].named PROVE Spanned(q.members[a], q.bits, q.alt)
  <2>1. CASE a = n + 1
    BY <1>2, <1>5, <2>1, Zenon
  <2>2. CASE a \in 1..n
    <3>1. PICK e \in Members : e = r.members[a] /\ e = q.members[a]
      BY <1>1, <1>2, <2>2
    <3>2. Spanned(e, r.bits, r.alt) /\ e.named
      BY <1>5, <2>2, <3>1, Zenon DEF Layout, InReach
    <3>3. Spanned(e, q.bits, q.alt)
      BY <1>1, <3>2, SpannedGrows
    <3>4. QED
      BY <3>1, <3>3
  <2>3. QED
    BY <1>4, <2>1, <2>2
<1>6. ASSUME r.kind = "struct", NEW a \in 1..(n + 1) PROVE Hi(q.members[a]) <= q.bits
  <2>1. CASE a = n + 1
    BY <1>2, <1>6, <2>1, Zenon
  <2>2. CASE a \in 1..n
    <3>1. PICK h \in Nat : h = Hi(r.members[a]) /\ h = Hi(q.members[a])
      BY <1>2, <1>3, <2>2
    <3>2. h <= r.bits
      BY <1>6, <2>2, <3>1, Zenon DEF Layout, InOrder
    <3>3. h <= q.bits
      BY <1>1, <3>2
    <3>4. QED
      BY <3>1, <3>3
  <2>3. QED
    BY <1>4, <2>1, <2>2
<1>7. ASSUME r.kind = "struct", NEW a \in 1..(n + 1), NEW b \in 1..(n + 1), a < b
      PROVE  Hi(q.members[a]) <= Lo(q.members[b])
  <2>1. a \in 1..n
    BY <1>1, <1>7
  <2>2. CASE b = n + 1
    <3>1. PICK h \in Nat : h = Hi(r.members[a]) /\ h = Hi(q.members[a])
      BY <1>2, <1>3, <2>1
    <3>2. h <= r.bits
      BY <1>7, <2>1, <3>1, Zenon DEF Layout, InOrder
    <3>3. PICK l \in Nat : l = Lo(m) /\ l = Lo(q.members[b])
      BY <1>2, <1>3, <2>2
    <3>4. h <= l
      <4>1. l >= r.bits
        BY <1>7, <3>3, Zenon
      <4>2. r.bits \in Nat
        BY <1>1
      <4>3. QED
        BY <3>2, <4>1, <4>2
    <3>5. QED
      BY <3>1, <3>3, <3>4
  <2>3. CASE b \in 1..n
    <3>1. Hi(r.members[a]) <= Lo(r.members[b])
      BY <1>7, <2>1, <2>3, Zenon DEF Layout, InOrder
    <3>2. QED
      BY <1>2, <2>1, <2>3, <3>1
  <2>4. QED
    BY <1>4, <2>2, <2>3
<1>8. QED
  <2> HIDE DEF n
  <2>1. 1..Len(q.members) = 1..(n + 1)
    BY <1>2
  <2>2. q.kind = "struct" => InOrder(q)
    BY <1>6, <1>7, <2>1, Zenon DEF InOrder
  <2>3. InReach(q)
    BY <1>5, <2>1, Zenon DEF InReach
  <2>4. QED
    BY <2>2, <2>3 DEF Layout

-----------------------------------------------------------------------------
(* The steps of the declaration                                            *)

LEMMA AddMemberStep ==
  ASSUME NarrowFields, rec \in Recs, Layout(rec), NEW d \in Decls, AddMember(d)
  PROVE  rec' \in Recs /\ Layout(rec')
<1> DEFINE first == FirstBit(d)
           placed == Place(d, first)
           behind == IF d.bitfield /\ d.width = 0 THEN AlignTo(first, d.ty.size * 8)
                   ELSE placed.offset * 8 + placed.bit_offset + BitsOf(d)
           alt == alt_align(d)
<1>1. ~(rec.size >= 0) /\ rec.kind = "struct"
  BY DEF AddMember, Complete
<1>2. rec' = [rec EXCEPT !.alt = alt, !.bits = behind,
                         !.members = IF d.bitfield /\ d.width = 0 THEN @ ELSE Append(@, placed)]
  BY Zenon DEF AddMember
<1>3. /\ rec.members \in Seq(Members) /\ rec.bits \in Nat /\ rec.alt \in Nat
  BY MembersAre
<1>4. first \in Nat /\ first >= rec.bits
  BY FirstIs
<1>5. alt \in Aligns \cup {0} /\ alt >= rec.alt
  BY AlignedBy, AltIs
<1>6. /\ d.bitfield \in BOOLEAN /\ d.width \in Nat /\ d.ty.size \in Nat
      /\ d.bitfield => d.ty.size \in {1, 2, 4, 8}
  BY DeclIs
<1> HIDE DEF first, alt
<1>7. \A ms \in Seq(Members), bits \in Nat :
        [rec EXCEPT !.alt = alt, !.bits = bits, !.members = ms] \in Recs
  BY <1>5, Zenon DEF Recs
<1>8. CASE d.bitfield /\ d.width = 0
  <2>1. d.ty.size * 8 \in Nat \ {0}
    BY <1>6, <1>8
  <2>2. PICK bits \in Nat : bits = AlignTo(first, d.ty.size * 8) /\ bits >= first
    BY <1>4, <2>1, RoundUp
  <2>3. rec' = [rec EXCEPT !.alt = alt, !.bits = bits, !.members = rec.members]
    BY <1>2, <1>8, <2>2, Zenon
  <2>4. rec' \in Recs
    BY <1>3, <1>7, <2>3, Zenon
  <2>5. rec'.kind = rec.kind /\ rec'.members = rec.members /\ rec'.size = rec.size
        /\ rec'.bits = bits /\ rec'.alt = alt
    BY <2>3 DEF Recs
  <2>6. QED
    BY <1>1, <1>3, <1>4, <1>5, <2>2, <2>4, <2>5, LayoutGrows
<1>9. CASE ~(d.bitfield /\ d.width = 0)
  <2>1. SameField(placed, d) => BitsOf(placed) = BitsOf(d)
    BY DEF SameField, BitsOf
  <2>2. PICK m : m = placed
    OBVIOUS
  <2> HIDE DEF placed
  <2>3. m = Place(d, first)
    BY <2>2 DEF placed
  <2>4. m \in Members /\ Lo(m) >= first /\ SameField(m, d)
    BY <1>4, <1>9, <2>3, PlaceIs
  <2>5. PICK bits \in Nat : bits = behind /\ bits = Hi(m)
    <3>1. behind = Hi(m)
      BY <1>9, <2>1, <2>2, <2>4 DEF Hi, Lo
    <3>2. Hi(m) \in Nat
      BY <2>4, BitsAre
    <3>3. QED
      BY <3>1, <3>2
  <2> HIDE DEF behind
  <2>6. m.named => Spanned(m, bits, alt)
    BY <1>4, <1>9, <2>3, <2>5, PlaceIs DEF alt
  <2>7. rec' = [rec EXCEPT !.alt = alt, !.bits = bits, !.members = Append(rec.members, m)]
    BY <1>2, <1>9, <2>2, <2>5, Zenon
  <2>8. Append(rec.members, m) \in Seq(Members)
    BY <1>3, <2>4
  <2>9. rec' \in Recs
    BY <1>7, <2>7, <2>8, Zenon
  <2>10. rec'.kind = rec.kind /\ rec'.members = Append(rec.members, m) /\ rec'.size = rec.size
         /\ rec'.bits = bits /\ rec'.alt = alt
    BY <2>7 DEF Recs
  <2>11. Lo(m) >= rec.bits /\ Hi(m) <= bits /\ bits >= rec.bits
    <3>1. Lo(m) \in Nat /\ Hi(m) \in Nat /\ BitsOf(m) \in Nat /\ Hi(m) = Lo(m) + BitsOf(m)
      BY <2>4, BitsAre
    <3>2. PICK l \in Nat, h \in Nat, w \in Nat : l = Lo(m) /\ h = Hi(m) /\ w = BitsOf(m) /\ h = l + w
      BY <3>1
    <3>3. l >= first /\ bits = h
      BY <2>4, <2>5, <3>2, Zenon
    <3>4. l >= rec.bits /\ h <= bits /\ bits >= rec.bits
      <4>1. PICK x \in Nat, y \in Nat : x = rec.bits /\ y = first /\ y >= x
        BY <1>3, <1>4
      <4>2. l >= y /\ bits = h /\ h = l + w
        BY <3>2, <3>3, <4>1, Zenon
      <4>3. l >= x /\ h <= bits /\ bits >= x
        BY <4>1, <4>2
      <4>4. QED
        BY <4>1, <4>3, Zenon
    <3>5. QED
      BY <3>2, <3>4, Zenon
  <2>12. QED
    BY <1>1, <1>5, <2>4, <2>6, <2>9, <2>10, <2>11, LayoutAppend
<1>10. QED
  BY <1>8, <1>9

LEMMA AddUnionMemberStep ==
  ASSUME NarrowFields, rec \in Recs, Layout(rec), NEW d \in Decls, AddUnionMember(d)
  PROVE  rec' \in Recs /\ Layout(rec')
<1>1. ~(rec.size >= 0) /\ rec.kind = "union"
  BY DEF AddUnionMember, Complete
<1>2. /\ rec.members \in Seq(Members) /\ rec.bits \in Nat /\ rec.alt \in Nat
  BY MembersAre
<1>3. PICK alt \in Aligns \cup {0} : alt = alt_align(d) /\ alt >= rec.alt
  BY AlignedBy, AltIs
<1>4. /\ d \in Declarators /\ d.bitfield \in BOOLEAN /\ d.width \in Nat /\ d.ty.size \in Nat
      /\ d.bitfield => d.ty.size \in {1, 2, 4, 8} /\ d.width <= d.ty.size * 8 /\ (d.named => d.width > 0)
  BY DeclIs
<1>5. d.bitfield => d.width < 64
  BY DEF NarrowFields
<1>6. PICK m : m = At(d, 0, 0, FALSE)
  OBVIOUS
<1>7. IsAt(m, d, 0, 0, FALSE)
  BY <1>4, <1>6, AtIs
<1>8. /\ m \in Fields /\ m.offset = 0 /\ m.bit_offset = 0 /\ ~m.is_aligned_bitfiled
      /\ m.ty = d.ty /\ m.bitfield = d.bitfield /\ m.width = d.width /\ m.named = d.named
  BY <1>7, Zenon DEF IsAt, SameField
<1>9. m \in Members
  BY <1>4, <1>5, <1>8 DEF Members, Reachable
<1>10. PICK w \in Nat : w = BitsOf(d) /\ w = BitsOf(m)
  BY <1>4, <1>8 DEF BitsOf
<1>11. PICK bits \in Nat : bits = Larger(rec.bits, AlignTo(w, 8)) /\ bits >= rec.bits /\ bits >= AlignTo(w, 8)
  <2>1. PICK v \in Nat : v = AlignTo(w, 8)
    BY Round8
  <2>2. Larger(rec.bits, v) \in Nat /\ Larger(rec.bits, v) >= rec.bits /\ Larger(rec.bits, v) >= v
    BY <1>2 DEF Larger
  <2>3. QED
    BY <2>1, <2>2, Zenon
<1>12. rec' = [rec EXCEPT !.alt = alt, !.bits = bits, !.members = Append(rec.members, m)]
  BY <1>3, <1>6, <1>10, <1>11, Zenon DEF AddUnionMember
<1>13. rec' \in Recs
  <2>1. Append(rec.members, m) \in Seq(Members)
    BY <1>2, <1>9
  <2>2. QED
    BY <1>12, <2>1, Zenon DEF Recs
<1>14. rec'.kind = rec.kind /\ rec'.members = Append(rec.members, m) /\ rec'.size = rec.size
       /\ rec'.bits = bits /\ rec'.alt = alt
  BY <1>12 DEF Recs
<1>15. m.named => Spanned(m, bits, alt)
  <2>1. AlignTo(bits, 8) >= bits /\ AlignTo(bits, 8) \in Nat /\ AlignTo(w, 8) \in Nat /\ AlignTo(w, 8) % 8 = 0
        /\ AlignTo(w, 8) >= w
    BY Round8
  <2>2. CASE ~m.bitfield
    <3>1. Access(m) * 8 = w
      BY <1>10, <2>2 DEF Access, BitsOf
    <3>2. (m.offset + Access(m)) * 8 <= AlignTo(bits, 8)
      BY <1>4, <1>8, <1>11, <2>1, <2>2, <3>1 DEF Access
    <3>3. QED
      BY <3>2 DEF Spanned
  <2>3. CASE m.bitfield
    <3>1. m.width + m.bit_offset = w
      BY <1>4, <1>8, <1>10, <2>3 DEF BitsOf
    <3>2. Access(m) = AlignTo(w, 8) \div 8
      BY <1>8, <2>3, <3>1 DEF Access, bitfield_footprint
    <3>3. (m.offset + Access(m)) * 8 <= AlignTo(bits, 8)
      BY <1>8, <1>11, <2>1, <3>2
    <3>4. QED
      BY <3>3 DEF Spanned
  <2>4. QED
    BY <2>2, <2>3
<1>16. QED
  BY <1>1, <1>3, <1>9, <1>11, <1>13, <1>14, <1>15, LayoutAppend

\* The record ends behind every integer through which a member is accessed.
LEMMA CloseRecordStep ==
  ASSUME rec \in Recs, Layout(rec), CloseRecord
  PROVE  rec' \in Recs /\ Layout(rec')
<1> DEFINE n == Len(rec.members)
<1>1. /\ rec.members \in Seq(Members) /\ n \in Nat /\ \A a \in 1..n : rec.members[a] \in Members
      /\ rec.bits \in Nat /\ rec.alt \in Nat /\ rec.alt \in Aligns \cup {0}
  BY MembersAre
<1>2. rec.pack \in Nat
  <2>1. rec.pack \in Packs \cup {0}
    BY Zenon DEF Recs
  <2>2. 0 \in Nat
    OBVIOUS
  <2>3. QED
    BY <2>1, <2>2, PackAssumption, Zenon
<1>3. rec' = [rec EXCEPT !.size = struct_size, !.align = Larger(1, rec.alt)]
  BY Zenon DEF CloseRecord
<1>4. PICK g \in Nat \ {0} : /\ struct_size = AlignTo(rec.bits, g * 8) \div 8
                             /\ rec.alt > 0 => g = rec.alt
  <2>1. CASE rec.kind = "struct" /\ rec.alt = 0 /\ rec.pack > 0
    BY <1>2, <2>1 DEF struct_size
  <2>2. CASE ~(rec.kind = "struct" /\ rec.alt = 0 /\ rec.pack > 0)
    <3>1. Larger(1, rec.alt) \in Nat \ {0} /\ (rec.alt > 0 => Larger(1, rec.alt) = rec.alt)
      BY <1>1 DEF Larger
    <3>2. struct_size = AlignTo(rec.bits, Larger(1, rec.alt) * 8) \div 8
      BY <2>2, Zenon DEF struct_size
    <3>3. QED
      BY <3>1, <3>2
  <2>3. QED
    BY <2>1, <2>2
<1>5. PICK e \in Nat \ {0} : e = g * 8
  OBVIOUS
<1>6. PICK q \in Nat : AlignTo(rec.bits, e) = q * e /\ AlignTo(rec.bits, e) >= rec.bits
  BY <1>1, RoundUp
<1>7. PICK z \in Nat : z = q * g
  OBVIOUS
<1>8. z * 8 = AlignTo(rec.bits, e) /\ struct_size = z
  <2>1. q * (g * 8) = (q * g) * 8
    OBVIOUS
  <2>2. z * 8 = AlignTo(rec.bits, e)
    BY <1>5, <1>6, <1>7, <2>1, Zenon
  <2>3. (z * 8) \div 8 = z
    OBVIOUS
  <2>4. QED
    BY <1>4, <1>5, <2>2, <2>3, Zenon
<1>9. z * 8 >= rec.bits
  BY <1>6, <1>8
<1>10. ASSUME NEW a \in 1..n, rec.members[a].named
       PROVE  rec.members[a].offset + Access(rec.members[a]) <= z
  <2>1. PICK m \in Members : m = rec.members[a]
    BY <1>1
  <2>2. Spanned(m, rec.bits, rec.alt) /\ m.named
    BY <1>10, <2>1, Zenon DEF Layout, InReach
  <2>3. m.offset \in Nat /\ Access(m) \in Nat
    BY <2>2, BitsAre
  <2>4. CASE (m.offset + Access(m)) * 8 <= AlignTo(rec.bits, 8)
    <3>1. PICK bits \in Nat : bits = rec.bits
      BY <1>1
    <3>2. z * 8 >= bits
      BY <1>9, <3>1
    <3>3. AlignTo(bits, 8) <= z * 8
      BY <3>2 DEF AlignTo
    <3>4. PICK o \in Nat, c \in Nat, u \in Nat : o = m.offset /\ c = Access(m) /\ u = AlignTo(bits, 8)
      BY <2>3, Round8
    <3>5. (o + c) * 8 <= u /\ u <= z * 8
      BY <2>4, <3>1, <3>3, <3>4, Zenon
    <3>6. o + c <= z
      BY <3>5
    <3>7. QED
      BY <2>1, <3>4, <3>6, Zenon
  <2>5. CASE InUnit(m, rec.bits, rec.alt)
    <3>1. /\ m.bitfield /\ Access(m) <= m.ty.size /\ m.offset % m.ty.size = 0 /\ m.offset * 8 < rec.bits
          /\ m.ty.size \in Aligns /\ m.ty.size <= rec.alt
      BY <2>5 DEF InUnit
    <3>2. m.ty.size \in {1, 2, 4, 8}
      BY <3>1, MemberIs, Zenon DEF Reachable
    <3>3. PICK s \in {1, 2, 4, 8} : s = m.ty.size
      BY <3>2, Zenon
    <3>4. s \in Aligns /\ s <= rec.alt /\ rec.alt \in Aligns /\ rec.alt > 0
      <4>1. s \in Aligns /\ s <= rec.alt
        BY <3>1, <3>3, Zenon
      <4>2. rec.alt > 0 /\ rec.alt # 0
        BY <1>1, <4>1
      <4>3. QED
        BY <1>1, <4>1, <4>2, Zenon
    <3>5. g = rec.alt /\ g % s = 0
      BY <1>4, <3>4, AlignAssumption, Zenon
    <3>6. PICK c \in Nat : g = c * s
      <4>1. CASE s = 1
        BY <3>5, <4>1
      <4>2. CASE s = 2
        BY <3>5, <4>2
      <4>3. CASE s = 4
        BY <3>5, <4>3
      <4>4. CASE s = 8
        BY <3>5, <4>4
      <4>5. QED
        BY <4>1, <4>2, <4>3, <4>4
    <3>7. PICK f \in Nat : f = q * c
      OBVIOUS
    <3>8. z = f * s
      <4>1. q * (c * s) = (q * c) * s
        OBVIOUS
      <4>2. QED
        BY <1>7, <3>6, <3>7, <4>1, Zenon
    <3>9. PICK o \in Nat, x \in Nat : o = m.offset /\ x = Access(m)
      BY <2>3
    <3>10. x <= s /\ o % s = 0 /\ o * 8 < rec.bits
      BY <3>1, <3>3, <3>9, Zenon
    <3>11. o < z
      BY <1>1, <1>9, <3>10
    <3>12. o + s <= z
      <4>1. CASE s = 1
        BY <3>11, <4>1
      <4>2. CASE s = 2
        BY <3>8, <3>10, <3>11, <4>2
      <4>3. CASE s = 4
        BY <3>8, <3>10, <3>11, <4>3
      <4>4. CASE s = 8
        BY <3>8, <3>10, <3>11, <4>4
      <4>5. QED
        BY <4>1, <4>2, <4>3, <4>4
    <3>13. o + x <= z
      BY <3>10, <3>12
    <3>14. QED
      BY <2>1, <3>9, <3>13, Zenon
  <2>6. QED
    BY <2>2, <2>4, <2>5 DEF Spanned
<1>11. rec' \in Recs
  <2>1. z \in Int /\ Larger(1, rec.alt) \in Int
    BY <1>1 DEF Larger
  <2>2. rec' = [rec EXCEPT !.size = z, !.align = Larger(1, rec.alt)]
    BY <1>3, <1>8, Zenon
  <2>3. QED
    BY <2>1, <2>2, Zenon DEF Recs
<1>12. /\ rec'.members = rec.members /\ rec'.kind = rec.kind /\ rec'.bits = rec.bits /\ rec'.alt = rec.alt
       /\ rec'.size = z
  <2>1. rec' = [rec EXCEPT !.size = z, !.align = Larger(1, rec.alt)]
    BY <1>3, <1>8, Zenon
  <2>2. QED
    BY <2>1, Zenon DEF Recs
<1> HIDE DEF n
<1>13. (rec'.kind = "struct" => InOrder(rec'))
  BY <1>12, Zenon DEF Layout, InOrder
<1>14. InReach(rec')
  BY <1>10, <1>12, Zenon DEF Layout, InReach, n
<1>15. QED
  BY <1>11, <1>13, <1>14 DEF Layout

-----------------------------------------------------------------------------
(* The first member that is behind a bit, and sequences built by recursion *)

Fewer == OpToRel(<, Nat)

LEMMA Least ==
  ASSUME NEW S \in SUBSET Nat, S # {}
  PROVE  \E x \in S : \A y \in S : x <= y
<1>1. IsWellFoundedOn(Fewer, Nat)
  BY NatLessThanWellFounded DEF Fewer
<1>2. PICK x \in S : \A y \in S : ~(<<y, x>> \in Fewer)
  BY <1>1, WFMin
<1>3. \A y \in Nat, z \in Nat : y < z => <<y, z>> \in Fewer
  BY DEF Fewer, OpToRel
<1>4. ASSUME NEW y \in S PROVE x <= y
  <2>1. x \in Nat /\ y \in Nat /\ ~(y < x)
    BY <1>2, <1>3, <1>4
  <2>2. QED
    BY <2>1
<1>5. QED
  BY <1>4

LEMMA Induct ==
  ASSUME NEW n \in Nat, NEW G, 0 \in G, \A j \in 1..n : j - 1 \in G => j \in G
  PROVE  \A j \in 0..n : j \in G
<1> DEFINE B == {j \in 0..n : j \notin G}
<1>1. SUFFICES ASSUME B # {} PROVE FALSE
  OBVIOUS
<1>2. PICK x \in B : \A y \in B : x <= y
  <2>1. B \in SUBSET Nat
    OBVIOUS
  <2> HIDE DEF B
  <2>2. QED
    BY <1>1, <2>1, Least
<1>3. x \in 1..n /\ x \notin G
  OBVIOUS
<1>4. x - 1 \notin B
  BY <1>2, <1>3
<1>5. x - 1 \in G
  BY <1>3, <1>4
<1>6. QED
  BY <1>3, <1>5

-----------------------------------------------------------------------------
(* The object                                                              *)

Room == 0..(rec.size * 8 - 1)

\* The bits of a member are those it was given.
Kept(a) == \A b \in Room : Inside(rec.members[a], b) => memory[b] = Bit(a, b - Lo(rec.members[a]), written[a])

\* A written member keeps what it was given; of a union only the last one does.
Contents ==
  /\ Complete
  /\ memory = [b \in Room |-> memory[b]]
  /\ written \in [Accessible -> {"nothing", "constant", "stored"}]
  /\ rec.kind = "union" =>
       \A a, b \in Accessible : written[a] # "nothing" /\ written[b] # "nothing" => a = b
  /\ \A a \in Accessible : written[a] # "nothing" => Kept(a)

RecInv == rec \in Recs /\ Layout(rec) /\ (memory # <<>> => Contents)

\* The members of a record that can be named are members that can be reached.
LEMMA AccessibleAre ==
  ASSUME rec \in Recs, NEW a \in Accessible
  PROVE  rec.members[a] \in Members /\ rec.members[a].named /\ a \in 1..Len(rec.members)
<1>1. a \in DOMAIN rec.members /\ rec.members[a].named
  BY Zenon DEF Accessible
<1>2. rec.members \in Seq(Members)
  BY MembersAre
<1>3. QED
  BY <1>1, <1>2

\* In a struct no bit belongs to two members.
LEMMA Apart ==
  ASSUME rec \in Recs, Layout(rec), rec.kind = "struct", NEW a \in Accessible, NEW c \in Accessible, a # c,
         NEW b \in Nat, Inside(rec.members[a], b)
  PROVE  ~Inside(rec.members[c], b)
<1>1. /\ rec.members[a] \in Members /\ rec.members[c] \in Members
      /\ a \in 1..Len(rec.members) /\ c \in 1..Len(rec.members)
  BY AccessibleAre
<1>2. PICK l1 \in Nat, w1 \in Nat, h1 \in Nat :
        l1 = Lo(rec.members[a]) /\ w1 = BitsOf(rec.members[a]) /\ h1 = Hi(rec.members[a]) /\ h1 = l1 + w1
  BY <1>1, BitsAre, Zenon
<1>3. PICK l2 \in Nat, w2 \in Nat, h2 \in Nat :
        l2 = Lo(rec.members[c]) /\ w2 = BitsOf(rec.members[c]) /\ h2 = Hi(rec.members[c]) /\ h2 = l2 + w2
  BY <1>1, BitsAre, Zenon
<1>4. a < c => h1 <= l2
  BY <1>1, <1>2, <1>3, Zenon DEF Layout, InOrder
<1>5. c < a => h2 <= l1
  BY <1>1, <1>2, <1>3, Zenon DEF Layout, InOrder
<1>6. a < c \/ c < a
  <2>1. Len(rec.members) \in Nat
    BY MembersAre
  <2>2. QED
    BY <1>1, <2>1
<1>7. b - l1 \in 0..(w1 - 1)
  BY <1>2, Zenon DEF Inside
<1>8. b - l2 \notin 0..(w2 - 1)
  BY <1>2, <1>3, <1>4, <1>5, <1>6, <1>7
<1>9. QED
  BY <1>3, <1>8, Zenon DEF Inside

\* A member's bits lie in the object.
LEMMA InRoom ==
  ASSUME rec \in Recs, Layout(rec), Complete, NEW a \in Accessible, NEW k \in Nat, k < BitsOf(rec.members[a])
  PROVE  /\ Lo(rec.members[a]) + k \in Room /\ Inside(rec.members[a], Lo(rec.members[a]) + k)
         /\ (Lo(rec.members[a]) + k) - Lo(rec.members[a]) = k
<1>1. PICK m : m = rec.members[a] /\ m \in Members /\ m.named /\ a \in 1..Len(rec.members)
  BY AccessibleAre, Zenon
<1>2. PICK l \in Nat, w \in Nat, h \in Nat : l = Lo(m) /\ w = BitsOf(m) /\ h = Hi(m) /\ h = l + w
  BY <1>1, BitsAre, Zenon
<1>3. PICK o \in Nat, x \in Nat : o = m.offset /\ x = Access(m) /\ h <= (o + x) * 8
  BY <1>1, <1>2, BitsAre, Zenon
<1>4. o + x <= rec.size
  BY <1>1, <1>3, Zenon DEF Layout, InReach, Complete
<1>5. rec.size \in Int
  BY Zenon DEF Recs
<1>6. k < w
  BY <1>1, <1>2, Zenon
<1>7. l + k \in 0..(rec.size * 8 - 1) /\ (l + k) - l = k /\ (l + k) - l \in 0..(w - 1)
  BY <1>2, <1>3, <1>4, <1>5, <1>6
<1>8. QED
  BY <1>1, <1>2, <1>7, Zenon DEF Room, Inside

LEMMA ReadsBack ==
  ASSUME RecInv
  PROVE  FieldsReadBack
<1>1. rec \in Recs /\ Layout(rec)
  BY DEF RecInv
<1>2. ASSUME Complete, NEW a \in Accessible PROVE AccessInside(rec.members[a])
  <2>1. rec.members[a].named /\ a \in 1..Len(rec.members)
    BY <1>1, AccessibleAre
  <2>2. QED
    BY <1>1, <1>2, <2>1, Zenon DEF Layout, InReach, AccessInside, Complete
<1>3. ASSUME memory # <<>>, NEW a \in Accessible, written[a] # "nothing",
             NEW own, own = [k \in 0..(rec.members[a].ty.size * 8 - 1) |->
                               IF k < BitsOf(rec.members[a]) THEN Bit(a, k, written[a]) ELSE NoBit("extended")]
      PROVE  load(rec.members[a]) = own /\ (rec.members[a].bitfield => eval_bitfield(rec.members[a]) = own)
  <2>1. PICK m : m = rec.members[a] /\ m \in Members /\ m.named
    BY <1>1, AccessibleAre, Zenon
  <2>2. Contents
    BY <1>3 DEF RecInv
  <2>3. ASSUME NEW k \in 0..(m.ty.size * 8 - 1), k < BitsOf(m) PROVE Old(Lo(m) + k) = Bit(a, k, written[a])
    <3>1. k \in Nat
      <4>1. m.ty.size \in Nat
        BY <2>1, MemberIs
      <4>2. QED
        BY <4>1
    <3>2. Lo(m) + k \in Room /\ Inside(m, Lo(m) + k) /\ (Lo(m) + k) - Lo(m) = k
      BY <1>1, <2>1, <2>2, <2>3, <3>1, InRoom, Zenon DEF Contents
    <3>3. Kept(a)
      BY <1>3, <2>2, Zenon DEF Contents
    <3>4. memory[Lo(m) + k] = Bit(a, k, written[a])
      BY <2>1, <3>2, <3>3, Zenon DEF Kept
    <3>5. Lo(m) + k \in DOMAIN memory
      BY <2>2, <3>2, Zenon DEF Contents
    <3>6. QED
      BY <3>4, <3>5, Zenon DEF Old
  <2>4. ReadsAs(m) = own
    BY <1>3, <2>1, <2>3, Zenon DEF ReadsAs
  <2>5. QED
    BY <2>1, <2>4, LoadIs, Zenon
<1>4. QED
  BY <1>2, <1>3, Zenon DEF FieldsReadBack

(* A static object: what the writer leaves behind, bit by bit.             *)

\* The members up to the j-th that have an initialiser and bit b.
Owners(inits, j, b) == {a \in inits : a <= j /\ Inside(rec.members[a], b)}
Cell(owners, b) ==
  IF owners = {} THEN NoBit("zero")
  ELSE LET a == CHOOSE a \in owners : TRUE IN Bit(a, b - Lo(rec.members[a]), "constant")
Image(inits, j) == [b \in Room |-> Cell(Owners(inits, j, b), b)]
\* No bit belongs to two members with an initialiser.
Disjoint(inits) ==
  \A a, c \in inits, b \in Nat : a # c /\ Inside(rec.members[a], b) => ~Inside(rec.members[c], b)

LEMMA ImageBit ==
  ASSUME NEW inits, Disjoint(inits), NEW j, NEW a \in inits, a <= j, NEW b \in Room, Inside(rec.members[a], b)
  PROVE  Image(inits, j)[b] = Bit(a, b - Lo(rec.members[a]), "constant")
<1>1. b \in Nat
  BY DEF Room
<1>2. Owners(inits, j, b) = {a}
  <2>1. \A c \in inits : Inside(rec.members[c], b) => c = a
    BY <1>1, Zenon DEF Disjoint
  <2>2. QED
    BY <2>1, Zenon DEF Owners
<1>3. (CHOOSE x \in {a} : TRUE) = a
  OBVIOUS
<1>4. {a} # {}
  OBVIOUS
<1>5. QED
  BY <1>2, <1>3, <1>4, Zenon DEF Image, Cell

LEMMA ImageBegins ==
  ASSUME rec \in Recs, NEW inits \in SUBSET Accessible
  PROVE  Image(inits, 0) = Buffer
<1>1. ASSUME NEW b \in Room PROVE Owners(inits, 0, b) = {}
  <2>1. \A a \in inits : ~(a <= 0)
    <3>1. ASSUME NEW a \in inits PROVE ~(a <= 0)
      <4>1. a \in 1..Len(rec.members) /\ Len(rec.members) \in Nat
        BY AccessibleAre, MembersAre
      <4>2. QED
        BY <4>1
    <3>2. QED
      BY <3>1
  <2>2. QED
    BY <2>1, Zenon DEF Owners
<1>2. QED
  BY <1>1, Zenon DEF Image, Cell, Buffer, Room

LEMMA ImageStep ==
  ASSUME rec \in Recs, NEW inits \in SUBSET Accessible, Disjoint(inits), NEW mask64,
         NEW j \in 1..Len(rec.members)
  PROVE  Image(inits, j) = IF j \notin inits THEN Image(inits, j - 1)
                           ELSE [b \in DOMAIN Buffer |-> InitBit(j, b, Image(inits, j - 1)[b], mask64)]
<1>1. Len(rec.members) \in Nat /\ \A a \in inits : a \in 1..Len(rec.members)
  BY AccessibleAre, MembersAre
<1>2. \A a \in inits : a <= j <=> a <= j - 1 \/ a = j
  BY <1>1
<1>3. ASSUME j \notin inits PROVE Image(inits, j) = Image(inits, j - 1)
  <2>1. \A b \in Room : Owners(inits, j, b) = Owners(inits, j - 1, b)
    BY <1>2, <1>3, Zenon DEF Owners
  <2>2. QED
    BY <2>1, Zenon DEF Image
<1>4. ASSUME j \in inits
      PROVE  Image(inits, j) = [b \in DOMAIN Buffer |-> InitBit(j, b, Image(inits, j - 1)[b], mask64)]
  <2>1. rec.members[j] \in Members /\ rec.members[j].named
    BY <1>4, AccessibleAre, Zenon
  <2>2. ASSUME NEW b \in Room PROVE Image(inits, j)[b] = InitBit(j, b, Image(inits, j - 1)[b], mask64)
    <3>1. b \in Nat
      BY DEF Room
    <3>2. ~(j <= j - 1) /\ j <= j
      BY <1>1
    <3>3. CASE Inside(rec.members[j], b)
      <4>1. Owners(inits, j - 1, b) = {}
        <5>1. \A a \in inits : a <= j - 1 => a # j
          BY <3>2
        <5>2. \A a \in inits : a # j => ~Inside(rec.members[a], b)
          BY <1>4, <3>1, <3>3, Zenon DEF Disjoint
        <5>3. QED
          BY <5>1, <5>2, Zenon DEF Owners
      <4>2. Image(inits, j - 1)[b] = NoBit("zero")
        BY <4>1, Zenon DEF Image, Cell
      <4>3. Image(inits, j)[b] = Bit(j, b - Lo(rec.members[j]), "constant")
        BY <1>4, <3>2, <3>3, ImageBit
      <4>4. QED
        BY <2>1, <3>1, <3>3, <4>2, <4>3, InitBitIs
    <3>4. CASE ~Inside(rec.members[j], b)
      <4>1. Owners(inits, j, b) = Owners(inits, j - 1, b)
        BY <1>2, <3>4, Zenon DEF Owners
      <4>2. Image(inits, j)[b] = Image(inits, j - 1)[b]
        BY <4>1, Zenon DEF Image
      <4>3. QED
        BY <2>1, <3>1, <3>4, <4>2, InitBitIs
    <3>5. QED
      BY <3>3, <3>4
  <2>3. DOMAIN Buffer = Room
    BY Zenon DEF Buffer, Room
  <2>4. Image(inits, j) = [b \in Room |-> Image(inits, j)[b]]
    BY Zenon DEF Image
  <2>5. QED
    BY <2>2, <2>3, <2>4, Zenon
<1>5. QED
  BY <1>3, <1>4, Zenon

LEMMA WriteIs ==
  ASSUME rec \in Recs, NEW inits \in SUBSET Accessible, Disjoint(inits), NEW mask64
  PROVE  write_gvar_data(inits, mask64) = Image(inits, Len(rec.members))
<1> DEFINE n == Len(rec.members)
           From(f) == [j \in 0..n |-> IF j = 0 THEN Buffer
                                      ELSE IF j \notin inits THEN f[j - 1]
                                      ELSE [b \in DOMAIN Buffer |-> InitBit(j, b, f[j - 1][b], mask64)]]
           F == CHOOSE f : f = From(f)
           g == [j \in 0..n |-> Image(inits, j)]
           G == {j \in 0..n : F[j] = Image(inits, j)}
<1>1. write_gvar_data(inits, mask64) = F[n]
  BY DEF write_gvar_data
<1>2. n \in Nat
  BY MembersAre
<1>3. \A j \in 1..n : Image(inits, j) = IF j \notin inits THEN Image(inits, j - 1)
                         ELSE [b \in DOMAIN Buffer |-> InitBit(j, b, Image(inits, j - 1)[b], mask64)]
  BY ImageStep
<1>4. Image(inits, 0) = Buffer
  BY ImageBegins
<1> HIDE DEF n
<1>5. \A j \in 0..n : j = 0 \/ (j \in 1..n /\ j # 0 /\ j - 1 \in 0..n)
  BY <1>2
<1>6. F = From(F)
  <2>1. \A j \in 0..n : g[j] = Image(inits, j)
    BY Zenon
  <2>2. g = [j \in 0..n |-> g[j]]
    BY Zenon
  <2> HIDE DEF g
  <2>3. ASSUME NEW j \in 0..n
        PROVE  g[j] = IF j = 0 THEN Buffer
                      ELSE IF j \notin inits THEN g[j - 1]
                      ELSE [b \in DOMAIN Buffer |-> InitBit(j, b, g[j - 1][b], mask64)]
    <3>1. CASE j = 0
      BY <1>4, <2>1, <3>1, Zenon
    <3>2. CASE j \in 1..n /\ j # 0 /\ j - 1 \in 0..n
      <4>1. g[j] = Image(inits, j) /\ g[j - 1] = Image(inits, j - 1)
        BY <2>1, <3>2, Zenon
      <4>2. QED
        BY <1>3, <3>2, <4>1, Zenon
    <3>3. QED
      BY <1>5, <3>1, <3>2, Zenon
  <2>4. g = From(g)
    BY <2>2, <2>3, Zenon
  <2> HIDE DEF From
  <2>5. QED
    BY <2>4
<1> HIDE DEF F
<1>7. \A j \in 0..n : F[j] = IF j = 0 THEN Buffer
                             ELSE IF j \notin inits THEN F[j - 1]
                             ELSE [b \in DOMAIN Buffer |-> InitBit(j, b, F[j - 1][b], mask64)]
  <2> DEFINE h == From(F)
  <2>1. \A j \in 0..n : h[j] = IF j = 0 THEN Buffer
                               ELSE IF j \notin inits THEN F[j - 1]
                               ELSE [b \in DOMAIN Buffer |-> InitBit(j, b, F[j - 1][b], mask64)]
    BY Zenon
  <2>2. F = h
    BY <1>6
  <2> HIDE DEF h
  <2>3. QED
    BY <2>1, <2>2, Zenon
<1> HIDE DEF From
<1>8. 0 \in G
  <2>1. 0 \in 0..n
    BY <1>2
  <2>2. QED
    BY <1>4, <1>7, <2>1, Zenon
<1>9. \A j \in 1..n : j - 1 \in G => j \in G
  <2>1. SUFFICES ASSUME NEW j \in 1..n, j - 1 \in G PROVE j \in G
    BY Zenon
  <2>2. j \in 0..n /\ j # 0
    BY <1>2
  <2>3. F[j - 1] = Image(inits, j - 1)
    BY <2>1, Zenon
  <2>4. F[j] = Image(inits, j)
    BY <1>3, <1>7, <2>2, <2>3, Zenon
  <2>5. QED
    BY <2>2, <2>4, Zenon
<1> HIDE DEF G
<1>10. \A j \in 0..n : j \in G
  BY <1>2, <1>8, <1>9, Induct, Zenon
<1>11. n \in G
  BY <1>2, <1>10
<1>12. QED
  BY <1>1, <1>11, Zenon DEF G, n

-----------------------------------------------------------------------------
(* The steps of the object                                                 *)

LEMMA StaticObjectStep ==
  ASSUME RecInv, StaticObject
  PROVE  Contents'
<1> DEFINE inits == IF rec.kind = "union" /\ Accessible # {} THEN {Min(Accessible)} ELSE Accessible
<1>1. rec \in Recs /\ Layout(rec)
  BY DEF RecInv
<1>2. Complete /\ rec' = rec /\ written' = [a \in Accessible |-> IF a \in inits THEN "constant" ELSE "nothing"]
  BY Zenon DEF StaticObject, Ready
<1>3. PICK mask64 \in {0, 64} : memory' = write_gvar_data(inits, mask64)
  BY Zenon DEF StaticObject
<1>4. Accessible \in SUBSET Nat
  BY <1>1, AccessibleAre
<1>5. /\ inits \in SUBSET Accessible
      /\ rec.kind = "union" => \A a, c \in inits : a = c
  <2>1. ASSUME rec.kind = "union", Accessible # {} PROVE Min(Accessible) \in Accessible
    <3>1. \E x \in Accessible : \A y \in Accessible : x <= y
      BY <1>4, <2>1, Least
    <3>2. QED
      BY <3>1, Zenon DEF Min
  <2>2. CASE rec.kind = "union" /\ Accessible # {}
    BY <2>1, <2>2, Zenon
  <2>3. CASE ~(rec.kind = "union" /\ Accessible # {})
    BY <2>3, Zenon
  <2>4. QED
    BY <2>2, <2>3, Zenon
<1> HIDE DEF inits
<1>6. Disjoint(inits)
  <2>1. rec.kind = "struct" \/ rec.kind = "union"
    BY <1>1, Zenon DEF Recs
  <2>2. CASE rec.kind = "struct"
    <3>1. ASSUME NEW a \in inits, NEW c \in inits, NEW b \in Nat, a # c, Inside(rec.members[a], b)
          PROVE  ~Inside(rec.members[c], b)
      <4>1. a \in Accessible /\ c \in Accessible
        BY <1>5
      <4>2. QED
        BY <1>1, <2>2, <3>1, <4>1, Apart
    <3>2. QED
      BY <3>1 DEF Disjoint
  <2>3. CASE rec.kind = "union"
    BY <1>5, <2>3, Zenon DEF Disjoint
  <2>4. QED
    BY <2>1, <2>2, <2>3
<1>7. memory' = Image(inits, Len(rec.members))
  BY <1>1, <1>3, <1>5, <1>6, WriteIs, Zenon
<1>8. Accessible' = Accessible /\ Room' = Room /\ Complete'
  BY <1>2, Zenon DEF Accessible, Room, Complete
<1>9. memory' = [b \in Room |-> memory'[b]]
  BY <1>7, Zenon DEF Image
<1>10. written' \in [Accessible -> {"nothing", "constant", "stored"}]
  BY <1>2, Zenon
<1>11. ASSUME NEW a \in Accessible, written'[a] # "nothing"
       PROVE  /\ a \in inits
              /\ \A b \in Room : Inside(rec.members[a], b) => memory'[b] = Bit(a, b - Lo(rec.members[a]), written'[a])
  <2>1. a \in inits /\ written'[a] = "constant"
    BY <1>2, <1>11, Zenon
  <2>2. a <= Len(rec.members)
    <3>1. a \in 1..Len(rec.members) /\ Len(rec.members) \in Nat
      BY <1>1, AccessibleAre, MembersAre
    <3>2. QED
      BY <3>1
  <2>3. ASSUME NEW b \in Room, Inside(rec.members[a], b)
        PROVE  Image(inits, Len(rec.members))[b] = Bit(a, b - Lo(rec.members[a]), "constant")
    BY <1>6, <2>1, <2>2, <2>3, ImageBit
  <2>4. QED
    BY <1>7, <2>1, <2>3, Zenon
<1>12. rec'.kind = "union" =>
         \A a, b \in Accessible : written'[a] # "nothing" /\ written'[b] # "nothing" => a = b
  BY <1>2, <1>5, <1>11, Zenon
<1>13. \A a \in Accessible : written'[a] # "nothing" => Kept(a)'
  BY <1>2, <1>8, <1>11, Zenon DEF Kept
<1>14. QED
  BY <1>8, <1>9, <1>10, <1>12, <1>13, Zenon DEF Contents

LEMMA AutomaticObjectStep ==
  ASSUME RecInv, AutomaticObject
  PROVE  Contents'
<1>1. Complete /\ rec' = rec /\ written' = [a \in Accessible |-> "nothing"]
      /\ memory' = [b \in Room |-> NoBit("garbage")]
  BY Zenon DEF AutomaticObject, Ready, Room
<1>2. Accessible' = Accessible /\ Room' = Room /\ Complete'
  BY <1>1, Zenon DEF Accessible, Room, Complete
<1>3. memory' = [b \in Room |-> memory'[b]]
  BY <1>1, Zenon
<1>4. written' \in [Accessible -> {"nothing", "constant", "stored"}] /\ \A a \in Accessible : written'[a] = "nothing"
  BY <1>1, Zenon
<1>5. QED
  BY <1>2, <1>3, <1>4, Zenon DEF Contents

\* A store leaves every bit as it was but those of its member.
LEMMA StoreIs ==
  ASSUME RecInv, NEW a \in Accessible, Store(a)
  PROVE  /\ DOMAIN memory = Room /\ memory' = [b \in Room |-> memory'[b]]
         /\ \A b \in Room :
              memory'[b] = IF Inside(rec.members[a], b) THEN Bit(a, b - Lo(rec.members[a]), "stored") ELSE memory[b]
<1>1. rec \in Recs /\ Contents
  BY Zenon DEF RecInv, Store
<1>2. DOMAIN memory = Room
  BY <1>1, Zenon DEF Contents
<1>3. memory' = [b \in Room |-> Stored(a, b, "stored")]
  BY <1>2, Zenon DEF Store
<1>4. rec.members[a] \in Members /\ rec.members[a].named
  BY <1>1, AccessibleAre
<1>5. ASSUME NEW b \in Room
      PROVE  memory'[b] = IF Inside(rec.members[a], b) THEN Bit(a, b - Lo(rec.members[a]), "stored") ELSE memory[b]
  <2>1. b \in Nat
    BY DEF Room
  <2>2. Old(b) = memory[b]
    BY <1>2, Zenon DEF Old
  <2>3. Stored(a, b, "stored") =
          IF Inside(rec.members[a], b) THEN Bit(a, b - Lo(rec.members[a]), "stored") ELSE Old(b)
    BY <1>4, <2>1, StoredIs
  <2>4. QED
    BY <1>3, <2>2, <2>3, Zenon
<1>6. memory' = [b \in Room |-> memory'[b]]
  BY <1>3, Zenon
<1>7. QED
  BY <1>2, <1>5, <1>6, Zenon

LEMMA StoreStep ==
  ASSUME RecInv, NEW a \in Accessible, Store(a)
  PROVE  Contents'
<1>1. rec \in Recs /\ Layout(rec) /\ Contents
  BY Zenon DEF RecInv, Store
<1>2. /\ Complete /\ rec' = rec
      /\ written' = [c \in Accessible |-> IF c = a THEN "stored"
                                          ELSE IF rec.kind = "union" THEN "nothing" ELSE written[c]]
  BY <1>1, Zenon DEF Store, Contents
<1>3. memory' = [b \in Room |-> memory'[b]]
  BY StoreIs, Zenon
<1>4. \A b \in Room :
        memory'[b] = IF Inside(rec.members[a], b) THEN Bit(a, b - Lo(rec.members[a]), "stored") ELSE memory[b]
  BY StoreIs, Zenon
<1>5. Accessible' = Accessible /\ Room' = Room /\ Complete'
  BY <1>2, Zenon DEF Accessible, Room, Complete
<1>6. written' \in [Accessible -> {"nothing", "constant", "stored"}]
  BY <1>1, <1>2, Zenon DEF Contents
<1>7. rec'.kind = "union" =>
        \A c, e \in Accessible : written'[c] # "nothing" /\ written'[e] # "nothing" => c = e
  BY <1>2, Zenon
<1>8. ASSUME NEW c \in Accessible, written'[c] # "nothing", NEW b \in Room, Inside(rec.members[c], b)
      PROVE  memory'[b] = Bit(c, b - Lo(rec.members[c]), written'[c])
  <2>1. CASE c = a
    BY <1>2, <1>4, <1>8, <2>1, Zenon
  <2>2. CASE c # a
    <3>1. rec.kind # "union" /\ written'[c] = written[c]
      BY <1>2, <1>8, <2>2, Zenon
    <3>2. rec.kind = "struct"
      BY <1>1, <3>1, Zenon DEF Recs
    <3>3. b \in Nat
      BY DEF Room
    <3>4. ~Inside(rec.members[a], b)
      BY <1>1, <1>8, <2>2, <3>2, <3>3, Apart, Zenon
    <3>5. memory[b] = Bit(c, b - Lo(rec.members[c]), written[c])
      BY <1>1, <1>8, <3>1, Zenon DEF Contents, Kept
    <3>6. QED
      BY <1>4, <3>1, <3>4, <3>5, Zenon
  <2>3. QED
    BY <2>1, <2>2
<1>9. \A c \in Accessible : written'[c] # "nothing" => Kept(c)'
  BY <1>2, <1>5, <1>8, Zenon DEF Kept
<1>10. QED
  BY <1>3, <1>5, <1>6, <1>7, <1>9, Zenon DEF Contents

LEMMA RecInitHolds ==
  ASSUME RecInit
  PROVE  RecInv
<1>1. PICK kind \in {"struct", "union"}, pack \in Packs : rec = Open(kind, pack)
  BY DEF RecInit
<1>2. pack \in Packs \cup {0}
  OBVIOUS
<1>3. rec \in Recs /\ Layout(rec)
  BY <1>1, <1>2, LayoutBegins, Zenon
<1>4. QED
  BY <1>3, Zenon DEF RecInit, RecInv

LEMMA RecNextHolds ==
  ASSUME NarrowFields, RecInv, RecNext
  PROVE  RecInv'
<1>1. rec \in Recs /\ Layout(rec) /\ (memory # <<>> => Complete)
  BY Zenon DEF RecInv, Contents
<1>2. ASSUME rec' \in Recs, Layout(rec'), ~Complete, UNCHANGED memory PROVE RecInv'
  BY <1>1, <1>2, Zenon DEF RecInv
<1>3. ASSUME UNCHANGED rec, Contents' PROVE RecInv'
  BY <1>1, <1>3, Zenon DEF RecInv
<1>4. ASSUME NEW d \in Decls, AddMember(d) PROVE RecInv'
  <2>1. rec' \in Recs /\ Layout(rec')
    BY <1>1, <1>4, AddMemberStep
  <2>2. QED
    BY <1>2, <1>4, <2>1, Zenon DEF AddMember
<1>5. ASSUME NEW d \in Decls, AddUnionMember(d) PROVE RecInv'
  <2>1. rec' \in Recs /\ Layout(rec')
    BY <1>1, <1>5, AddUnionMemberStep
  <2>2. QED
    BY <1>2, <1>5, <2>1, Zenon DEF AddUnionMember
<1>6. CASE CloseRecord
  <2>1. rec' \in Recs /\ Layout(rec')
    BY <1>1, <1>6, CloseRecordStep
  <2>2. QED
    BY <1>2, <1>6, <2>1, Zenon DEF CloseRecord
<1>7. CASE StaticObject
  BY <1>3, <1>7, StaticObjectStep, Zenon DEF StaticObject
<1>8. CASE AutomaticObject
  BY <1>3, <1>8, AutomaticObjectStep, Zenon DEF AutomaticObject
<1>9. ASSUME NEW a \in Accessible, Store(a) PROVE RecInv'
  BY <1>3, <1>9, StoreStep, Zenon DEF Store
<1>10. QED
  BY <1>4, <1>5, <1>6, <1>7, <1>8, <1>9, Zenon DEF RecNext

LEMMA RecRests ==
  ASSUME RecInv, UNCHANGED recVars
  PROVE  RecInv'
  BY Zenon DEF RecInv, recVars, Contents, Complete, Room, Accessible, Kept

-----------------------------------------------------------------------------
(* The record in the program                                               *)

LEMMA RecInvStep ==
  ASSUME NarrowFields, RecInv, [Next]_vars
  PROVE  RecInv'
<1>1. CASE types = {} /\ RecNext /\ UNCHANGED callVars
  BY <1>1, RecNextHolds
<1>2. CASE PassRecord
  <2>1. rec' = Open("struct", 0) /\ memory' = <<>>
    BY <1>2, Zenon DEF PassRecord
  <2>2. "struct" \in {"struct", "union"} /\ 0 \in Packs \cup {0}
    OBVIOUS
  <2>3. rec' \in Recs /\ Layout(rec')
    BY <2>1, <2>2, LayoutBegins, Zenon
  <2>4. QED
    BY <2>1, <2>3, Zenon DEF RecInv
<1>3. CASE UNCHANGED recVars
  BY <1>3, RecRests
<1>4. CASE UNCHANGED vars
  BY <1>3, <1>4, Zenon DEF vars
<1>5. QED
  BY <1>1, <1>2, <1>3, <1>4, Zenon DEF Next

LEMMA RecInvHolds ==
  ASSUME NarrowFields
  PROVE  Spec => []RecInv
<1>1. Init => RecInv
  BY RecInitHolds, Zenon DEF Init
<1>2. RecInv /\ [Next]_vars => RecInv'
  BY RecInvStep
<1>3. QED
  BY <1>1, <1>2, PTL DEF Spec

-----------------------------------------------------------------------------
(* The type of a record that is passed                                     *)

\* Every record has these types, the ones with faulty bit-fields included.
AnyRecs ==
  [kind : {"struct", "union"}, pack : Packs \cup {0}, bits : Int, alt : Aligns \cup {0},
   members : Seq(FieldsIn(Int)), size : Int, align : Aligns]

LEMMA RoundedInt ==
  ASSUME NEW n \in Int, NEW a \in Nat \ {0}
  PROVE  AlignTo(n, a) \in Int /\ AlignTo(n, a) \div 8 \in Int
<1>1. PICK q \in Int : q = (n + a - 1) \div a
  OBVIOUS
<1>2. q * a \in Int
  OBVIOUS
<1>3. AlignTo(n, a) = q * a
  BY <1>1, Zenon DEF AlignTo
<1>4. QED
  BY <1>2, <1>3

LEMMA AnyRecIs ==
  ASSUME NEW r \in AnyRecs
  PROVE  /\ r.pack \in Packs \cup {0} /\ r.alt \in Aligns \cup {0} /\ r.align \in Aligns
         /\ r.pack \in Nat /\ r.alt \in Nat /\ r.bits \in Int /\ r.size \in Int
         /\ r.kind \in {"struct", "union"} /\ r.members \in Seq(FieldsIn(Int))
<1>1. /\ r.pack \in Packs \cup {0} /\ r.alt \in Aligns \cup {0} /\ r.align \in Aligns
      /\ r.bits \in Int /\ r.size \in Int
      /\ r.kind \in {"struct", "union"} /\ r.members \in Seq(FieldsIn(Int))
  BY Zenon DEF AnyRecs
<1>2. 0 \in Nat /\ Packs \subseteq Nat /\ Aligns \subseteq Nat
  BY AlignsAre, PackAssumption
<1>3. r.pack \in Nat /\ r.alt \in Nat
  BY <1>1, <1>2, Zenon
<1>4. QED
  BY <1>1, <1>3

LEMMA AnyFirst ==
  ASSUME rec \in AnyRecs, NEW d \in Decls
  PROVE  FirstBit(d) \in Int
<1>1. rec.bits \in Int /\ d.alt \in Nat
  BY DeclIs, AnyRecIs
<1>2. d.alt > 0 => d.alt * 8 \in Nat \ {0}
  BY <1>1
<1>3. d.alt > 0 => AlignTo(rec.bits, d.alt * 8) \in Int
  BY <1>1, <1>2, RoundedInt
<1>4. QED
  BY <1>1, <1>3 DEF FirstBit

LEMMA AnyPlace ==
  ASSUME rec \in AnyRecs, NEW d \in Decls, NEW first \in Int, NEW m, m = Place(d, first)
  PROVE  m \in FieldsIn(Int) /\ SameField(m, d)
<1>0. /\ d \in Declarators
      /\ d.bitfield \in BOOLEAN /\ d.packed \in BOOLEAN /\ d.width \in Nat
      /\ d.bitfield => d.ty.size \in {1, 2, 4, 8}
  BY DeclIs
<1>1. SUFFICES ASSUME NEW o \in Int, NEW p \in Int, NEW q \in BOOLEAN, m = At(d, o, p, q)
               PROVE  m \in FieldsIn(Int) /\ SameField(m, d)
  <2>1. CASE ~d.bitfield
    <3>1. mem_align(d) \in Nat \ {0}
      <4>1. mem_align(d) \in Aligns
        BY AnyRecIs, AltIs
      <4>2. QED
        BY <4>1, AlignsAre
    <3>2. PICK a \in Nat \ {0} : a = mem_align(d) * 8
      BY <3>1
    <3>3. AlignTo(first, a) \div 8 \in Int
      BY RoundedInt
    <3>4. m = At(d, AlignTo(first, a) \div 8, 0, FALSE)
      BY <2>1, <3>2, Zenon DEF Place
    <3>5. 0 \in Int /\ FALSE \in BOOLEAN
      OBVIOUS
    <3>6. QED
      BY <1>1, <3>3, <3>4, <3>5, Zenon
  <2>2. CASE d.bitfield /\ (d.packed \/ rec.pack > 0)
    <3> DEFINE ceil == AlignTo(first + d.width, 8)
               fits == {r \in {8, 16, 32, 64} : ceil % r = 0 /\ AlignDown(ceil - r, 8) <= first}
               o == IF fits = {} THEN first \div 8 ELSE (ceil - Min(fits)) \div 8
    <3>1. m = At(d, o, first - o * 8, fits # {})
      BY <2>2, Zenon DEF Place, PackedField
    <3>2. ceil \in Int
      <4>1. first + d.width \in Int /\ 8 \in Nat \ {0}
        BY <1>0
      <4>2. QED
        BY <4>1, RoundedInt
    <3> HIDE DEF ceil
    <3>3. fits # {} => Min(fits) \in Int
      <4>1. fits \subseteq Nat
        OBVIOUS
      <4>2. fits # {} => \E x \in fits : \A y \in fits : x <= y
        BY <4>1, Least
      <4> HIDE DEF fits
      <4>3. fits # {} => Min(fits) \in fits
        BY <4>2, Zenon DEF Min
      <4>4. \A x \in Nat : x \in Int
        OBVIOUS
      <4>5. QED
        BY <4>1, <4>3, <4>4, Zenon
    <3>4. (fits # {}) \in BOOLEAN
      OBVIOUS
    <3> HIDE DEF fits
    <3>5. PICK x \in Int : x = o
      <4>1. fits # {} => o = (ceil - Min(fits)) \div 8
        BY DEF o
      <4>2. fits = {} => o = first \div 8
        BY DEF o
      <4> HIDE DEF o
      <4>3. CASE fits = {}
        BY <4>2, <4>3
      <4>4. CASE fits # {}
        <5>1. PICK y \in Int : y = Min(fits)
          BY <3>3, <4>4
        <5>2. QED
          BY <3>2, <4>1, <4>4, <5>1
      <4>5. QED
        BY <4>3, <4>4
    <3> HIDE DEF o
    <3>6. first - x * 8 \in Int
      OBVIOUS
    <3>7. QED
      BY <1>1, <3>1, <3>4, <3>5, <3>6, Zenon
  <2>3. CASE d.bitfield /\ ~(d.packed \/ rec.pack > 0)
    <3> DEFINE unit == d.ty.size * 8
               start == IF first \div unit # (first + d.width - 1) \div unit THEN AlignTo(first, unit) ELSE first
               o == (start \div unit) * d.ty.size
    <3>1. m = At(d, o, start - o * 8, TRUE)
      BY <2>3, Zenon DEF Place, UnitField
    <3>2. unit \in Nat \ {0}
      BY <1>0, <2>3
    <3> HIDE DEF unit
    <3>3. start \in Int
      BY <3>2, RoundedInt
    <3> HIDE DEF start
    <3>4. o \in Int
      <4>1. PICK x \in Int : x = start \div unit
        BY <3>2, <3>3
      <4>2. PICK s \in Int : s = d.ty.size
        BY <1>0, <2>3
      <4>3. x * s \in Int
        OBVIOUS
      <4>4. QED
        BY <4>1, <4>2, <4>3, Zenon
    <3> HIDE DEF o
    <3>5. start - o * 8 \in Int /\ TRUE \in BOOLEAN
      BY <3>3, <3>4
    <3>6. QED
      BY <1>1, <3>1, <3>4, <3>5, Zenon
  <2>4. QED
    BY <1>0, <2>1, <2>2, <2>3
<1> DEFINE N == Int
<1> HIDE DEF N
<1>2. o \in N /\ p \in N
  BY DEF N
<1>3. m \in FieldsIn(N) /\ HasPlace(m, d, o, p, q)
  BY <1>0, <1>1, <1>2, AtFields
<1>4. QED
  BY <1>3, Zenon DEF HasPlace, N

LEMMA AnyInit ==
  ASSUME NEW kind \in {"struct", "union"}, NEW pack \in Packs \cup {0}
  PROVE  Open(kind, pack) \in AnyRecs
<1>1. <<>> \in Seq(FieldsIn(Int)) /\ 0 \in Int /\ -1 \in Int
  OBVIOUS
<1>2. 1 \in Aligns
  BY AlignsAre
<1>3. QED
  BY <1>1, <1>2, Zenon DEF Open, AnyRecs

LEMMA AnyStep ==
  ASSUME rec \in AnyRecs, RecNext
  PROVE  rec' \in AnyRecs
<1>1. /\ rec.pack \in Packs \cup {0} /\ rec.alt \in Aligns \cup {0} /\ rec.align \in Aligns
      /\ rec.pack \in Nat /\ rec.alt \in Nat /\ rec.bits \in Int /\ rec.size \in Int
      /\ rec.kind \in {"struct", "union"} /\ rec.members \in Seq(FieldsIn(Int))
  BY AnyRecIs
<1>2. \A d \in Decls : alt_align(d) \in Aligns \cup {0}
  BY <1>1, AltIs
<1>3. \A alt \in Aligns \cup {0}, bits \in Int, ms \in Seq(FieldsIn(Int)) :
        [rec EXCEPT !.alt = alt, !.bits = bits, !.members = ms] \in AnyRecs
  BY Zenon DEF AnyRecs
<1>4. ASSUME NEW d \in Decls, AddMember(d) PROVE rec' \in AnyRecs
  <2> DEFINE first == FirstBit(d)
             placed == Place(d, first)
             bits == IF d.bitfield /\ d.width = 0 THEN AlignTo(first, d.ty.size * 8)
                     ELSE placed.offset * 8 + placed.bit_offset + BitsOf(d)
  <2>1. rec' = [rec EXCEPT !.alt = alt_align(d), !.bits = bits,
                           !.members = IF d.bitfield /\ d.width = 0 THEN @ ELSE Append(@, placed)]
    BY <1>4, Zenon DEF AddMember
  <2>2. first \in Int
    BY AnyFirst
  <2> HIDE DEF first
  <2>3. placed \in FieldsIn(Int)
    BY <2>2, AnyPlace
  <2> HIDE DEF placed
  <2>4. /\ d.bitfield \in BOOLEAN /\ d.width \in Nat /\ d.ty.size \in Nat
        /\ d.bitfield => d.ty.size \in {1, 2, 4, 8}
    BY DeclIs
  <2>5. placed.offset \in Int /\ placed.bit_offset \in Int
    BY <2>3, Zenon DEF FieldsIn
  <2>6. bits \in Int
    <3>1. CASE d.bitfield /\ d.width = 0
      <4>1. d.ty.size * 8 \in Nat \ {0}
        BY <2>4, <3>1
      <4>2. QED
        BY <2>2, <3>1, <4>1, RoundedInt
    <3>2. CASE ~(d.bitfield /\ d.width = 0)
      <4>1. BitsOf(d) \in Nat
        BY <2>4 DEF BitsOf
      <4>2. QED
        BY <2>5, <3>2, <4>1
    <3>3. QED
      BY <3>1, <3>2
  <2> HIDE DEF bits
  <2>7. Append(rec.members, placed) \in Seq(FieldsIn(Int))
    BY <1>1, <2>3
  <2>8. CASE d.bitfield /\ d.width = 0
    <3>1. rec' = [rec EXCEPT !.alt = alt_align(d), !.bits = bits, !.members = rec.members]
      BY <2>1, <2>8, Zenon
    <3>2. QED
      BY <1>1, <1>2, <1>3, <2>6, <3>1, Zenon
  <2>9. CASE ~(d.bitfield /\ d.width = 0)
    <3>1. rec' = [rec EXCEPT !.alt = alt_align(d), !.bits = bits, !.members = Append(rec.members, placed)]
      BY <2>1, <2>9, Zenon
    <3>2. QED
      BY <1>2, <1>3, <2>6, <2>7, <3>1, Zenon
  <2>10. QED
    BY <2>8, <2>9
<1>5. ASSUME NEW d \in Decls, AddUnionMember(d) PROVE rec' \in AnyRecs
  <2>1. PICK w \in Nat : w = BitsOf(d)
    <3>1. d.bitfield \in BOOLEAN /\ d.width \in Nat /\ d.ty.size \in Nat
      BY DeclIs
    <3>2. QED
      BY <3>1 DEF BitsOf
  <2>2. PICK bits \in Int : bits = Larger(rec.bits, AlignTo(w, 8))
    <3>1. PICK v \in Nat : v = AlignTo(w, 8)
      BY Round8
    <3>2. Larger(rec.bits, v) \in Int
      BY <1>1 DEF Larger
    <3>3. QED
      BY <3>1, <3>2, Zenon
  <2>3. PICK m : m = At(d, 0, 0, FALSE)
    OBVIOUS
  <2>4. m \in FieldsIn(Int)
    <3> DEFINE N == Int
    <3>1. 0 \in N /\ FALSE \in BOOLEAN /\ d \in Declarators
      BY DeclIs
    <3> HIDE DEF N
    <3>2. m \in FieldsIn(N)
      BY <2>3, <3>1, AtFields
    <3>3. QED
      BY <3>2 DEF N
  <2>5. Append(rec.members, m) \in Seq(FieldsIn(Int))
    BY <1>1, <2>4
  <2>6. rec' = [rec EXCEPT !.alt = alt_align(d), !.bits = bits, !.members = Append(rec.members, m)]
    BY <1>5, <2>1, <2>2, <2>3, Zenon DEF AddUnionMember
  <2>7. QED
    BY <1>2, <1>3, <2>5, <2>6, Zenon
<1>6. CASE CloseRecord
  <2>1. PICK g \in Nat \ {0} : struct_size = AlignTo(rec.bits, g) \div 8
    <3>1. CASE rec.kind = "struct" /\ rec.alt = 0 /\ rec.pack > 0
      <4>1. rec.pack * 8 \in Nat \ {0}
        BY <1>1, <3>1
      <4>2. QED
        BY <3>1, <4>1, Zenon DEF struct_size
    <3>2. CASE ~(rec.kind = "struct" /\ rec.alt = 0 /\ rec.pack > 0)
      <4>1. Larger(1, rec.alt) * 8 \in Nat \ {0}
        BY <1>1 DEF Larger
      <4>2. QED
        BY <3>2, <4>1, Zenon DEF struct_size
    <3>3. QED
      BY <3>1, <3>2
  <2>2. struct_size \in Int
    BY <1>1, <2>1, RoundedInt
  <2>3. Larger(1, rec.alt) \in Aligns
    <3>1. rec.alt > 0 => Larger(1, rec.alt) \in {1, rec.alt} /\ rec.alt # 0
      BY <1>1 DEF Larger
    <3>2. ~(rec.alt > 0) => Larger(1, rec.alt) = 1
      BY <1>1 DEF Larger
    <3>3. 1 \in Aligns
      BY AlignsAre
    <3>4. QED
      BY <1>1, <3>1, <3>2, <3>3, Zenon
  <2>4. rec' = [rec EXCEPT !.size = struct_size, !.align = Larger(1, rec.alt)]
    BY <1>6, Zenon DEF CloseRecord
  <2>5. QED
    BY <2>2, <2>3, <2>4, Zenon DEF AnyRecs
<1>7. CASE StaticObject
  BY <1>7, Zenon DEF StaticObject
<1>8. CASE AutomaticObject
  BY <1>8, Zenon DEF AutomaticObject
<1>9. ASSUME NEW a \in Accessible, Store(a) PROVE rec' \in AnyRecs
  BY <1>9, Zenon DEF Store
<1>10. QED
  BY <1>4, <1>5, <1>6, <1>7, <1>8, <1>9, Zenon DEF RecNext

-----------------------------------------------------------------------------
(* Recursive functions                                                     *)

\* One exists with a given start and given steps.
Follows(f, n, a, h) == f[0] = a /\ \A e \in 1..n : f[e] = h[e][f[e - 1]]

LEMMA Recursion ==
  ASSUME NEW n \in Nat, NEW S, NEW a \in S, NEW h \in [1..n -> [S -> S]]
  PROVE  \E f \in [0..n -> S] : Follows(f, n, a, h)
<1> DEFINE Upto(m) == \E f \in [0..m -> S] : Follows(f, m, a, h)
           G == {m \in 0..n : Upto(m)}
<1>1. Upto(0)
  <2> DEFINE g == [e \in 0..0 |-> a]
  <2>1. g \in [0..0 -> S] /\ g[0] = a
    OBVIOUS
  <2> HIDE DEF g
  <2>2. QED
    BY <2>1 DEF Follows
<1>2. ASSUME NEW m \in 1..n, Upto(m - 1) PROVE Upto(m)
  <2>1. PICK f \in [0..(m - 1) -> S] : Follows(f, m - 1, a, h)
    BY <1>2
  <2> DEFINE g == [e \in 0..m |-> IF e = m THEN h[m][f[m - 1]] ELSE f[e]]
  <2>2. g \in [0..m -> S]
    OBVIOUS
  <2>3. g[0] = a
    BY <2>1 DEF Follows
  <2>4. ASSUME NEW e \in 1..m PROVE g[e] = h[e][g[e - 1]]
    <3>1. g[e - 1] = f[e - 1]
      OBVIOUS
    <3>2. CASE e = m
      BY <3>1, <3>2
    <3>3. CASE e # m
      <4>1. e \in 1..(m - 1) /\ g[e] = f[e]
        BY <3>3
      <4>2. QED
        BY <4>1, <3>1, <2>1 DEF Follows
    <3>4. QED
      BY <3>2, <3>3
  <2> HIDE DEF g
  <2>5. QED
    BY <2>2, <2>3, <2>4 DEF Follows
<1> HIDE DEF Upto
<1>3. 0 \in G
  BY <1>1
<1>4. \A e \in 1..n : e - 1 \in G => e \in G
  BY <1>2
<1> HIDE DEF G
<1>5. \A e \in 0..n : e \in G
  BY <1>3, <1>4, Induct, Zenon
<1>6. n \in G
  BY <1>5
<1>7. QED
  BY <1>6 DEF G, Upto, Follows

LEMMA FlattenIs ==
  ASSUME NEW S, NEW ss \in Seq(Seq(S))
  PROVE  FlattenSeq(ss) \in Seq(S)
<1> DEFINE n == Len(ss)
           From(f) == [j \in 1..n |-> IF j = 1 THEN ss[j] ELSE f[j - 1] \o ss[j]]
           F == CHOOSE f : f = From(f)
           G == {j \in 0..n : j = 0 \/ F[j] \in Seq(S)}
<1>1. FlattenSeq(ss) = IF n = 0 THEN ss ELSE F[n]
  BY DEF FlattenSeq
<1>2. n \in Nat /\ \A j \in 1..n : ss[j] \in Seq(S)
  OBVIOUS
<1>3. CASE n = 0
  <2>1. ss = <<>>
    BY <1>3
  <2>2. QED
    BY <1>1, <1>3, <2>1
<1>4. CASE n # 0
  <2> HIDE DEF n
  <2>1. F = From(F)
    <3> DEFINE h == [j \in 1..n |-> [s \in Seq(S) |-> s \o ss[j]]]
               none == <<>>
               All == Seq(S)
    <3>1. h \in [1..n -> [All -> All]] /\ none \in All
      BY <1>2
    <3>2. \A j \in 1..n, s \in All : h[j][s] = s \o ss[j]
      OBVIOUS
    <3> HIDE DEF h
    <3>3. PICK f \in [0..n -> All] : Follows(f, n, none, h)
      <4> HIDE DEF none, All
      <4>1. QED
        BY <1>2, <3>1, Recursion
    <3> DEFINE g == [j \in 1..n |-> f[j]]
    <3>4. \A j \in 1..n : g[j] = f[j]
      OBVIOUS
    <3>5. g = [j \in 1..n |-> g[j]]
      OBVIOUS
    <3> HIDE DEF g
    <3>6. ASSUME NEW j \in 1..n PROVE g[j] = IF j = 1 THEN ss[j] ELSE g[j - 1] \o ss[j]
      <4>1. j - 1 \in 0..n /\ (j # 1 => j - 1 \in 1..n)
        BY <1>2
      <4>2. f[j - 1] \in All /\ f[j] = h[j][f[j - 1]] /\ f[0] = <<>>
        BY <3>3, <4>1, Zenon DEF Follows
      <4>3. f[j] = f[j - 1] \o ss[j]
        BY <3>2, <4>2, Zenon
      <4>4. CASE j = 1
        <5>1. f[j] = <<>> \o ss[j]
          <6>1. j - 1 = 0
            BY <4>4
          <6>2. QED
            BY <4>2, <4>3, <6>1, Zenon
        <5>2. <<>> \o ss[j] = ss[j]
          BY <1>2
        <5>3. QED
          BY <3>4, <4>4, <5>1, <5>2, Zenon
      <4>5. CASE j # 1
        BY <3>4, <4>1, <4>3, <4>5, Zenon
      <4>6. QED
        BY <4>4, <4>5
    <3>7. g = From(g)
      BY <3>5, <3>6, Zenon
    <3> HIDE DEF From
    <3>8. QED
      BY <3>7
  <2> HIDE DEF F
  <2>2. \A j \in 1..n : F[j] = IF j = 1 THEN ss[j] ELSE F[j - 1] \o ss[j]
    <3> DEFINE h == From(F)
    <3>1. \A j \in 1..n : h[j] = IF j = 1 THEN ss[j] ELSE F[j - 1] \o ss[j]
      BY Zenon
    <3>2. F = h
      BY <2>1
    <3> HIDE DEF h
    <3>3. QED
      BY <3>1, <3>2, Zenon
  <2> HIDE DEF From
  <2>3. 0 \in G
    BY <1>2
  <2>4. \A j \in 1..n : j - 1 \in G => j \in G
    <3>1. SUFFICES ASSUME NEW j \in 1..n, j - 1 \in G PROVE j \in G
      BY Zenon
    <3>2. ss[j] \in Seq(S) /\ j \in 0..n /\ (j # 1 => j - 1 # 0)
      BY <1>2
    <3>3. CASE j = 1
      BY <2>2, <3>2, <3>3, Zenon
    <3>4. CASE j # 1
      <4>1. F[j - 1] \in Seq(S)
        BY <3>1, <3>2, <3>4, Zenon
      <4>2. F[j - 1] \o ss[j] \in Seq(S)
        BY <3>2, <4>1
      <4>3. QED
        BY <2>2, <3>2, <3>4, <4>2, Zenon
    <3>5. QED
      BY <3>3, <3>4
  <2> HIDE DEF G
  <2>5. \A j \in 0..n : j \in G
    BY <1>2, <2>3, <2>4, Induct, Zenon
  <2>6. n \in G
    BY <1>2, <2>5
  <2>7. QED
    BY <1>1, <1>4, <2>6, Zenon DEF G
<1>5. QED
  BY <1>3, <1>4

-----------------------------------------------------------------------------
(* The classes of the leaves                                               *)

Leaf == [ofs : Int, size : Nat, class : {"int", "sse", "x87"}]

LEMMA LeavesAre ==
  ASSUME NEW members \in Seq(FieldsIn(Int))
  PROVE  Leaves(members) \in Seq(Leaf)
<1> DEFINE block(m) == IF m.bitfield /\ ~m.named THEN <<>>
                       ELSE [j \in DOMAIN m.ty.leaves |-> [m.ty.leaves[j] EXCEPT !.ofs = @ + m.offset]]
           blocks == [k \in DOMAIN members |-> block(members[k])]
<1>1. Leaves(members) = FlattenSeq(blocks)
  BY Zenon DEF Leaves
<1>2. ASSUME NEW m \in FieldsIn(Int) PROVE block(m) \in Seq(Leaf)
  <2>1. m.ty \in MemberTypes /\ m.offset \in Int
    BY <1>2, Zenon DEF FieldsIn
  <2>2. m.ty.leaves \in Seq(Leaf)
    BY <2>1, Zenon DEF MemberTypes, Leaf
  <2>3. PICK s \in Seq(Leaf), o \in Int : s = m.ty.leaves /\ o = m.offset
    BY <2>1, <2>2
  <2>4. DOMAIN s = 1..Len(s) /\ Len(s) \in Nat /\ \A j \in 1..Len(s) : s[j] \in Leaf
    OBVIOUS
  <2>5. ASSUME NEW j \in 1..Len(s) PROVE [s[j] EXCEPT !.ofs = @ + o] \in Leaf
    <3>1. PICK x \in Leaf : x = s[j]
      BY <2>4
    <3>2. x.ofs \in Int
      BY Zenon DEF Leaf
    <3>3. x.ofs + o \in Int
      BY <3>2
    <3>4. [x EXCEPT !.ofs = @ + o] \in Leaf
      BY <3>3, Zenon DEF Leaf
    <3>5. QED
      BY <3>1, <3>4, Zenon
  <2>6. [j \in 1..Len(s) |-> [s[j] EXCEPT !.ofs = @ + o]] \in Seq(Leaf)
    <3> DEFINE g == [j \in 1..Len(s) |-> [s[j] EXCEPT !.ofs = @ + o]]
    <3>1. g \in [1..Len(s) -> Leaf]
      BY <2>5, Zenon
    <3> HIDE DEF g
    <3>2. g \in Seq(Leaf)
      BY <2>4, <3>1
    <3>3. QED
      BY <3>2 DEF g
  <2>7. <<>> \in Seq(Leaf)
    OBVIOUS
  <2>8. QED
    BY <2>3, <2>4, <2>6, <2>7, Zenon
<1> HIDE DEF block
<1>3. DOMAIN members = 1..Len(members) /\ Len(members) \in Nat /\ \A k \in 1..Len(members) : members[k] \in FieldsIn(Int)
  OBVIOUS
<1>4. blocks \in [1..Len(members) -> Seq(Leaf)]
  BY <1>2, <1>3, Zenon
<1> HIDE DEF blocks
<1>5. blocks \in Seq(Seq(Leaf))
  <2> DEFINE All == Seq(Leaf)
  <2>1. blocks \in [1..Len(members) -> All]
    BY <1>4
  <2> HIDE DEF All
  <2>2. blocks \in Seq(All)
    BY <1>3, <2>1
  <2>3. QED
    BY <2>2 DEF All
<1>6. QED
  BY <1>1, <1>5, FlattenIs

LEMMA BelowIs ==
  ASSUME NEW s \in Seq(Leaf), NEW hi \in Int
  PROVE  Below(s, hi) \in Seq(Leaf)
<1> DEFINE ends == {k - 1 : k \in {k \in DOMAIN s : s[k].ofs >= hi}} \cup {Len(s)}
<1>1. Len(s) \in Nat /\ DOMAIN s = 1..Len(s)
  OBVIOUS
<1>2. ends \in SUBSET Nat /\ ends # {} /\ \A x \in ends : x <= Len(s)
  BY <1>1
<1>3. Below(s, hi) = SubSeq(s, 1, Min(ends))
  BY Zenon DEF Below
<1> HIDE DEF ends
<1>4. \E x \in ends : \A y \in ends : x <= y
  BY <1>2, Least
<1>5. Min(ends) \in ends
  BY <1>4, Zenon DEF Min
<1>6. PICK x \in Nat : x = Min(ends) /\ x <= Len(s)
  BY <1>2, <1>5
<1>7. SubSeq(s, 1, x) \in Seq(Leaf)
  <2>1. \A k \in 1..x : s[k] \in Leaf
    BY <1>6
  <2>2. QED
    BY <1>6, <2>1
<1>8. QED
  BY <1>3, <1>6, <1>7, Zenon

LEMMA ClassIs ==
  ASSUME NEW leaves \in Seq(Leaf), NEW lo \in Int, NEW hi \in Int
  PROVE  get_class(leaves, lo, hi) \in Classes
<1> DEFINE s == Below(leaves, hi)
<1>1. s \in Seq(Leaf)
  BY BelowIs
<1> HIDE DEF s
<1> DEFINE n == Len(s)
           From(f) == [k \in 0..n |-> IF k = 0 THEN "no"
                                      ELSE IF s[k].ofs + s[k].size <= lo THEN f[k - 1]
                                      ELSE calc_class(f[k - 1], s[k].class)]
           F == CHOOSE f : f = From(f)
           G == {k \in 0..n : F[k] \in Classes}
<1>2. get_class(leaves, lo, hi) = F[n]
  BY DEF get_class, s
<1>3. n \in Nat /\ \A k \in 1..n : s[k] \in Leaf
  BY <1>1
<1>4. \A k \in 1..n, a \in Classes :
        (IF s[k].ofs + s[k].size <= lo THEN a ELSE calc_class(a, s[k].class)) \in Classes
  <2>1. SUFFICES ASSUME NEW k \in 1..n, NEW a \in Classes PROVE calc_class(a, s[k].class) \in Classes
    BY Zenon
  <2>2. s[k].class \in {"int", "sse", "x87"}
    BY <1>3, Zenon DEF Leaf
  <2>3. PICK b \in {"int", "sse", "x87"} : b = s[k].class
    BY <2>2, Zenon
  <2>4. calc_class(a, b) \in Classes
    BY DEF calc_class, Classes
  <2>5. QED
    BY <2>3, <2>4, Zenon
<1> HIDE DEF n
<1>5. F = From(F)
  <2> DEFINE h == [k \in 1..n |-> [a \in Classes |-> IF s[k].ofs + s[k].size <= lo THEN a
                                                     ELSE calc_class(a, s[k].class)]]
  <2>1. h \in [1..n -> [Classes -> Classes]]
    BY <1>4, Zenon
  <2>2. \A k \in 1..n, a \in Classes :
          h[k][a] = IF s[k].ofs + s[k].size <= lo THEN a ELSE calc_class(a, s[k].class)
    BY Zenon
  <2> HIDE DEF h
  <2>3. "no" \in Classes
    BY DEF Classes
  <2>4. PICK f \in [0..n -> Classes] : Follows(f, n, "no", h)
    BY <1>3, <2>1, <2>3, Recursion
  <2>5. ASSUME NEW k \in 0..n
        PROVE  f[k] = IF k = 0 THEN "no" ELSE IF s[k].ofs + s[k].size <= lo THEN f[k - 1]
                                              ELSE calc_class(f[k - 1], s[k].class)
    <3>1. CASE k = 0
      BY <2>4, <3>1, Zenon DEF Follows
    <3>2. CASE k # 0
      <4>1. k \in 1..n /\ k - 1 \in 0..n
        BY <1>3, <3>2
      <4>2. f[k - 1] \in Classes /\ f[k] = h[k][f[k - 1]]
        BY <2>4, <4>1, Zenon DEF Follows
      <4>3. QED
        BY <2>2, <3>2, <4>1, <4>2, Zenon
    <3>3. QED
      BY <3>1, <3>2
  <2>6. f = [k \in 0..n |-> f[k]]
    BY Zenon
  <2>7. f = From(f)
    BY <2>5, <2>6, Zenon
  <2> HIDE DEF From
  <2>8. QED
    BY <2>7
<1> HIDE DEF F
<1>6. \A k \in 0..n : F[k] = IF k = 0 THEN "no" ELSE IF s[k].ofs + s[k].size <= lo THEN F[k - 1]
                                                      ELSE calc_class(F[k - 1], s[k].class)
  <2> DEFINE h == From(F)
  <2>1. \A k \in 0..n : h[k] = IF k = 0 THEN "no" ELSE IF s[k].ofs + s[k].size <= lo THEN F[k - 1]
                                                       ELSE calc_class(F[k - 1], s[k].class)
    BY Zenon
  <2>2. F = h
    BY <1>5
  <2> HIDE DEF h
  <2>3. QED
    BY <2>1, <2>2, Zenon
<1> HIDE DEF From
<1>7. 0 \in G
  <2>1. 0 \in 0..n /\ "no" \in Classes
    BY <1>3 DEF Classes
  <2>2. QED
    BY <1>6, <2>1, Zenon
<1>8. \A k \in 1..n : k - 1 \in G => k \in G
  <2>1. SUFFICES ASSUME NEW k \in 1..n, k - 1 \in G PROVE k \in G
    BY Zenon
  <2>2. k \in 0..n /\ k # 0
    BY <1>3
  <2>3. F[k - 1] \in Classes
    BY <2>1, Zenon
  <2>4. F[k] \in Classes
    BY <1>4, <1>6, <2>2, <2>3, Zenon
  <2>5. QED
    BY <2>2, <2>4, Zenon
<1> HIDE DEF G
<1>9. \A k \in 0..n : k \in G
  BY <1>3, <1>7, <1>8, Induct, Zenon
<1>10. n \in G
  BY <1>3, <1>9
<1>11. QED
  BY <1>2, <1>10, Zenon DEF G

\* A record can be passed whatever its members are.
LEMMA ThisRecordIs ==
  ASSUME rec \in AnyRecs, rec.size > 0
  PROVE  ThisRecord \in Descriptors /\ ThisRecord.align = Larger(1, rec.align \div 8)
<1>1. rec.size \in Int /\ rec.align \in Aligns /\ rec.members \in Seq(FieldsIn(Int))
  BY AnyRecIs
<1>2. rec.align \in Nat \ {0}
  BY <1>1, AlignsAre
<1> DEFINE leaves == Leaves(rec.members)
<1>3. leaves \in Seq(Leaf)
  BY <1>1, LeavesAre
<1> HIDE DEF leaves
<1> DEFINE class(lo, hi) == IF rec.size > 16 THEN "mem" ELSE IF rec.size <= lo THEN "no" ELSE get_class(leaves, lo, hi)
<1>4. class(0, 8) \in Classes /\ class(8, 16) \in Classes /\ class(0, 16) \in Classes
  <2>1. get_class(leaves, 0, 8) \in Classes /\ get_class(leaves, 8, 16) \in Classes
        /\ get_class(leaves, 0, 16) \in Classes
    BY <1>3, ClassIs
  <2>2. "mem" \in Classes /\ "no" \in Classes
    BY DEF Classes
  <2>3. QED
    BY <2>1, <2>2, Zenon
<1>5. PICK lo \in Classes, hi \in Classes, all \in Classes :
        lo = class(0, 8) /\ hi = class(8, 16) /\ all = class(0, 16)
  BY <1>4, Zenon
<1>6. ThisRecord = [kind |-> "record", words |-> AlignTo(rec.size, 8) \div 8, align |-> Larger(1, rec.align \div 8),
                    lo |-> lo, hi |-> hi, all |-> all]
  BY <1>5, Zenon DEF ThisRecord, Passed, leaves
<1>7. PICK words \in Nat \ {0} : words = AlignTo(rec.size, 8) \div 8
  <2>1. PICK z \in Nat : z = rec.size /\ z > 0
    BY <1>1
  <2>2. AlignTo(z, 8) \div 8 \in Nat \ {0}
    BY <2>1 DEF AlignTo
  <2>3. QED
    BY <2>1, <2>2, Zenon
<1>8. PICK align \in Nat \ {0} : align = Larger(1, rec.align \div 8)
  BY <1>2 DEF Larger
<1>9. "record" \in Kinds /\ "record" \notin {"int", "fp"} /\ "record" # "x87" /\ "record" # "fp" /\ "record" # "int"
  BY DEF Kinds
<1> HIDE DEF class
<1>10. ThisRecord \in [kind : Kinds, words : Nat \ {0}, align : Nat \ {0}, lo : Classes, hi : Classes, all : Classes]
  BY <1>6, <1>7, <1>8, <1>9, Zenon
<1>11. ThisRecord.kind = "record" /\ ThisRecord.align = align
  BY <1>6, <1>8
<1>12. QED
  BY <1>8, <1>9, <1>10, <1>11, Zenon DEF Descriptors

-----------------------------------------------------------------------------
(* The program                                                             *)

\* Any record may be declared, no call begins before one is passed, and the call
\* is as Calls describes it.

ProgramInv == rec \in AnyRecs /\ (types = {} => Idle) /\ VaInv

LEMMA CallBegins ==
  ASSUME CallInit, AlignsNest
  PROVE  VaInv
<1>1. CallInv /\ StackInv
  BY BeginsIdle, StackBegins
<1>2. QED
  BY <1>1, VaBegins DEF VaInv, CallInv

\* The alignments of the arguments are multiples of each other, the record's too.
LEMMA RecordNests ==
  ASSUME rec \in AnyRecs, rec.size > 0, NEW s \in ScalarTypes \cup {ThisRecord}, NEW t \in ScalarTypes \cup {ThisRecord}
  PROVE  Nest(s, t)
<1>1. PICK a \in Nat \ {0} : a = rec.align /\ (a > 8 => a % 16 = 0)
  <2>1. rec.align \in Aligns /\ Aligns \subseteq Nat \ {0}
    BY AnyRecIs, AlignsAre
  <2>2. QED
    BY <2>1, AlignAssumption
<1>2. PICK b \in Nat \ {0} : b = Larger(1, a \div 8) /\ (b > 1 => b % 2 = 0)
  BY <1>1 DEF Larger
<1>3. ThisRecord.align = b
  BY <1>1, <1>2, ThisRecordIs
<1>4. s.align \in {1, 2, b} /\ t.align \in {1, 2, b}
  BY <1>3, ScalarAssumption
<1>5. PICK x \in {1, 2, b}, y \in {1, 2, b} : x = s.align /\ y = t.align
  BY <1>4, Zenon
<1>6. x > 1 => x % 2 = 0
  BY <1>2
<1>7. x > 1 /\ x <= y => y % x = 0
  <2>1. b % b = 0
    <3>1. b = 1 * b
      OBVIOUS
    <3>2. QED
      BY <3>1
  <2>2. CASE x = b /\ y = b
    BY <2>1, <2>2
  <2>3. CASE x = 2
    BY <1>2, <2>3
  <2>4. CASE x = b /\ y = 2
    BY <1>2, <2>4
  <2>5. CASE x = 1 \/ y = 1
    BY <2>5
  <2>6. QED
    BY <2>2, <2>3, <2>4, <2>5
<1>8. QED
  BY <1>5, <1>6, <1>7, Zenon DEF Nest

LEMMA TypesStay ==
  ASSUME CallNext
  PROVE  UNCHANGED types
  BY DEF CallNext, funcall, ClassifyArg, prepare_funcall, gen_funcall, SpillArg, SkipSpill, Spilled, LoadArg, SkipLoad,
         CallFunction, ClassifyParam, Prologue, ReceiveParam, va_start, va_arg, Return

LEMMA PassRecordTypes ==
  ASSUME ProgramInv, PassRecord
  PROVE  CallInit' /\ AlignsNest' /\ rec' \in AnyRecs /\ types' # {}
<1>1. types' = ScalarTypes \cup {ThisRecord}
  BY Zenon DEF PassRecord
<1>2. rec \in AnyRecs /\ rec.size > 0
  BY Zenon DEF PassRecord, ProgramInv
<1>3. types' \in SUBSET Descriptors
  BY <1>1, <1>2, ThisRecordIs, ScalarAssumption
<1>4. Idle
  BY Zenon DEF PassRecord, ProgramInv
<1>5. UNCHANGED <<call, pc, i, count, place, param, homed, home, next, regs, stack, rsp, saved, rbp, local, va, got>>
  BY DEF PassRecord
<1>6. Idle'
  BY <1>4, <1>5 DEF Idle, Clobbered, NoVa
<1>7. \A s, t \in types' : Nest(s, t)
  BY <1>1, <1>2, RecordNests
<1>8. rec' \in AnyRecs
  <2>1. rec' = Open("struct", 0) /\ "struct" \in {"struct", "union"} /\ 0 \in Packs \cup {0}
    BY DEF PassRecord
  <2>2. QED
    BY <2>1, AnyInit
<1>9. QED
  BY <1>1, <1>3, <1>6, <1>7, <1>8 DEF CallInit, AlignsNest

LEMMA ProgramInvHolds ==
  ASSUME NoRedeclaration
  PROVE  Spec => []ProgramInv
<1>1. Init => ProgramInv
  <2>1. SUFFICES ASSUME Init PROVE ProgramInv
    OBVIOUS
  <2>2. RecInit /\ types = {} /\ Idle
    BY <2>1 DEF Init
  <2>3. CallInit /\ AlignsNest
    BY <2>2 DEF CallInit, AlignsNest
  <2>4. PICK kind \in {"struct", "union"}, pack \in Packs : rec = Open(kind, pack)
    BY <2>2 DEF RecInit
  <2>5. rec \in AnyRecs
    BY <2>4, AnyInit
  <2>6. QED
    BY <2>2, <2>3, <2>5, CallBegins DEF ProgramInv
<1>2. CallInit /\ AlignsNest => VaInv
  BY CallBegins
<1>3. CallInit' /\ AlignsNest' => VaInv'
  BY <1>2, PTL
<1>4. ProgramInv /\ [Next]_vars => ProgramInv'
  <2>1. SUFFICES ASSUME ProgramInv, [Next]_vars PROVE ProgramInv'
    OBVIOUS
  <2>2. CASE types = {} /\ RecNext /\ UNCHANGED callVars
    <3>1. rec' \in AnyRecs
      BY <2>1, <2>2, AnyStep DEF ProgramInv
    <3>2. VaInv'
      BY <2>1, <2>2, VaStep DEF ProgramInv
    <3>3. Idle'
      BY <2>1, <2>2 DEF ProgramInv, Idle, callVars, Clobbered, NoVa
    <3>4. QED
      BY <3>1, <3>2, <3>3 DEF ProgramInv
  <2>3. CASE PassRecord
    BY <1>3, <2>1, <2>3, PassRecordTypes DEF ProgramInv
  <2>4. CASE types # {} /\ CallNext /\ UNCHANGED recVars
    <3>1. rec' = rec /\ types' # {}
      BY <2>4, TypesStay DEF recVars
    <3>2. VaInv'
      BY <2>1, <2>4, VaStep DEF ProgramInv
    <3>3. QED
      BY <2>1, <3>1, <3>2 DEF ProgramInv
  <2>5. CASE UNCHANGED vars
    <3>1. UNCHANGED callVars /\ rec' = rec
      BY <2>5 DEF vars, recVars
    <3>2. VaInv'
      BY <2>1, <3>1, VaStep DEF ProgramInv
    <3>3. types' = {} => Idle'
      BY <2>1, <3>1 DEF ProgramInv, Idle, callVars, Clobbered, NoVa
    <3>4. QED
      BY <2>1, <3>1, <3>2, <3>3 DEF ProgramInv
  <2>6. QED
    BY <2>1, <2>2, <2>3, <2>4, <2>5 DEF Next
<1>5. QED
  BY <1>1, <1>4, PTL DEF Spec

LEMMA ProgramCallInv ==
  ASSUME NoRedeclaration
  PROVE  Spec => [](CallInv /\ StackInv)
<1>1. ProgramInv => CallInv /\ StackInv
  BY DEF ProgramInv, VaInv, CallInv
<1>2. QED
  BY <1>1, ProgramInvHolds, PTL

-----------------------------------------------------------------------------
(***************************************************************************)
(* The theorems.  Those about calls hold of the model of a call, for every *)
(* set of types (for the last two, types whose alignments nest), and of    *)
(* the program, whose types are the scalars and the record it declared.    *)
(***************************************************************************)

(* Every variable of the model of a call has its type: in particular no        *)
(* argument is loaded into a register that does not exist (next, regs), and    *)
(* the parser never gives a home to what is no argument of the call (homed).   *)
THEOREM CallsTypeCorrect ==
  ASSUME NoRedeclaration
  PROVE  (CallSpec => []CallTypeOK) /\ (Spec => []CallTypeOK)
<1>1. CallInv => CallTypeOK
  <2>1. SUFFICES ASSUME CallInv PROVE CallTypeOK
    OBVIOUS
  <2>2. Typed
    BY <2>1 DEF CallInv
  <2>3. call.named \in 0..Len(call.args)
    BY <2>2 DEF Typed
  <2>4. count \in [gp : Nat, fp : Nat, stack : Nat, align : Nat \ {0}]
    BY <2>2 DEF Typed, Counts
  <2>5. QED
    BY <2>2, <2>3, <2>4 DEF Typed, CallTypeOK
<1>2. QED
  BY <1>1, CallInvHolds, ProgramCallInv, PTL

(* Parser and code generator decide alike which arguments need a home          *)
(* (prepare_funcall and gen_funcall_args): an argument that is loaded from one *)
(* has one, and its value is there.                                            *)
THEOREM CallsInSync ==
  ASSUME NoRedeclaration
  PROVE  (CallSpec => []InSync) /\ (Spec => []InSync)
<1>1. CallInv => InSync
  <2>1. SUFFICES ASSUME CallInv PROVE InSync
    OBVIOUS
  <2>2. PICK cs : Run(cs)
    BY <2>1 DEF CallInv
  <2>3. QED
    BY <2>2 DEF Run, Agreed, HomesHeld, InSync
<1>2. QED
  BY <1>1, CallInvHolds, ProgramCallInv, PTL

(* Whatever the number and the types of the parameters, and whether they go by *)
(* register or by stack, the callee finds in each what the caller computed for *)
(* it: both sides run calling_convention, over different lists.                *)
THEOREM ParametersArrive ==
  ASSUME NoRedeclaration
  PROVE  (CallSpec => []ParamsArrive) /\ (Spec => []ParamsArrive)
<1>1. CallInv => ParamsArrive
  <2>1. SUFFICES ASSUME CallInv, pc = "body", NEW p \in 1..call.named
                 PROVE  ParamAt(p) = Words(p, Type(p))
    BY DEF ParamsArrive
  <2>2. Typed
    BY <2>1 DEF CallInv
  <2>3. PICK cs : Run(cs)
    BY <2>1 DEF CallInv
  <2>4. /\ p \in 1..Len(param) /\ p \in 1..Len(local) /\ p \in Args /\ rsp = rbp + 2
        /\ param[p] = place[p]
    <3>1. Len(param) = call.named /\ Len(local) = call.named /\ rsp = rbp + 2
      BY <2>1, <2>3 DEF Run, Counting
    <3>2. call.named \in Nat /\ call.named <= Len(call.args) /\ Len(call.args) \in Nat
      BY <2>2 DEF Typed
    <3>3. QED
      BY <2>3, <3>1, <3>2 DEF Run, Agreed, Args
  <2>5. CASE place[p].pass_by_stack
    <3>1. OnStack(p)
      BY <2>1, <2>3, <2>4, <2>5 DEF Run, StackHeld
    <3>2. ASSUME NEW w \in 1..Type(p).words
          PROVE  AtStack(rbp + 2 + param[p].stack_offset + w - 1) = Word(p, w)
      BY <2>4, <3>1 DEF OnStack, Holds, Words, AtStack
    <3>3. QED
      BY <2>4, <2>5, <3>2 DEF ParamAt, Words
  <2>6. CASE ~place[p].pass_by_stack
    BY <2>1, <2>3, <2>4, <2>6 DEF Run, Received, ParamAt
  <2>7. QED
    BY <2>5, <2>6
<1>2. QED
  BY <1>1, CallInvHolds, ProgramCallInv, PTL

(* Computing and loading an argument overwrites no argument register that has  *)
(* been loaded, although the first one may be computed that late.              *)
THEOREM LoadedRegistersStay ==
  ASSUME NoRedeclaration
  PROVE  (CallSpec => LoadedStay) /\ (Spec => LoadedStay)
<1> DEFINE Stay == pc = "load" /\ pc' = "load" =>
                     /\ \A r \in NextReg.gp..(next.gp - 1) : regs'.gp[r] = regs.gp[r]
                     /\ \A r \in 0..(next.fp - 1) : regs'.fp[r] = regs.fp[r]
<1>1. ASSUME CallInv, CallNext, pc = "load", pc' = "load"
      PROVE  /\ \A r \in NextReg.gp..(next.gp - 1) : regs'.gp[r] = regs.gp[r]
             /\ \A r \in 0..(next.fp - 1) : regs'.fp[r] = regs.fp[r]
  <2>1. PICK cs : Run(cs)
    BY <1>1 DEF CallInv
  <2>2. LoadArg \/ SkipLoad
    BY <1>1 DEF CallNext, funcall, ClassifyArg, prepare_funcall, gen_funcall, SpillArg, SkipSpill, Spilled,
                CallFunction, ClassifyParam, Prologue, ReceiveParam, va_start, va_arg, Return
  <2>3. CASE LoadArg
    BY <1>1, <2>1, <2>3, LoadArgRegs DEF CallInv
  <2>4. CASE SkipLoad
    BY <2>4 DEF SkipLoad
  <2>5. QED
    BY <2>2, <2>3, <2>4
<1>2. CallInv /\ [CallNext]_callVars => [Stay]_callVars
  BY <1>1
<1>3. CallInv /\ [Next]_vars => [Stay]_callVars
  <2>1. SUFFICES ASSUME CallInv, [Next]_vars PROVE [Stay]_callVars
    OBVIOUS
  <2>2. CASE UNCHANGED callVars
    BY <2>2
  <2>3. CASE PassRecord
    <3>1. pc = "idle"
      BY <2>3 DEF PassRecord
    <3>2. QED
      BY <3>1
  <2>4. CASE CallNext
    BY <1>2, <2>1, <2>4
  <2>5. QED
    BY <2>1, <2>2, <2>3, <2>4 DEF Next, vars
<1>4. QED
  BY <1>2, <1>3, CallInvHolds, ProgramCallInv, PTL DEF CallSpec, Spec, LoadedStay

(* The stack pointer is a multiple of 16 bytes at the call, every argument on  *)
(* the stack lies at a multiple of its alignment, and after the call the       *)
(* stack pointer is what it was (gen_funcall), whatever the arguments are.     *)
THEOREM StackIsAligned ==
  ASSUME NoRedeclaration
  PROVE  (CallSpec /\ AlignsNest => []StackAligned) /\ (Spec => []StackAligned)
<1>1. CallInit /\ AlignsNest => StackInv
  BY StackBegins
<1>2. CallInv /\ StackInv /\ [CallNext]_callVars => StackInv'
  BY StackStep
<1>3. CallInv /\ StackInv => StackAligned
  <2>1. SUFFICES ASSUME CallInv, StackInv PROVE StackAligned
    OBVIOUS
  <2>2. ASSUME pc = "params"
        PROVE  /\ rbp % 2 = 0
               /\ \A a \in Args : place[a].pass_by_stack /\ Type(a).align > 1 =>
                                    (rbp + 2 + place[a].stack_offset) % Type(a).align = 0
    <3>1. rbp = rsp - 2 /\ rsp % 2 = 0 /\ Based(rsp) /\ Placed
      BY <2>1, <2>2 DEF StackInv
    <3>2. rsp \in Int /\ place \in Seq(Places) /\ Len(place) = Len(call.args)
      BY <2>1, <2>2 DEF CallInv, Typed, Run, Counting, Calling
    <3>3. rbp % 2 = 0
      BY <3>1, <3>2
    <3>4. ASSUME NEW a \in Args, place[a].pass_by_stack, Type(a).align > 1
          PROVE  (rbp + 2 + place[a].stack_offset) % Type(a).align = 0
      <4>1. a \in 1..Len(place) /\ a \in 1..Len(call.args)
        BY <3>2 DEF Args
      <4>2. place[a] \in Places
        BY <3>2, <4>1, ElementOfSeq
      <4>3. place[a].stack_offset % Type(a).align = 0 /\ rsp % Type(a).align = 0
        BY <3>1, <3>4, <4>1 DEF Based, Placed, Aligned
      <4>4. Type(a).align \in Nat \ {0}
        <5>1. call.args[a] \in [ty : Descriptors, shape : Shapes]
          BY <2>1, <4>1, ElementOfSeq DEF CallInv, Typed
        <5>2. QED
          BY <5>1, WordsType DEF Type
      <4>5. place[a].stack_offset \in Int
        BY <4>2 DEF Places
      <4>6. (rsp + place[a].stack_offset) % Type(a).align = 0
        BY <3>2, <4>3, <4>4, <4>5, Sums
      <4>7. rbp + 2 + place[a].stack_offset = rsp + place[a].stack_offset
        BY <3>1, <3>2, <4>5
      <4>8. QED
        BY <4>6, <4>7
    <3>5. QED
      BY <3>3, <3>4
  <2>3. QED
    BY <2>1, <2>2 DEF StackAligned, StackInv
<1>4. QED
  BY <1>1, <1>2, <1>3, CallInvHolds, ProgramCallInv, PTL DEF CallSpec

(* Each va_arg returns the next argument after the named ones, from the save   *)
(* area of the prologue or from the stack, although the callee learns its type *)
(* only then (calling_convention, va_arg).                                     *)
THEOREM VariadicArgumentsArrive ==
  ASSUME NoRedeclaration
  PROVE  (CallSpec /\ AlignsNest => []VaArgsArrive) /\ (Spec => []VaArgsArrive)
<1>1. CallInit /\ AlignsNest => VaInv
  BY CallBegins
<1>2. VaInv /\ [CallNext]_callVars => VaInv'
  BY VaStep
<1>3. VaInv => VaArgsArrive
  BY DEF VaInv, VaHeld
<1>4. ProgramInv => VaInv
  BY DEF ProgramInv
<1>5. QED
  BY <1>1, <1>2, <1>3, <1>4, ProgramInvHolds, PTL DEF CallSpec

(* Whatever members a record has, each reads back as what it was given, by an  *)
(* initialiser of a static object (write_gvar_data) or by stores               *)
(* (gen_bitfield_store2), and every access lies inside the record.             *)
THEOREM FieldsRead ==
  ASSUME NarrowFields
  PROVE  Spec => []FieldsReadBack
<1>1. RecInv => FieldsReadBack
  BY ReadsBack
<1>2. QED
  BY <1>1, RecInvHolds, PTL

(* A store to a member of a record changes the bits of that member alone.      *)
THEOREM StoresInside ==
  ASSUME NarrowFields
  PROVE  Spec => StoresStayInside
<1>1. ASSUME RecInv, Next PROVE StoreStaysInside
  <2> SUFFICES ASSUME memory # <<>> PROVE StoreStaysInside
    BY Zenon DEF StoreStaysInside
  <2>1. Complete
    BY <1>1, Zenon DEF RecInv, Contents
  <2>2. UNCHANGED memory \/ \E a \in Accessible : Store(a)
    BY <1>1, <2>1, Zenon DEF Next, RecNext, AddMember, AddUnionMember, CloseRecord, StaticObject, AutomaticObject,
                             PassRecord, recVars
  <2>3. ASSUME NEW a \in Accessible, Store(a), NEW b \in DOMAIN memory, memory'[b] # memory[b]
        PROVE  LET m == rec.members[a]
               IN /\ memory'[b] = Bit(a, b - (m.offset * 8 + m.bit_offset), "stored")
                  /\ b - (m.offset * 8 + m.bit_offset) \in 0..(BitsOf(m) - 1)
    <3>1. b \in Room
      BY <1>1, <2>3, StoreIs, Zenon
    <3>2. memory'[b] = IF Inside(rec.members[a], b) THEN Bit(a, b - Lo(rec.members[a]), "stored") ELSE memory[b]
      BY <1>1, <2>3, <3>1, StoreIs, Zenon
    <3>3. Inside(rec.members[a], b) /\ memory'[b] = Bit(a, b - Lo(rec.members[a]), "stored")
      BY <2>3, <3>2, Zenon
    <3>4. QED
      BY <3>3, Zenon DEF Inside, Lo
  <2>4. QED
    BY <2>2, <2>3, Zenon DEF StoreStaysInside
<1>2. RecInv /\ [Next]_vars => [StoreStaysInside]_recVars
  <2>1. SUFFICES ASSUME RecInv, [Next]_vars PROVE StoreStaysInside \/ UNCHANGED recVars
    BY Zenon
  <2>2. CASE Next
    BY <1>1, <2>1, <2>2, Zenon
  <2>3. CASE UNCHANGED vars
    BY <2>3, Zenon DEF vars
  <2>4. QED
    BY <2>1, <2>2, <2>3
<1>3. QED
  BY <1>2, RecInvHolds, PTL DEF Spec, StoresStayInside
=============================================================================
