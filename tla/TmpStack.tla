------------------------------ MODULE TmpStack ------------------------------
(***************************************************************************)
(* The temporary stack of codegen.c.                                       *)
(*                                                                         *)
(* While the code of one function is emitted, a value that must outlive    *)
(* the evaluation of another expression is pushed on tmp_stack: the        *)
(* generator reserves one line for the instruction that saves it and goes  *)
(* on.  Only when the value is popped does the generator decide where the  *)
(* temporary has lived (a scratch register or a stack word), write the     *)
(* reserved line, and emit the instruction that restores the value.  The   *)
(* place is found from depths gathered while nested temporaries were       *)
(* popped, so it is right only if those depths account for every           *)
(* instruction emitted since the push.                                     *)
(*                                                                         *)
(* One action is one call of the push/pop functions, or the group of calls *)
(* that a caller makes with nothing in between.  The ghost variable dirty  *)
(* records, for every open temporary, what the instructions emitted since  *)
(* its push write.                                                         *)
(*                                                                         *)
(* Stack offsets are counted in words of 8 bytes below the frame pointer:  *)
(* word w is the bytes -8w .. -8w+7.  emit_text aligns lvar_stk_sz to 8    *)
(* and every temporary takes whole words, so no offset is rounded.         *)
(***************************************************************************)
EXTENDS Integers, FiniteSets

CONSTANTS
  GP_SLOTS,       \* scratch general registers: tmpreg64[0 .. GP_SLOTS-1]
  FP_SLOTS,       \* scratch SSE registers
  opt_reuse_stack,\* -fstack-reuse=all, the default
  Uses,           \* what the function pushes: a subset of Use, less "bitint"
  LvarWords,      \* sizes of the locals' area a function may have, in words
  BitIntWords,    \* sizes of the _BitInt values that are pushed, in words
  BufSizes,       \* sizes asked of tmpbuf(), in bytes
  MaxDepth,       \* bound: open temporaries
  MaxPeak         \* bound: words of frame after which nothing is pushed

ASSUME ConstantsAssumption ==
  /\ GP_SLOTS \in Nat /\ FP_SLOTS \in Nat
  /\ GP_SLOTS >= 2   \* tmpreg64[1] is a fallback of ND_CAS
  /\ opt_reuse_stack \in BOOLEAN
  /\ Uses \subseteq {"gp", "callee", "fp", "x87"}
  /\ LvarWords \subseteq Nat
  /\ BitIntWords \subseteq Nat \ {0}
  /\ BufSizes \subseteq Nat
  /\ MaxDepth \in Nat /\ MaxPeak \in Nat

VARIABLES
  in_fn,          \* a function body is being emitted
  reuse,          \* opt_reuse_stack && !codegen_fn->dont_reuse_stk
  lvar_stk_sz,    \* words taken by the locals
  peak_stk_usage, \* words the frame needs so far
  tmpbuf_sz,      \* bytes of the scratch buffer __BUF
  frame,          \* bytes subtracted from %rsp, known when the function ends
  depth,          \* tmp_stack.depth
  data,           \* tmp_stack.data, the open slots 1..depth
  job,            \* the group of pops being made, see below
  dirty,          \* ghost: for each open slot, what was written since its push
  restored,       \* ghost: the last temporary that was popped
  used_words      \* ghost: the stack words temporaries of this function took

vars == <<in_fn, reuse, lvar_stk_sz, peak_stk_usage, tmpbuf_sz, frame,
          depth, data, job, dirty, restored, used_words>>

-----------------------------------------------------------------------------
(* Slots *)

SlotKind == {"SL_GP", "SL_FP", "SL_ST"}

\* What the emitter pushed, which decides the pop function it will use:
\* a general value, the pointer of an indirect call, a float or double,
\* a long double, one word of a _BitInt.
Use == {"gp", "callee", "fp", "x87", "bitint"}

\* A _BitInt takes a slot for each of its words: word numbers them from 1.
Slot == [kind : SlotKind, gp_depth : Nat, fp_depth : Nat, st_depth : Nat,
         use : Use, word : Nat]

KindOf(use) ==
  CASE use \in {"gp", "callee"}  -> "SL_GP"
    [] use = "fp"                -> "SL_FP"
    [] use \in {"x87", "bitint"} -> "SL_ST"

\* The words pop_tmpstack is told a slot of this use takes.
Words(use) == IF use = "x87" THEN 2 ELSE 1

NewSlot(use, word) ==
  [kind |-> KindOf(use), gp_depth |-> 0, fp_depth |-> 0, st_depth |-> 0,
   use |-> use, word |-> word]

GpRegs == 0 .. GP_SLOTS - 1
FpRegs == 0 .. FP_SLOTS - 1

\* What a piece of code writes, or where a value lives: scratch registers by
\* index, stack words by number.
Footprint == [gp : SUBSET Nat, fp : SUBSET Nat, st : SUBSET Nat]
Nowhere   == [gp |-> {}, fp |-> {}, st |-> {}]
AllRegs   == [gp |-> GpRegs, fp |-> FpRegs, st |-> {}]
OnlyGp(r) == [gp |-> r, fp |-> {}, st |-> {}]
Join(a, b) == [gp |-> a.gp \cup b.gp, fp |-> a.fp \cup b.fp,
               st |-> a.st \cup b.st]
Disjoint(a, b) == a.gp \cap b.gp = {} /\ a.fp \cap b.fp = {} /\ a.st \cap b.st = {}

Larger(a, b) == IF a >= b THEN a ELSE b
AlignTo(n, a) == ((n + a - 1) \div a) * a

\* argreg64 is rdi, rsi, rdx, rcx, r8, r9 and tmpreg64 is rdi, rsi, r8, r9,
\* r10, r11: the scratch registers that loading n argument registers writes.
ArgRegs(n) == {r \in 0 .. 3 : n >= <<1, 2, 5, 6>>[r + 1]}

-----------------------------------------------------------------------------
(* pop_tmpstack on the top slot sl *)

\* A register slot whose nested temporaries used every register is spilled.
PopKind(sl) ==
  IF \/ sl.kind = "SL_GP" /\ sl.gp_depth >= GP_SLOTS
     \/ sl.kind = "SL_FP" /\ sl.fp_depth >= FP_SLOTS
  THEN "SL_ST" ELSE sl.kind

\* The lowest word of a slot that lives on the stack.
Bottom_IgnoresLocals(sl) ==
  IF reuse THEN sl.st_depth + Words(sl.use) ELSE peak_stk_usage + Words(sl.use)
Bottom_AlwaysReuses(sl) == lvar_stk_sz + sl.st_depth + Words(sl.use)
Bottom(sl) ==
  IF reuse THEN lvar_stk_sz + sl.st_depth + Words(sl.use)
           ELSE peak_stk_usage + Words(sl.use)

PlaceOf(sl) ==
  [gp |-> IF PopKind(sl) = "SL_GP" THEN {sl.gp_depth} ELSE {},
   fp |-> IF PopKind(sl) = "SL_FP" THEN {sl.fp_depth} ELSE {},
   st |-> IF PopKind(sl) = "SL_ST"
          THEN Bottom(sl) - Words(sl.use) + 1 .. Bottom(sl) ELSE {}]

\* The enclosing slot learns the depths its nested temporaries reached.
Absorb_ForgetsNested(parent, sl) ==
  [parent EXCEPT
     !.gp_depth = Larger(@, IF PopKind(sl) = "SL_GP" THEN 1 ELSE 0),
     !.fp_depth = Larger(@, IF PopKind(sl) = "SL_FP" THEN 1 ELSE 0),
     !.st_depth = Larger(@, IF PopKind(sl) = "SL_ST" THEN Words(sl.use) ELSE 0)]
Absorb(parent, sl) ==
  [parent EXCEPT
     !.gp_depth = Larger(@, sl.gp_depth + (IF PopKind(sl) = "SL_GP" THEN 1 ELSE 0)),
     !.fp_depth = Larger(@, sl.fp_depth + (IF PopKind(sl) = "SL_FP" THEN 1 ELSE 0)),
     !.st_depth = Larger(@, sl.st_depth + (IF PopKind(sl) = "SL_ST"
                                           THEN Words(sl.use) ELSE 0))]

Popped(sl) ==
  [i \in 1 .. depth - 1 |->
     IF i = depth - 1 THEN Absorb(data[i], sl) ELSE data[i]]

\* The top slot sl leaves the stack.  before is what was written since the
\* last event; the value is restored after it.
PopTmpStack(sl, before) ==
  /\ depth' = depth - 1
  /\ peak_stk_usage' = IF PopKind(sl) = "SL_ST"
                       THEN Larger(peak_stk_usage, Bottom(sl)) ELSE peak_stk_usage
  /\ restored' = [place |-> PlaceOf(sl), dirty |-> Join(dirty[depth], before),
                  fresh |-> PlaceOf(sl).st \cap used_words = {}]
  /\ used_words' = used_words \cup PlaceOf(sl).st

\* The n outermost slots see the footprint w being written.
Seen(n, w) == [i \in 1 .. n |-> Join(dirty[i], w)]

\* clobber_all_regs: every open slot must live on the stack.
ClobberAllRegs(slots) ==
  [i \in DOMAIN slots |-> [slots[i] EXCEPT !.kind = "SL_ST"]]

-----------------------------------------------------------------------------
(* Emitting a function *)

\* The pops a caller makes with nothing in between.  pop_bitint put the word
\* it popped before at stack word last; a compare and swap holds its second
\* operand in scratch register held while it pops its first.
Job == [op : {"none", "bitint", "cas"}, last : Nat, held : Nat]
NoJob == [op |-> "none", last |-> 0, held |-> 0]

NothingRestored == [place |-> Nowhere, dirty |-> Nowhere, fresh |-> TRUE]

Idle == in_fn /\ job = NoJob
Room == depth < MaxDepth /\ peak_stk_usage < MaxPeak
Top  == data[depth]

Init ==
  /\ in_fn = FALSE /\ reuse = FALSE
  /\ lvar_stk_sz = 0 /\ peak_stk_usage = 0 /\ tmpbuf_sz = 0 /\ frame = 0
  /\ depth = 0 /\ data = <<>> /\ job = NoJob
  /\ dirty = <<>> /\ used_words = {}
  /\ restored = NothingRestored

\* The prologue of emit_text: the locals get lvars words.  dont_reuse_stk is
\* set for a function that calls a returns_twice function.
EnterFn(lvars, dont_reuse_stk) ==
  /\ ~in_fn
  /\ in_fn' = TRUE
  /\ reuse' = (opt_reuse_stack /\ ~dont_reuse_stk)
  /\ lvar_stk_sz' = lvars /\ peak_stk_usage' = lvars
  /\ tmpbuf_sz' = 0 /\ frame' = 0
  /\ used_words' = {}
  /\ restored' = NothingRestored
  /\ UNCHANGED <<depth, data, job, dirty>>

PushSlots(n, use) ==
  /\ Idle /\ Room /\ depth + n <= MaxDepth
  /\ depth' = depth + n
  /\ data' = [i \in 1 .. depth + n |->
                IF i <= depth THEN data[i] ELSE NewSlot(use, i - depth)]
  /\ dirty' = [i \in 1 .. depth + n |-> IF i <= depth THEN dirty[i] ELSE Nowhere]
  /\ restored' = NothingRestored
  /\ UNCHANGED <<in_fn, reuse, lvar_stk_sz, peak_stk_usage, tmpbuf_sz, frame,
                 job, used_words>>

\* push, push_from, pushf, push_x87
Push(use) == PushSlots(1, use)

\* push_bitint: one stack slot for each word of the value.
PushBitint(n) == PushSlots(n, "bitint")

\* pop and pop_inreg, popf and popf_inreg, pop_x87: fallback is the scratch
\* register a value that lived on the stack is loaded into, if it is one.
Pop(use, fallback) ==
  /\ Idle /\ depth > 0 /\ Top.use = use
  /\ PopTmpStack(Top, Nowhere)
  /\ data' = Popped(Top)
  /\ dirty' = Seen(depth - 1,
                   Join(PlaceOf(Top),
                        OnlyGp(IF PopKind(Top) = "SL_ST" THEN fallback ELSE {})))
  /\ UNCHANGED <<in_fn, reuse, lvar_stk_sz, tmpbuf_sz, frame, job>>

PopGp(fallback) == Pop("gp", fallback)
PopFp  == Pop("fp", {})
PopX87 == Pop("x87", {})

\* pop_bitint pops the words of one value, the last one pushed first.
PopBitintWord ==
  /\ in_fn /\ depth > 0 /\ Top.use = "bitint"
  /\ job = NoJob \/ job.op = "bitint"
  /\ PopTmpStack(Top, Nowhere)
  /\ data' = Popped(Top)
  /\ dirty' = Seen(depth - 1, PlaceOf(Top))
  /\ job' = IF Top.word = 1 THEN NoJob
            ELSE [op |-> "bitint", last |-> Bottom(Top), held |-> 0]
  /\ UNCHANGED <<in_fn, reuse, lvar_stk_sz, tmpbuf_sz, frame>>

\* The register pop_inreg returns when fallback is the scratch register it is
\* told to load a stack value into.
PopReg(sl, fallback) == IF PopKind(sl) = "SL_GP" THEN sl.gp_depth ELSE fallback

\* ND_CAS: the address and the pointer to the expected value were pushed, the
\* new value is in %rax; pop_inreg brings both pointers back.
PopCas(fallback) ==
  /\ Top.use = "gp"
  /\ PopTmpStack(Top, Nowhere)
  /\ data' = Popped(Top)
  /\ dirty' = Seen(depth - 1, Join(PlaceOf(Top), OnlyGp({PopReg(Top, fallback)})))
  /\ UNCHANGED <<in_fn, reuse, lvar_stk_sz, tmpbuf_sz, frame>>

PopCasOld ==
  /\ Idle /\ depth > 1 /\ data[depth - 1].use = "gp"
  /\ PopCas(0)
  /\ job' = [op |-> "cas", last |-> 0, held |-> PopReg(Top, 0)]

PopCasAddr ==
  /\ job.op = "cas"
  /\ PopCas(1)
  /\ job' = NoJob

\* A direct call, a runtime function called for a _BitInt or a thread-local
\* address, an asm statement: any scratch register may be written.
Call ==
  /\ Idle
  /\ data' = ClobberAllRegs(data)
  /\ dirty' = Seen(depth, AllRegs)
  /\ restored' = NothingRestored
  /\ UNCHANGED <<in_fn, reuse, lvar_stk_sz, peak_stk_usage, tmpbuf_sz, frame,
                 depth, job, used_words>>

\* clobber_gp as gen_funcall uses it, with gp_count argument registers loaded.
ClobberGp(gp_count, sl) ==
  [sl EXCEPT !.gp_depth = Larger(@, CASE gp_count = 0 -> 0
                                      [] gp_count = 1 -> 1
                                      [] OTHER        -> 4)]

\* The end of gen_funcall through a pointer: the argument registers have been
\* loaded, the pointer is popped (into %r10 if it lived on the stack), called.
CallIndirect(gp_count) ==
  LET sl == ClobberGp(gp_count, Top)
      args == OnlyGp(ArgRegs(gp_count))
  IN
  /\ Idle /\ depth > 0 /\ Top.use = "callee"
  /\ PopTmpStack(sl, args)
  /\ data' = ClobberAllRegs(Popped(sl))
  /\ dirty' = Seen(depth - 1, Join(Join(args, PlaceOf(sl)), AllRegs))
  /\ UNCHANGED <<in_fn, reuse, lvar_stk_sz, tmpbuf_sz, frame, job>>

\* tmpbuf: code is emitted that uses sz bytes of the scratch buffer.
TmpBuf(sz) ==
  /\ Idle
  /\ tmpbuf_sz' = Larger(tmpbuf_sz, sz)
  /\ restored' = NothingRestored
  /\ UNCHANGED <<in_fn, reuse, lvar_stk_sz, peak_stk_usage, frame, depth, data,
                 job, dirty, used_words>>

\* The end of emit_text: the frame gets its size, the buffer its bottom.
LeaveFn ==
  /\ Idle /\ depth = 0
  /\ in_fn' = FALSE
  /\ frame' = AlignTo(8 * peak_stk_usage + tmpbuf_sz, 16)
  /\ restored' = NothingRestored
  /\ UNCHANGED <<reuse, lvar_stk_sz, peak_stk_usage, tmpbuf_sz, depth, data,
                 job, dirty, used_words>>

Next ==
  \/ \E lvars \in LvarWords, dont_reuse_stk \in BOOLEAN :
       EnterFn(lvars, dont_reuse_stk)
  \/ \E use \in Uses : Push(use)
  \/ \E n \in BitIntWords : PushBitint(n)
  \/ \E fallback \in {{}, {0}} : PopGp(fallback)
  \/ PopFp
  \/ PopX87
  \/ PopBitintWord
  \/ PopCasOld
  \/ PopCasAddr
  \/ Call
  \/ \E gp_count \in 0 .. 6 : CallIndirect(gp_count)
  \/ \E sz \in BufSizes : TmpBuf(sz)
  \/ LeaveFn

Spec == Init /\ [][Next]_vars

-----------------------------------------------------------------------------
(* Properties *)

\* The state is well formed: slots hold kinds and depths, the ghosts
\* footprints.  The shape of the records of codegen.c 128-151.
TypeOK ==
  /\ in_fn \in BOOLEAN /\ reuse \in BOOLEAN
  /\ lvar_stk_sz \in Nat /\ peak_stk_usage \in Nat
  /\ tmpbuf_sz \in Nat /\ frame \in Nat /\ depth \in Nat
  /\ data \in [1 .. depth -> Slot]
  /\ job \in Job
  /\ dirty \in [1 .. depth -> Footprint]
  /\ restored \in [place : Footprint, dirty : Footprint, fresh : BOOLEAN]
  /\ used_words \in SUBSET Nat

\* A temporary read back is the value that was pushed: nothing emitted
\* between the save and the restore wrote the register or the words chosen
\* for it, whatever nested temporaries, calls through pointers, argument
\* registers and fallback registers there were (pop_tmpstack, clobber_gp,
\* clobber_all_regs, pop_gp).
TempsSurvive == Disjoint(restored.place, restored.dirty)

\* Temporaries never overlap the locals above them nor, once emit_text has
\* fixed the frame, the scratch buffer __BUF at its bottom.
FrameHoldsTemps ==
  \A w \in used_words :
    /\ w > lvar_stk_sz
    /\ w <= peak_stk_usage
    /\ ~in_fn => 8 * w <= frame - tmpbuf_sz

\* pop_bitint returns the lowest address only: the words of a _BitInt must
\* have come to lie side by side, so each one lands just below the one before.
BitintContiguous == job.op = "bitint" => Bottom(Top) = job.last + 1

\* In a function that may return twice, or with stack reuse off, no word is
\* given to two temporaries: the second return finds them all intact.
NoReuseIsFresh == ~reuse => restored.fresh

\* ND_CAS reads the expected value through one register and exchanges through
\* another: "old" and "addr" must not be the same register.
CasOperandsDistinct == job.op = "cas" => PopReg(Top, 1) # job.held

=============================================================================
