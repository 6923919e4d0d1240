------------------------------ MODULE Records ------------------------------
(* Structures and unions: where struct_decl and union_decl (parse.c) put each *)
(* member, and the code that reads and writes members at those places: the    *)
(* compile-time writer and reader of parse.c (write_gvar_data, eval2) and the *)
(* loads and stores of codegen.c (gen_bitfield_load, gen_bitfield_store2).    *)
(*                                                                            *)
(* Memory is modelled bit by bit, but a bit holds where it came from instead  *)
(* of 0 or 1: bit k of the value w that was written to member m.              *)
EXTENDS Alignment, Sequences, FiniteSets, SequencesExt, FiniteSetsExt

CONSTANTS
  Decls,       \* the member declarators a record may contain
  Packs,       \* the alignments #pragma pack may ask for, 0 for none
  MaxMembers,  \* bound on the members of a record
  MaxBytes     \* bound on the size of the records whose members are accessed

VARIABLES
  rec,      \* the record type being declared, and its layout so far
  memory,   \* the bits of one object of that type, once the type is complete
  written   \* which value each member was given last

recVars == <<rec, memory, written>>

----------------------------------------------------------------------------
(* Types and members.  leaves lists the scalars inside a type with their      *)
(* offsets and classes, nested records and arrays flattened.                  *)

Scalar(kind, size, class) ==
  [kind |-> kind, size |-> size, align |-> size, leaves |-> << [ofs |-> 0, size |-> size, class |-> class] >>]

\* A member as struct_members makes it, before it has a place.
Member(ty, width, packed, alt) ==
  [ty |-> ty, bitfield |-> FALSE, width |-> width, named |-> TRUE, packed |-> packed, alt |-> alt,
   offset |-> 0, bit_offset |-> 0, is_aligned_bitfiled |-> FALSE]
Plain(ty, packed, alt) == Member(ty, 0, packed, alt)
Bitfield(ty, width, packed) == [Member(ty, width, packed, 0) EXCEPT !.bitfield = TRUE]
Unnamed(ty, width) == [Bitfield(ty, width, FALSE) EXCEPT !.named = FALSE]

(* What struct_members accepts and C allows: a bit-field has one of the types *)
(* that registers hold, whose size is its alignment, and fits into it;        *)
(* alignments are powers of two (align_expr), of which this is used: each is  *)
(* a multiple of the smaller ones, and of 16 if it exceeds 8.                 *)
MemberTypes ==
  [kind : STRING, size : Nat, align : Nat \ {0},
   leaves : Seq([ofs : Int, size : Nat, class : {"int", "sse", "x87"}])]
Declarators ==
  {d \in [ty : MemberTypes, bitfield : BOOLEAN, width : Nat, named : BOOLEAN, packed : BOOLEAN, alt : Nat,
          offset : {0}, bit_offset : {0}, is_aligned_bitfiled : {FALSE}] :
     d.bitfield => /\ d.ty.size \in {1, 2, 4, 8} /\ d.ty.align = d.ty.size
                   /\ d.width <= d.ty.size * 8 /\ (d.named => d.width > 0)}
Aligns == ({d.ty.align : d \in Decls} \cup {d.alt : d \in Decls} \cup Packs \cup {1}) \ {0}

ASSUME DeclAssumption == Decls \subseteq Declarators
ASSUME PackAssumption == Packs \subseteq Nat
ASSUME AlignAssumption == \A a, b \in Aligns : (a <= b => b % a = 0) /\ (a > 8 => a % 16 = 0)

Open(kind, pack) ==
  [kind |-> kind, pack |-> pack, bits |-> 0, alt |-> 0, members |-> <<>>, size |-> -1, align |-> 1]
Complete == rec.size >= 0

----------------------------------------------------------------------------
(* Layout: one iteration of the loops of struct_decl and union_decl.          *)

mem_align(d) ==
  IF d.packed THEN 1
  ELSE IF rec.pack > 0 /\ rec.pack < d.ty.align THEN rec.pack ELSE d.ty.align

alt_align(d) ==
  IF d.bitfield /\ ~d.named THEN rec.alt ELSE Larger(rec.alt, Larger(mem_align(d), d.alt))

At(d, offset, bit_offset, aligned) ==
  [d EXCEPT !.offset = offset, !.bit_offset = bit_offset, !.is_aligned_bitfiled = aligned]

\* Where the next member starts looking for room.
FirstBit(d) ==
  IF d.alt > 0 /\ (d.alt > d.ty.align \/ d.ty.kind # "record") THEN AlignTo(rec.bits, d.alt * 8)
  ELSE rec.bits

\* A mutant: the integer may begin after the field does.
PackedField_AnyStart(d, bits) ==
  LET ceil == AlignTo(bits + d.width, 8)
      offset == (ceil - 8) \div 8
  IN At(d, offset, bits - offset * 8, TRUE)

(* A packed bit-field starts at the next bit.  It is accessed as one integer *)
(* if one that ends with it also begins no later than it, and byte by byte    *)
(* otherwise.                                                                 *)
PackedField(d, bits) ==
  LET ceil == AlignTo(bits + d.width, 8)
      fits == {r \in {8, 16, 32, 64} : ceil % r = 0 /\ AlignDown(ceil - r, 8) <= bits}
      offset == IF fits = {} THEN bits \div 8 ELSE (ceil - Min(fits)) \div 8
  IN At(d, offset, bits - offset * 8, fits # {})

\* Any other bit-field moves on to a unit of its type that holds all of it.
UnitField(d, bits) ==
  LET unit == d.ty.size * 8
      start == IF bits \div unit # (bits + d.width - 1) \div unit THEN AlignTo(bits, unit) ELSE bits
      offset == (start \div unit) * d.ty.size
  IN At(d, offset, start - offset * 8, TRUE)

Place(d, bits) ==
  IF ~d.bitfield THEN At(d, AlignTo(bits, mem_align(d) * 8) \div 8, 0, FALSE)
  ELSE IF d.packed \/ rec.pack > 0 THEN PackedField(d, bits)
  ELSE UnitField(d, bits)

BitsOf(d) == IF d.bitfield THEN d.width ELSE d.ty.size * 8

RecInit ==
  /\ rec \in {Open(kind, pack) : kind \in {"struct", "union"}, pack \in Packs}
  /\ memory = <<>>
  /\ written = <<>>

AddMember(d) ==
  /\ ~Complete
  /\ Len(rec.members) < MaxMembers
  /\ rec.kind = "struct"
  /\ LET first == FirstBit(d)
         placed == Place(d, first)
         next == IF d.bitfield /\ d.width = 0 THEN AlignTo(first, d.ty.size * 8)
                 ELSE placed.offset * 8 + placed.bit_offset + BitsOf(d)
     IN rec' = [rec EXCEPT !.alt = alt_align(d), !.bits = next,
                           !.members = IF d.bitfield /\ d.width = 0 THEN @ ELSE Append(@, placed)]
  /\ UNCHANGED <<memory, written>>

AddUnionMember(d) ==
  /\ ~Complete
  /\ Len(rec.members) < MaxMembers
  /\ rec.kind = "union"
  /\ rec' = [rec EXCEPT !.alt = alt_align(d), !.bits = Larger(@, AlignTo(BitsOf(d), 8)),
                        !.members = Append(@, At(d, 0, 0, FALSE))]
  /\ UNCHANGED <<memory, written>>

struct_size ==
  IF rec.kind = "struct" /\ rec.alt = 0 /\ rec.pack > 0 THEN AlignTo(rec.bits, rec.pack * 8) \div 8
  ELSE AlignTo(rec.bits, Larger(1, rec.alt) * 8) \div 8

CloseRecord ==
  /\ ~Complete
  /\ rec' = [rec EXCEPT !.size = struct_size, !.align = Larger(1, rec.alt)]
  /\ UNCHANGED <<memory, written>>

----------------------------------------------------------------------------
(* Access                                                                     *)

next_pow_of_two(v) == IF v > 32 THEN 64 ELSE IF v > 16 THEN 32 ELSE IF v > 8 THEN 16 ELSE 8

bitfield_footprint(m) == AlignTo(m.width + m.bit_offset, 8) \div 8

Access(m) ==
  IF ~m.bitfield THEN m.ty.size
  ELSE IF m.is_aligned_bitfiled THEN next_pow_of_two(m.bit_offset + m.width) \div 8
  ELSE bitfield_footprint(m)

Accessible == {i \in DOMAIN rec.members : rec.members[i].named}

\* A bit of the value written to member i, or a bit that was written to none.
Bit(i, k, value) == <<i, k, value>>
NoBit(why) == <<0, 0, why>>
Old(b) == IF b \in DOMAIN memory THEN memory[b] ELSE NoBit("outside")

\* A mutant: the last byte is overwritten, not merged.
gen_bitfield_store2_WholeBytes(i, m, b, value) ==
  LET k == b - (m.offset * 8 + m.bit_offset)
  IN IF m.is_aligned_bitfiled
     THEN IF k \in 0..(m.width - 1) THEN Bit(i, k, value) ELSE Old(b)
     ELSE IF k < 0 THEN Old(b) ELSE Bit(i, k, value)

(* A store to a bit-field: an access of a whole integer masks the other bits  *)
(* out; an access byte by byte shifts the value into the first byte after the *)
(* bits before the field, overwrites whole bytes, and merges the last one.    *)
gen_bitfield_store2(i, m, b, value) ==
  LET k == b - (m.offset * 8 + m.bit_offset)
      byte == b \div 8 - m.offset
      left == m.bit_offset + m.width - byte * 8
      bit == b % 8
  IN IF m.is_aligned_bitfiled
     THEN IF k \in 0..(m.width - 1) THEN Bit(i, k, value) ELSE Old(b)
     ELSE IF byte = 0 /\ m.bit_offset > 0
          THEN IF bit < m.bit_offset THEN Old(b) ELSE Bit(i, k, value)
          ELSE IF left >= 8 \/ bit < left THEN Bit(i, k, value) ELSE Old(b)

Stored(i, b, value) ==
  LET m == rec.members[i]
      k == b - m.offset * 8
  IN IF k \notin 0..(Access(m) * 8 - 1) THEN Old(b)
     ELSE IF m.bitfield THEN gen_bitfield_store2(i, m, b, value)
     ELSE Bit(i, k, value)

(* The loaded value of a bit-field, from its lowest bit up, extended from the *)
(* field's width to the width of its type.  The shifts that bring an integer  *)
(* access into place are skipped for a field as wide as its type.             *)
gen_bitfield_load(m) ==
  LET start == m.offset * 8
      loaded(k) == IF k < Access(m) * 8 THEN Old(start + k) ELSE NoBit("extended")
  IN [k \in 0..(m.ty.size * 8 - 1) |->
        IF m.is_aligned_bitfiled /\ m.width = m.ty.size * 8 THEN loaded(k)
        ELSE IF k < m.width THEN loaded(m.bit_offset + k) ELSE NoBit("extended")]

\* eval2 reads members of constants the same way, and always shifts.
eval_bitfield(m) ==
  [k \in 0..(m.ty.size * 8 - 1) |->
     IF k < m.width THEN Old(m.offset * 8 + m.bit_offset + k) ELSE NoBit("extended")]

load(m) ==
  IF m.bitfield THEN gen_bitfield_load(m) ELSE [k \in 0..(m.ty.size * 8 - 1) |-> Old(m.offset * 8 + k)]

(* A static object is initialised at compile time, in member order, in a      *)
(* buffer of zeros.  The integer case ors the masked value into the buffer;   *)
(* the mask for 64 bits is computed by a shift of a 64-bit one by 64, which   *)
(* is undefined: the machine yields no bit or every bit.                      *)
InitBit(i, b, old, mask64) ==
  LET m == rec.members[i]
      k == b - (m.offset * 8 + m.bit_offset)
      mask == IF m.width = 64 THEN mask64 ELSE m.width
      byte == b \div 8 - m.offset
  IN IF b - m.offset * 8 \notin 0..(Access(m) * 8 - 1) THEN old
     ELSE IF ~m.bitfield THEN Bit(i, k, "constant")
     ELSE IF m.is_aligned_bitfiled
          THEN IF k \notin 0..(mask - 1) THEN old ELSE IF old = NoBit("zero") THEN Bit(i, k, "constant") ELSE NoBit("mixed")
          ELSE IF k \in 0..(m.width - 1) \/ (byte = 0 /\ m.bit_offset > 0 /\ k > 0)
               THEN Bit(i, k, "constant") ELSE old

Buffer == [b \in 0..(rec.size * 8 - 1) |-> NoBit("zero")]

\* The buffer once the members up to the j-th have been written, if they have an initialiser.
write_gvar_data(inits, mask64) ==
  LET after[j \in 0..Len(rec.members)] ==
        IF j = 0 THEN Buffer
        ELSE IF j \notin inits THEN after[j - 1]
        ELSE [b \in DOMAIN Buffer |-> InitBit(j, b, after[j - 1][b], mask64)]
  IN after[Len(rec.members)]

Ready == Complete /\ rec.size <= MaxBytes /\ rec.size > 0

\* A union has one initialiser, by default for its first named member.
StaticObject ==
  /\ Ready
  /\ memory = <<>>
  /\ LET inits == IF rec.kind = "union" /\ Accessible # {} THEN {Min(Accessible)} ELSE Accessible
     IN /\ \E mask64 \in {0, 64} : memory' = write_gvar_data(inits, mask64)
        /\ written' = [i \in Accessible |-> IF i \in inits THEN "constant" ELSE "nothing"]
  /\ UNCHANGED rec

AutomaticObject ==
  /\ Ready
  /\ memory = <<>>
  /\ memory' = [b \in 0..(rec.size * 8 - 1) |-> NoBit("garbage")]
  /\ written' = [i \in Accessible |-> "nothing"]
  /\ UNCHANGED rec

Store(i) ==
  /\ memory # <<>>
  /\ memory' = [b \in DOMAIN memory |-> Stored(i, b, "stored")]
  /\ written' = [j \in Accessible |-> IF j = i THEN "stored"
                                      ELSE IF rec.kind = "union" THEN "nothing" ELSE written[j]]
  /\ UNCHANGED rec

RecNext ==
  \/ \E d \in Decls : AddMember(d) \/ AddUnionMember(d)
  \/ CloseRecord
  \/ StaticObject
  \/ AutomaticObject
  \/ \E i \in Accessible : Store(i)

RecSpec == RecInit /\ [][RecNext]_recVars

----------------------------------------------------------------------------
(* How a record is passed (codegen.c): get_class over its eightbytes.         *)

calc_class(a, b) ==
  IF a = b THEN a
  ELSE IF "no" \in {a, b} THEN (IF a = "no" THEN b ELSE a)
  ELSE IF "mem" \in {a, b} \/ "x87" \in {a, b} THEN "mem"
  ELSE IF "int" \in {a, b} THEN "int" ELSE "sse"

\* The elements before the first that begins at hi or after.
Below(s, hi) ==
  SubSeq(s, 1, Min({k - 1 : k \in {k \in DOMAIN s : s[k].ofs >= hi}} \cup {Len(s)}))

\* Those of all members but unnamed bit-fields (mem_iter).
Leaves(members) ==
  FlattenSeq([k \in DOMAIN members |->
    LET m == members[k]
    IN IF m.bitfield /\ ~m.named THEN <<>>
       ELSE [j \in DOMAIN m.ty.leaves |-> [m.ty.leaves[j] EXCEPT !.ofs = @ + m.offset]]])

get_class(leaves, lo, hi) ==
  LET below == Below(leaves, hi)
      ac[k \in 0..Len(below)] ==
        IF k = 0 THEN "no"
        ELSE IF below[k].ofs + below[k].size <= lo THEN ac[k - 1]
        ELSE calc_class(ac[k - 1], below[k].class)
  IN ac[Len(below)]

(* What the calling convention looks at, in eightbytes.  It does not look at  *)
(* the classes of anything larger than two, nor at a second eightbyte that is *)
(* not there.                                                                 *)
Passed(kind, size, align, leaves) ==
  LET class(lo, hi) == IF size > 16 THEN "mem" ELSE IF size <= lo THEN "no" ELSE get_class(leaves, lo, hi)
  IN [kind |-> kind, words |-> AlignTo(size, 8) \div 8, align |-> Larger(1, align \div 8),
      lo |-> class(0, 8), hi |-> class(8, 16), all |-> class(0, 16)]

ThisRecord == Passed("record", rec.size, rec.align, Leaves(rec.members))

----------------------------------------------------------------------------
(* Properties                                                                 *)

(* A member reads back, at run time and in a constant expression, as the      *)
(* value it was last given: by its initialiser or by a store, whatever was    *)
(* stored to the members around it before or since; and the integer or the    *)
(* bytes through which it is read and written lie inside the record, though   *)
(* they may be wider than the member.                                         *)
AccessInside(m) == m.offset + Access(m) <= rec.size
FieldsReadBack ==
  /\ Complete => \A i \in Accessible : AccessInside(rec.members[i])
  /\ memory # <<>> =>
       \A i \in {j \in Accessible : written[j] # "nothing"} :
         LET m == rec.members[i]
             own == [k \in 0..(m.ty.size * 8 - 1) |->
                       IF k < BitsOf(m) THEN Bit(i, k, written[i]) ELSE NoBit("extended")]
         IN /\ load(m) = own
            /\ m.bitfield => eval_bitfield(m) = own

(* A store changes the bits of its member and no other bit of the object,     *)
(* padding included.                                                          *)
StoreStaysInside ==
  memory # <<>> =>
    \A b \in DOMAIN memory :
      memory'[b] # memory[b] =>
        \E i \in Accessible :
          LET m == rec.members[i]
          IN /\ memory'[b] = Bit(i, b - (m.offset * 8 + m.bit_offset), "stored")
             /\ b - (m.offset * 8 + m.bit_offset) \in 0..(BitsOf(m) - 1)
StoresStayInside == [][StoreStaysInside]_recVars

=============================================================================
