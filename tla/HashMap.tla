------------------------------- MODULE HashMap -------------------------------
(***************************************************************************)
(* The open-addressing hash table of hashmap.c: every symbol, tag, macro,  *)
(* include guard and label of the compiler is found through one.           *)
(*                                                                         *)
(* The probe loops have no bound and the copy loop of rehash calls the     *)
(* insertion that may itself ask for a rehash, so the steps of the loops   *)
(* are actions: each visit of a bucket, each doubling, each entry copied.  *)
(* A name is its bytes and length together.                                *)
(***************************************************************************)
EXTENDS Integers, FiniteSets

CONSTANTS
  Key, Val, NULL,
  Hash,             \* the 64-bit fnv_hash of each name
  TOMBSTONE,
  INIT_SIZE, HIGH_WATERMARK, LOW_WATERMARK

\* The calls: hashmap_put2, hashmap_get2 and hashmap_delete2, and a caller of
\* hashmap_get_or_insert that fills in the value when it finds none.
Request == [kind : {"put", "intern"}, key : Key, val : Val]
           \cup [kind : {"get", "delete"}, key : Key, val : {NULL}]

ASSUME MapConstants ==
  /\ NULL \notin Key /\ TOMBSTONE \notin Key /\ TOMBSTONE # NULL
  /\ NULL \notin Val /\ NULL \notin Request
  /\ \A k \in Key : Hash[k] \in Nat
  /\ INIT_SIZE \in Nat /\ INIT_SIZE >= 4
  /\ HIGH_WATERMARK \in 50 .. 75 /\ LOW_WATERMARK \in 1 .. HIGH_WATERMARK

VARIABLES
  buckets, capacity, used,       \* *map; capacity 0: nothing allocated yet
  buckets2, capacity2, used2,    \* map2 of rehash
  ri,        \* the loop variable of rehash
  probe,     \* how often hash was incremented in the probe loop
  pc, op,    \* the call in progress and where it is
  ret        \* what the call that just returned returned

vars == <<buckets, capacity, used, buckets2, capacity2, used2, ri, probe, pc,
          op, ret>>
map2_vars == <<buckets2, capacity2, used2, ri>>

\* calloc leaves an unused entry without a key and without a value.
Entry == {e \in [key : Key \cup {NULL, TOMBSTONE}, val : Val \cup {NULL}] :
            e.key = NULL => e.val = NULL}
Calloc(n) == [b \in 0 .. n - 1 |-> [key |-> NULL, val |-> NULL]]

\* hash++ & msk after i increments; capacities are powers of two in the code.
Bucket(k, i, cap) == (Hash[k] + i) % cap

Live(bs) == {b \in DOMAIN bs : bs[b].key \in Key}
nkeys == Cardinality(Live(buckets))

Percent(n, cap) == (n * 100) \div cap

Init ==
  /\ buckets = <<>> /\ capacity = 0 /\ used = 0
  /\ buckets2 = <<>> /\ capacity2 = 0 /\ used2 = 0
  /\ ri = 0 /\ probe = 0
  /\ pc = "idle" /\ op = NULL /\ ret = NULL

Call(o) ==
  /\ pc = "idle"
  /\ pc' = "start" /\ op' = o /\ ret' = NULL
  /\ UNCHANGED <<buckets, capacity, used, map2_vars, probe>>

Return(v) == pc' = "idle" /\ op' = NULL /\ ret' = v /\ probe' = 0

StartProbe == pc' = "probe" /\ probe' = 0 /\ UNCHANGED <<op, ret>>

-----------------------------------------------------------------------------
(* The beginnings of get_entry and hashmap_get_or_insert *)

IsLookup == op.kind \in {"get", "delete"}

LookupNothing ==
  /\ pc = "start" /\ IsLookup /\ capacity = 0
  /\ Return(NULL)
  /\ UNCHANGED <<buckets, capacity, used, map2_vars>>

Lookup ==
  /\ pc = "start" /\ IsLookup /\ capacity # 0
  /\ StartProbe
  /\ UNCHANGED <<buckets, capacity, used, map2_vars>>

Allocate ==
  /\ pc = "start" /\ ~IsLookup /\ capacity = 0
  /\ buckets' = Calloc(INIT_SIZE) /\ capacity' = INIT_SIZE
  /\ StartProbe
  /\ UNCHANGED <<used, map2_vars>>

TooFull == Percent(used, capacity) >= HIGH_WATERMARK

InsertDirectly ==
  /\ pc = "start" /\ ~IsLookup /\ capacity # 0 /\ ~TooFull
  /\ StartProbe
  /\ UNCHANGED <<buckets, capacity, used, map2_vars>>

-----------------------------------------------------------------------------
(* rehash *)

RehashFirst ==
  /\ pc = "start" /\ ~IsLookup /\ capacity # 0 /\ TooFull
  /\ pc' = "grow" /\ capacity2' = capacity
  /\ UNCHANGED <<buckets, capacity, used, buckets2, used2, ri, probe, op, ret>>

Double ==
  /\ pc = "grow" /\ Percent(nkeys, capacity2) >= LOW_WATERMARK
  /\ capacity2' = capacity2 * 2
  /\ UNCHANGED <<buckets, capacity, used, buckets2, used2, ri, probe, pc, op, ret>>

NewMap ==
  /\ pc = "grow" /\ Percent(nkeys, capacity2) < LOW_WATERMARK
  /\ buckets2' = Calloc(capacity2) /\ used2' = 0
  /\ ri' = 0 /\ pc' = "copy"
  /\ UNCHANGED <<buckets, capacity, used, capacity2, probe, op, ret>>

CopySkip ==
  /\ pc = "copy" /\ ri < capacity /\ buckets[ri].key \notin Key
  /\ ri' = ri + 1
  /\ UNCHANGED <<buckets, capacity, used, buckets2, capacity2, used2, probe,
                 pc, op, ret>>

CopyEntry ==
  /\ pc = "copy" /\ ri < capacity /\ buckets[ri].key \in Key
  /\ pc' = "place" /\ probe' = 0
  /\ UNCHANGED <<buckets, capacity, used, map2_vars, op, ret>>

\* hashmap_put2 on map2, which is not rehashed on the way: see RehashFits.
Probe2 == Bucket(buckets[ri].key, probe, capacity2)

PlaceNext ==
  /\ pc = "place" /\ buckets2[Probe2].key \notin {NULL, buckets[ri].key}
  /\ probe' = probe + 1
  /\ UNCHANGED <<buckets, capacity, used, map2_vars, pc, op, ret>>

PlaceEntry_StaysAt ==
  /\ pc = "place" /\ buckets2[Probe2].key \in {NULL, buckets[ri].key}
  /\ buckets2' = [buckets2 EXCEPT ![Probe2] = buckets[ri]]
  /\ used2' = used2 + (IF buckets2[Probe2].key = NULL THEN 1 ELSE 0)
  /\ ri' = ri /\ pc' = "copy" /\ probe' = 0
  /\ UNCHANGED <<buckets, capacity, used, capacity2, op, ret>>
PlaceEntry ==
  /\ pc = "place" /\ buckets2[Probe2].key \in {NULL, buckets[ri].key}
  /\ buckets2' = [buckets2 EXCEPT ![Probe2] = buckets[ri]]
  /\ used2' = used2 + (IF buckets2[Probe2].key = NULL THEN 1 ELSE 0)
  /\ ri' = ri + 1 /\ pc' = "copy" /\ probe' = 0
  /\ UNCHANGED <<buckets, capacity, used, capacity2, op, ret>>

Install ==
  /\ pc = "copy" /\ ri = capacity
  /\ buckets' = buckets2 /\ capacity' = capacity2 /\ used' = used2
  /\ buckets2' = <<>> /\ capacity2' = 0 /\ used2' = 0 /\ ri' = 0
  /\ StartProbe

-----------------------------------------------------------------------------
(* The probe loops *)

Ent == buckets[Bucket(op.key, probe, capacity)]

\* Neither unused nor the name: a tombstone or another name.
ProbeNext ==
  /\ pc = "probe" /\ Ent.key \notin {NULL, op.key}
  /\ probe' = probe + 1
  /\ UNCHANGED <<buckets, capacity, used, map2_vars, pc, op, ret>>

LookupMiss ==
  /\ pc = "probe" /\ IsLookup /\ Ent.key = NULL
  /\ Return(NULL)
  /\ UNCHANGED <<buckets, capacity, used, map2_vars>>

Get ==
  /\ pc = "probe" /\ op.kind = "get" /\ Ent.key = op.key
  /\ Return(Ent.val)
  /\ UNCHANGED <<buckets, capacity, used, map2_vars>>

Delete_Empties ==
  /\ pc = "probe" /\ op.kind = "delete" /\ Ent.key = op.key
  /\ buckets' = [buckets EXCEPT ![Bucket(op.key, probe, capacity)] =
                   [key |-> NULL, val |-> NULL]]
  /\ Return(NULL)
  /\ UNCHANGED <<capacity, used, map2_vars>>
Delete_FreesRoom ==
  /\ pc = "probe" /\ op.kind = "delete" /\ Ent.key = op.key
  /\ buckets' = [buckets EXCEPT ![Bucket(op.key, probe, capacity)].key = TOMBSTONE]
  /\ used' = used - 1
  /\ Return(NULL)
  /\ UNCHANGED <<capacity, map2_vars>>
Delete ==
  /\ pc = "probe" /\ op.kind = "delete" /\ Ent.key = op.key
  /\ buckets' = [buckets EXCEPT ![Bucket(op.key, probe, capacity)].key = TOMBSTONE]
  /\ Return(NULL)
  /\ UNCHANGED <<capacity, used, map2_vars>>

\* hashmap_get_or_insert hands out the entry, new or found; a put stores its
\* value in it, an intern only if there is none.
Insert ==
  /\ pc = "probe" /\ ~IsLookup /\ Ent.key \in {NULL, op.key}
  /\ buckets' = [buckets EXCEPT ![Bucket(op.key, probe, capacity)] =
                   [key |-> op.key,
                    val |-> IF op.kind = "intern" /\ @.val # NULL
                            THEN @.val ELSE op.val]]
  /\ used' = used + (IF Ent.key = NULL THEN 1 ELSE 0)
  /\ Return(IF op.kind = "intern" THEN Ent.val ELSE NULL)
  /\ UNCHANGED <<capacity, map2_vars>>

-----------------------------------------------------------------------------
Step ==
  \/ LookupNothing \/ Lookup \/ Allocate \/ InsertDirectly
  \/ RehashFirst \/ Double \/ NewMap
  \/ CopySkip \/ CopyEntry \/ PlaceNext \/ PlaceEntry \/ Install
  \/ ProbeNext \/ LookupMiss \/ Get \/ Delete \/ Insert

Next == (\E o \in Request : Call(o)) \/ Step

\* A call is an ordinary function call: it keeps running until it returns.
Spec == Init /\ [][Next]_vars /\ WF_vars(Step)

-----------------------------------------------------------------------------
(* Properties *)

Tables(bs, cap) == bs \in [0 .. cap - 1 -> Entry]

\* Buckets, counters and the call in progress are well formed; an entry
\* without a key has no value, which hashmap_get_or_insert's callers take for
\* "not there yet".
TypeOK ==
  /\ capacity \in Nat /\ used \in Nat /\ Tables(buckets, capacity)
  /\ capacity2 \in Nat /\ used2 \in Nat
  /\ pc \in {"copy", "place"} => Tables(buckets2, capacity2)
  /\ ri \in Nat /\ probe \in Nat
  /\ pc \in {"idle", "start", "grow", "copy", "place", "probe"}
  /\ pc = "idle" => op = NULL
  /\ pc # "idle" => op \in Request
  /\ ret \in Val \cup {NULL}

\* A name is stored once.
StoredOnce(bs) == \A b, c \in Live(bs) : bs[b].key = bs[c].key => b = c

\* used counts the buckets that end no probe, and one is always left to end
\* it.  The copy loop never asks for a rehash of map2, and the assertion
\* map2.used == nkeys at its end holds.
Occupied(bs) == {b \in DOMAIN bs : bs[b].key # NULL}
RehashFits ==
  /\ used = Cardinality(Occupied(buckets))
  /\ capacity > 0 => used < capacity
  /\ pc \in {"copy", "place"} => /\ Percent(used2, capacity2) < HIGH_WATERMARK
                                 /\ used2 < capacity2
  /\ pc = "copy" /\ ri = capacity => used2 = nkeys

\* The table is the map its callers take it for: each call has the effect and
\* the result of the abstract operation, at one step (hashmap_put2,
\* hashmap_get2, hashmap_delete2, hashmap_get_or_insert).
Holders(bs, k) == {b \in Live(bs) : bs[b].key = k}
ContentsOf(bs) ==
  [k \in Key |-> IF Holders(bs, k) = {} THEN NULL
                 ELSE bs[CHOOSE b \in Holders(bs, k) : TRUE].val]
Abs == INSTANCE AbstractMap WITH dict <- ContentsOf(buckets)
IsAMap == Abs!Spec

\* Every call returns: the probe loops and rehash's loops end, however many
\* tombstones there are.
CallsReturn == op # NULL ~> op = NULL

=============================================================================
