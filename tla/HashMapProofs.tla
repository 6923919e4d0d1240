---------------------------- MODULE HashMapProofs ----------------------------
(***************************************************************************)
(* HashMap implements AbstractMap, for all sets of names and values, every *)
(* hash function and every initial size.                                   *)
(*                                                                         *)
(* The argument is about distances: a name stored in a table lies at some  *)
(* distance from its hash with no unused bucket on the way (Reached), and  *)
(* a probe has seen neither an unused bucket nor its name so far (Probed). *)
(* Together they make a probe that ends at an unused bucket the proof that *)
(* the name is not in the table.  While rehash copies, map2 holds exactly  *)
(* the names of the buckets before ri (Copied).                            *)
(***************************************************************************)
EXTENDS HashMap, FiniteSetTheorems, TLAPS

Reached(bs, cap) ==
  \A b \in Live(bs) : \E d \in Nat :
    /\ Bucket(bs[b].key, d, cap) = b
    /\ \A j \in 0 .. d - 1 : bs[Bucket(bs[b].key, j, cap)].key # NULL

Table(bs, cap) == Tables(bs, cap) /\ Reached(bs, cap) /\ StoredOnce(bs)

Probed(bs, cap, k) ==
  \A j \in 0 .. probe - 1 : bs[Bucket(k, j, cap)].key \notin {NULL, k}

Copied ==
  /\ \A b \in Live(buckets) : b < ri =>
       \E c \in Live(buckets2) : buckets2[c] = buckets[b]
  /\ \A c \in Live(buckets2) :
       \E b \in Live(buckets) : b < ri /\ buckets[b] = buckets2[c]

\* The table bs with entry e in bucket s, and what a table differs in when one
\* name was stored in bucket s or removed from it.
Put(bs, s, e) == [bs EXCEPT ![s] = e]
StoredAt(bs, bs2, s, k) ==
  /\ Live(bs2) = Live(bs) \cup {s}
  /\ bs2[s].key = k
  /\ s \in Live(bs) => bs[s].key = k
  /\ \A b \in Live(bs) : b # s => bs2[b] = bs[b] /\ bs[b].key # k
RemovedAt(bs, bs2, s) ==
  Live(bs2) = Live(bs) \ {s} /\ \A b \in Live(bs2) : bs2[b] = bs[b]

Copying == pc \in {"copy", "place"}

IndInv ==
  /\ TypeOK
  /\ Table(buckets, capacity)
  /\ pc \in {"grow", "copy", "place", "probe"} => capacity > 0
  /\ pc = "grow" => capacity2 > 0
  /\ pc \in {"grow", "copy", "place"} => ~IsLookup
  /\ pc = "probe" => Probed(buckets, capacity, op.key)
  /\ Copying => Table(buckets2, capacity2) /\ capacity2 > 0 /\ ri <= capacity /\ Copied
  /\ pc = "place" => /\ ri < capacity /\ buckets[ri].key \in Key
                     /\ Probed(buckets2, capacity2, buckets[ri].key)

-----------------------------------------------------------------------------
(* Facts about tables *)

\* A probe stays inside the table.
LEMMA BucketInTable ==
  ASSUME NEW k \in Key, NEW i \in Nat, NEW cap \in Nat, cap > 0
  PROVE  Bucket(k, i, cap) \in 0 .. cap - 1
<1>1. Hash[k] + i \in Nat
  BY MapConstants
<1>2. \A n, m \in Nat : m > 0 => n % m \in 0 .. m - 1
  OBVIOUS
<1>3. QED
  BY <1>1, <1>2 DEF Bucket

LEMMA KeyFacts == NULL \notin Key /\ TOMBSTONE \notin Key /\ TOMBSTONE # NULL /\ NULL \notin Val
  BY MapConstants

LEMMA LiveFacts ==
  ASSUME NEW bs, NEW cap \in Nat, Tables(bs, cap)
  PROVE  /\ DOMAIN bs = 0 .. cap - 1
         /\ \A b \in Live(bs) : b \in 0 .. cap - 1 /\ bs[b].key \in Key
         /\ \A b \in 0 .. cap - 1 : bs[b] \in Entry /\ (bs[b].key \in Key => b \in Live(bs))
  BY DEF Tables, Live

\* A table just allocated.
LEMMA CallocTable ==
  ASSUME NEW cap \in Nat
  PROVE  Table(Calloc(cap), cap) /\ Live(Calloc(cap)) = {}
<1>1. Tables(Calloc(cap), cap)
  BY DEF Tables, Calloc, Entry
<1>2. Live(Calloc(cap)) = {}
  BY KeyFacts DEF Live, Calloc
<1>3. QED
  BY <1>1, <1>2 DEF Table, Reached, StoredOnce

\* A probe that ends at an unused bucket has proved that no bucket holds the
\* name.
LEMMA Miss ==
  ASSUME NEW bs, NEW cap \in Nat, cap > 0, Table(bs, cap), NEW k \in Key,
         probe \in Nat, Probed(bs, cap, k), bs[Bucket(k, probe, cap)].key = NULL
  PROVE  \A b \in Live(bs) : bs[b].key # k
<1> SUFFICES ASSUME NEW b \in Live(bs), bs[b].key = k
             PROVE  FALSE
  OBVIOUS
<1>1. PICK d \in Nat : /\ Bucket(k, d, cap) = b
                       /\ \A j \in 0 .. d - 1 : bs[Bucket(k, j, cap)].key # NULL
  BY DEF Table, Reached
<1>2. CASE d < probe
  <2>1. d \in 0 .. probe - 1
    BY <1>2
  <2>2. bs[Bucket(k, d, cap)].key # k
    BY <2>1 DEF Probed
  <2>3. QED
    BY <2>2, <1>1
<1>3. CASE d = probe
  BY <1>1, <1>3, KeyFacts
<1>4. CASE d > probe
  <2>1. probe \in 0 .. d - 1
    BY <1>4
  <2>2. QED
    BY <2>1, <1>1
<1>5. QED
  BY <1>2, <1>3, <1>4

\* Storing an entry where the probe for its name ended keeps the table, and
\* changes the value of that name alone.
LEMMA Store ==
  ASSUME NEW bs, NEW cap \in Nat, cap > 0, Table(bs, cap), NEW k \in Key,
         probe \in Nat, Probed(bs, cap, k), NEW e \in Entry, e.key = k,
         NEW s, s = Bucket(k, probe, cap), bs[s].key \in {NULL, k},
         NEW bs2, bs2 = Put(bs, s, e)
  PROVE  Table(bs2, cap) /\ bs2[s] = e /\ StoredAt(bs, bs2, s, k)
<1> USE DEF Put
<1>1. s \in 0 .. cap - 1
  BY BucketInTable
<1>2. /\ Tables(bs, cap) /\ Reached(bs, cap) /\ StoredOnce(bs)
      /\ DOMAIN bs = 0 .. cap - 1
      /\ \A b \in 0 .. cap - 1 : bs[b] \in Entry
  BY LiveFacts DEF Table
<1>3. /\ Tables(bs2, cap) /\ bs2[s] = e
      /\ \A b \in 0 .. cap - 1 : b # s => bs2[b] = bs[b]
  BY <1>1, <1>2 DEF Tables
<1>4. Live(bs2) = Live(bs) \cup {s}
  BY <1>1, <1>2, <1>3 DEF Live, Tables
<1>5. \A b \in Live(bs) : b # s => bs[b].key # k
  <2>1. CASE bs[s].key = NULL
    BY <2>1, Miss
  <2>2. CASE bs[s].key = k
    <3>1. s \in Live(bs)
      BY <1>1, <1>2, <2>2 DEF Live
    <3>2. QED
      BY <3>1, <2>2, <1>2 DEF StoredOnce
  <2>3. QED
    BY <2>1, <2>2
<1>6. \A b \in 0 .. cap - 1 : bs[b].key # NULL => bs2[b].key # NULL
  BY <1>2, <1>3, KeyFacts
<1>7. Reached(bs2, cap)
  <2> SUFFICES ASSUME NEW b \in Live(bs2)
               PROVE  \E d \in Nat :
                        /\ Bucket(bs2[b].key, d, cap) = b
                        /\ \A j \in 0 .. d - 1 : bs2[Bucket(bs2[b].key, j, cap)].key # NULL
    BY DEF Reached
  <2>1. CASE b = s
    <3>1. bs2[b].key = k
      BY <2>1, <1>3
    <3>2. \A j \in 0 .. probe - 1 : bs2[Bucket(k, j, cap)].key # NULL
      <4> SUFFICES ASSUME NEW j \in 0 .. probe - 1
                   PROVE  bs2[Bucket(k, j, cap)].key # NULL
        OBVIOUS
      <4>1. Bucket(k, j, cap) \in 0 .. cap - 1
        BY BucketInTable
      <4>2. bs[Bucket(k, j, cap)].key # NULL
        BY DEF Probed
      <4>3. QED
        BY <4>1, <4>2, <1>6
    <3>3. QED
      BY <2>1, <3>1, <3>2
  <2>2. CASE b # s
    <3>1. b \in Live(bs) /\ b \in 0 .. cap - 1 /\ bs2[b] = bs[b] /\ bs[b].key \in Key
      BY <2>2, <1>2, <1>3, <1>4 DEF Live
    <3>2. PICK d \in Nat : /\ Bucket(bs[b].key, d, cap) = b
                           /\ \A j \in 0 .. d - 1 : bs[Bucket(bs[b].key, j, cap)].key # NULL
      BY <3>1, <1>2 DEF Reached
    <3>3. \A j \in 0 .. d - 1 : bs2[Bucket(bs[b].key, j, cap)].key # NULL
      <4> SUFFICES ASSUME NEW j \in 0 .. d - 1
                   PROVE  bs2[Bucket(bs[b].key, j, cap)].key # NULL
        OBVIOUS
      <4>1. Bucket(bs[b].key, j, cap) \in 0 .. cap - 1
        BY BucketInTable, <3>1
      <4>2. QED
        BY <4>1, <3>2, <1>6
    <3>4. QED
      BY <3>1, <3>2, <3>3
  <2>3. QED
    BY <2>1, <2>2
<1>8. StoredOnce(bs2)
  <2> SUFFICES ASSUME NEW b \in Live(bs2), NEW c \in Live(bs2), bs2[b].key = bs2[c].key
               PROVE  b = c
    BY DEF StoredOnce
  <2>1. CASE b = s \/ c = s
    BY <2>1, <1>2, <1>3, <1>4, <1>5 DEF Live
  <2>2. CASE b # s /\ c # s
    BY <2>2, <1>2, <1>3, <1>4 DEF Live, StoredOnce
  <2>3. QED
    BY <2>1, <2>2
<1>9. \A b \in Live(bs) : b # s => bs2[b] = bs[b]
  BY <1>2, <1>3 DEF Live
<1>10. QED
  <2>1. s \in Live(bs) => bs[s].key = k
    BY KeyFacts DEF Live
  <2>2. QED
    BY <2>1, <1>3, <1>4, <1>5, <1>7, <1>8, <1>9 DEF Table, StoredAt

\* So does turning an entry into a tombstone.
LEMMA Bury ==
  ASSUME NEW bs, NEW cap \in Nat, cap > 0, Table(bs, cap), NEW s \in Live(bs),
         NEW e \in Entry, e.key = TOMBSTONE, NEW bs2, bs2 = Put(bs, s, e)
  PROVE  Table(bs2, cap) /\ RemovedAt(bs, bs2, s)
<1> USE DEF Put
<1>1. /\ Tables(bs, cap) /\ Reached(bs, cap) /\ StoredOnce(bs)
      /\ DOMAIN bs = 0 .. cap - 1 /\ s \in 0 .. cap - 1 /\ bs[s].key \in Key
      /\ \A b \in 0 .. cap - 1 : bs[b] \in Entry
  BY LiveFacts DEF Table
<1>3. bs2[s] \in Entry /\ bs2[s].key = TOMBSTONE
  BY <1>1
<1>4. /\ Tables(bs2, cap)
      /\ \A b \in 0 .. cap - 1 : b # s => bs2[b] = bs[b]
  BY <1>1, <1>3 DEF Tables
<1>5. Live(bs2) = Live(bs) \ {s}
  BY <1>1, <1>3, <1>4, KeyFacts DEF Live, Tables
<1>6. \A b \in 0 .. cap - 1 : bs[b].key # NULL => bs2[b].key # NULL
  BY <1>1, <1>3, <1>4, KeyFacts
<1>7. \A b \in Live(bs2) : bs2[b] = bs[b] /\ b \in Live(bs) /\ bs[b].key \in Key
  BY <1>1, <1>4, <1>5 DEF Live
<1>8. Reached(bs2, cap)
  <2> SUFFICES ASSUME NEW b \in Live(bs2)
               PROVE  \E d \in Nat :
                        /\ Bucket(bs2[b].key, d, cap) = b
                        /\ \A j \in 0 .. d - 1 : bs2[Bucket(bs2[b].key, j, cap)].key # NULL
    BY DEF Reached
  <2>0. bs[b].key \in Key /\ b \in Live(bs)
    BY <1>7
  <2>1. PICK d \in Nat : /\ Bucket(bs[b].key, d, cap) = b
                         /\ \A j \in 0 .. d - 1 : bs[Bucket(bs[b].key, j, cap)].key # NULL
    BY <2>0, <1>1 DEF Reached
  <2>2. ASSUME NEW j \in 0 .. d - 1
        PROVE  bs2[Bucket(bs[b].key, j, cap)].key # NULL
    <3>1. Bucket(bs[b].key, j, cap) \in 0 .. cap - 1
      BY BucketInTable, <2>0
    <3>2. bs[Bucket(bs[b].key, j, cap)].key # NULL
      BY <2>1
    <3>3. QED
      BY <3>1, <3>2, <1>6
  <2>3. bs2[b].key = bs[b].key
    BY <1>7
  <2>4. QED
    BY <2>1, <2>2, <2>3
<1>9. StoredOnce(bs2)
  <2>1. StoredOnce(bs) /\ \A b \in Live(bs2) : b \in Live(bs) /\ bs2[b] = bs[b]
    BY <1>1, <1>7
  <2>2. QED
    BY <2>1 DEF StoredOnce
<1>10. QED
  BY <1>4, <1>5, <1>7, <1>8, <1>9 DEF Table, RemovedAt

-----------------------------------------------------------------------------
(* What a table contains *)

LEMMA ContentsAt ==
  ASSUME NEW bs, StoredOnce(bs), NEW b \in Live(bs)
  PROVE  bs[b].key \in Key /\ ContentsOf(bs)[bs[b].key] = bs[b].val
<1> DEFINE k == bs[b].key
<1>1. k \in Key
  BY DEF Live
<1>2. Holders(bs, k) = {b}
  BY DEF Holders, StoredOnce
<1>3. (CHOOSE c \in Holders(bs, k) : TRUE) = b
  BY <1>2
<1>4. QED
  BY <1>1, <1>2, <1>3 DEF ContentsOf

LEMMA ContentsNone ==
  ASSUME NEW bs, NEW k \in Key, \A b \in Live(bs) : bs[b].key # k
  PROVE  ContentsOf(bs)[k] = NULL
  BY DEF ContentsOf, Holders

\* Two tables with the same names and values have the same contents.
LEMMA SameContents ==
  ASSUME NEW bs, NEW bs2, StoredOnce(bs), StoredOnce(bs2),
         \A b \in Live(bs) : \E c \in Live(bs2) : bs2[c] = bs[b],
         \A c \in Live(bs2) : \E b \in Live(bs) : bs[b] = bs2[c]
  PROVE  ContentsOf(bs2) = ContentsOf(bs)
<1> SUFFICES ASSUME NEW k \in Key
             PROVE  ContentsOf(bs2)[k] = ContentsOf(bs)[k]
  BY DEF ContentsOf
<1>1. CASE \E b \in Live(bs) : bs[b].key = k
  <2>1. PICK b \in Live(bs) : bs[b].key = k
    BY <1>1
  <2>2. PICK c \in Live(bs2) : bs2[c] = bs[b]
    OBVIOUS
  <2>3. QED
    BY <2>1, <2>2, ContentsAt
<1>2. CASE \A b \in Live(bs) : bs[b].key # k
  <2>1. \A c \in Live(bs2) : bs2[c].key # k
    BY <1>2
  <2>2. QED
    BY <1>2, <2>1, ContentsNone
<1>3. QED
  BY <1>1, <1>2

\* What Store does to the contents.
LEMMA StoreContents ==
  ASSUME NEW bs, NEW bs2, NEW s, NEW k \in Key, StoredOnce(bs), StoredOnce(bs2),
         StoredAt(bs, bs2, s, k)
  PROVE  ContentsOf(bs2) = [ContentsOf(bs) EXCEPT ![k] = bs2[s].val]
<1> USE DEF StoredAt
<1>1. ContentsOf(bs2)[k] = bs2[s].val
  BY ContentsAt
<1>2. ASSUME NEW x \in Key, x # k
      PROVE  ContentsOf(bs2)[x] = ContentsOf(bs)[x]
  <2>1. CASE \E b \in Live(bs) : bs[b].key = x
    <3>1. PICK b \in Live(bs) : bs[b].key = x
      BY <2>1
    <3>2. b # s /\ b \in Live(bs2) /\ bs2[b] = bs[b]
      BY <3>1, <1>2
    <3>3. QED
      BY <3>1, <3>2, ContentsAt
  <2>2. CASE \A b \in Live(bs) : bs[b].key # x
    <3>1. \A b \in Live(bs2) : bs2[b].key # x
      BY <2>2, <1>2
    <3>2. QED
      BY <2>2, <3>1, ContentsNone
  <2>3. QED
    BY <2>1, <2>2
<1>3. DOMAIN ContentsOf(bs) = Key /\ DOMAIN ContentsOf(bs2) = Key
  BY DEF ContentsOf
<1>4. QED
  <2> DEFINE f == ContentsOf(bs)  g == ContentsOf(bs2)
  <2>1. f = [x \in Key |-> f[x]] /\ g = [x \in Key |-> g[x]]
    BY DEF ContentsOf
  <2>2. QED
    BY <1>1, <1>2, <1>3, <2>1

\* What Bury does to the contents.
LEMMA BuryContents ==
  ASSUME NEW bs, NEW bs2, NEW s \in Live(bs), StoredOnce(bs), StoredOnce(bs2),
         RemovedAt(bs, bs2, s)
  PROVE  ContentsOf(bs2) = [ContentsOf(bs) EXCEPT ![bs[s].key] = NULL]
<1> USE DEF RemovedAt
<1> DEFINE k == bs[s].key
<1>0. k \in Key
  BY DEF Live
<1>1. ContentsOf(bs2)[k] = NULL
  <2>1. \A b \in Live(bs2) : bs2[b].key # k
    BY DEF StoredOnce
  <2>2. QED
    BY <1>0, <2>1, ContentsNone
<1>2. ASSUME NEW x \in Key, x # k
      PROVE  ContentsOf(bs2)[x] = ContentsOf(bs)[x]
  <2>1. CASE \E b \in Live(bs) : bs[b].key = x
    <3>1. PICK b \in Live(bs) : bs[b].key = x
      BY <2>1
    <3>2. b # s /\ b \in Live(bs2) /\ bs2[b] = bs[b]
      BY <3>1, <1>2
    <3>3. QED
      BY <3>1, <3>2, ContentsAt
  <2>2. CASE \A b \in Live(bs) : bs[b].key # x
    <3>1. \A b \in Live(bs2) : bs2[b].key # x
      BY <2>2
    <3>2. QED
      BY <2>2, <3>1, ContentsNone
  <2>3. QED
    BY <2>1, <2>2
<1>3. DOMAIN ContentsOf(bs) = Key /\ DOMAIN ContentsOf(bs2) = Key
  BY DEF ContentsOf
<1>4. QED
  <2> DEFINE f == ContentsOf(bs)  g == ContentsOf(bs2)
  <2>1. f = [x \in Key |-> f[x]] /\ g = [x \in Key |-> g[x]]
    BY DEF ContentsOf
  <2>2. QED
    BY <1>0, <1>1, <1>2, <1>3, <2>1

LEMMA ExceptSame ==
  ASSUME NEW bs, NEW k \in Key, NEW v, v = ContentsOf(bs)[k]
  PROVE  ContentsOf(bs) = [ContentsOf(bs) EXCEPT ![k] = v]
  BY SMTT(30) DEF ContentsOf

-----------------------------------------------------------------------------
(* The invariant and the refinement, one lemma per group of actions *)

LEMMA InitInd == Init => IndInv /\ Abs!Init
<1> SUFFICES ASSUME Init PROVE IndInv /\ Abs!Init
  OBVIOUS
<1>1. <<>> \in [0 .. 0 - 1 -> Entry] /\ Live(<<>>) = {}
  BY DEF Live
<1>2. TypeOK
  BY <1>1 DEF Init, TypeOK, Tables
<1>3. Table(buckets, capacity)
  BY <1>1 DEF Init, Table, Tables, Reached, StoredOnce
<1>4. IndInv
  BY <1>2, <1>3 DEF Init, IndInv, Copying
<1>5. ContentsOf(buckets) = [k \in Key |-> NULL]
  BY <1>1 DEF Init, ContentsOf, Holders
<1>6. Abs!Init
  BY <1>5 DEF Init, Abs!Init
<1>7. QED
  BY <1>4, <1>6

\* The table is not touched and no probe goes on.
LEMMA QuietSteps ==
  ASSUME IndInv, \/ \E o \in Request : Call(o)
                 \/ Lookup \/ InsertDirectly \/ RehashFirst \/ Double
                 \/ NewMap \/ CopySkip \/ CopyEntry \/ ProbeNext \/ PlaceNext
  PROVE  IndInv'
<1> USE DEF IndInv
<1>1. CASE \E o \in Request : Call(o)
  BY <1>1 DEF Call, map2_vars, TypeOK, Table, Reached, Copying, Tables
<1>2. CASE Lookup
  BY <1>2 DEF Lookup, StartProbe, map2_vars, TypeOK, Probed, Copying, IsLookup
<1>3. CASE InsertDirectly
  BY <1>3 DEF InsertDirectly, StartProbe, map2_vars, TypeOK, Probed, Copying, IsLookup
<1>4. CASE RehashFirst
  BY <1>4 DEF RehashFirst, TypeOK, Copying, IsLookup
<1>5. CASE Double
  BY <1>5 DEF Double, TypeOK, Copying, IsLookup
<1>6. CASE NewMap
  <2>1. Table(Calloc(capacity2), capacity2) /\ Live(Calloc(capacity2)) = {}
    BY CallocTable DEF TypeOK
  <2>2. pc' = "copy" /\ ri' = 0 /\ buckets2' = Calloc(capacity2) /\ used2' = 0
        /\ UNCHANGED <<buckets, capacity, used, capacity2, probe, op, ret>> /\ pc = "grow"
    BY <1>6 DEF NewMap
  <2>3. TypeOK'
    BY <2>1, <2>2 DEF TypeOK, Table
  <2>4. Copied'
    BY <2>1, <2>2, LiveFacts DEF Copied, TypeOK
  <2>5. Table(buckets, capacity)' /\ Table(buckets2, capacity2)' /\ capacity2' > 0
    BY <2>1, <2>2
  <2>6. ri' <= capacity' /\ ~IsLookup'
    BY <2>2 DEF TypeOK, IsLookup
  <2>7. QED
    BY <2>2, <2>3, <2>4, <2>5, <2>6 DEF Copying
<1>7. CASE CopySkip
  <2>1. TypeOK' /\ pc' = "copy" /\ ri' = ri + 1 /\ ri' <= capacity
    BY <1>7 DEF CopySkip, TypeOK
  <2>2. ri \notin Live(buckets) /\ \A b \in Live(buckets) : b \in Nat
    BY <1>7, LiveFacts DEF CopySkip, TypeOK, Live
  <2>3. \A b \in Live(buckets) : b < ri' <=> b < ri
    BY <2>1, <2>2 DEF TypeOK
  <2>4. Copied'
    BY <1>7, <2>3 DEF CopySkip, Copied, Copying
  <2>5. QED
    BY <1>7, <2>1, <2>4 DEF CopySkip, Copying, IsLookup
<1>8. CASE CopyEntry
  <2>1. TypeOK' /\ pc' = "place" /\ probe' = 0
    BY <1>8 DEF CopyEntry, TypeOK, map2_vars
  <2>2. Copied'
    BY <1>8 DEF CopyEntry, Copied, Copying, map2_vars
  <2>3. Probed(buckets2, capacity2, buckets[ri].key)'
    BY <2>1 DEF Probed
  <2>4. QED
    BY <1>8, <2>1, <2>2, <2>3 DEF CopyEntry, Copying, IsLookup, map2_vars
<1>9. CASE ProbeNext
  <2>1. TypeOK' /\ pc = "probe" /\ pc' = "probe" /\ probe' = probe + 1
    BY <1>9 DEF ProbeNext, TypeOK, map2_vars
  <2>2. Probed(buckets, capacity, op.key)'
    <3>1. \A j \in 0 .. probe' - 1 : j \in 0 .. probe - 1 \/ j = probe
      BY <2>1 DEF TypeOK
    <3>2. QED
      BY <1>9, <2>1, <3>1 DEF ProbeNext, Probed, Ent
  <2>3. QED
    BY <1>9, <2>1, <2>2 DEF ProbeNext, Copying, map2_vars
<1>10. CASE PlaceNext
  <2>1. TypeOK' /\ pc = "place" /\ pc' = "place" /\ probe' = probe + 1
    BY <1>10 DEF PlaceNext, TypeOK, map2_vars
  <2>2. Probed(buckets2, capacity2, buckets[ri].key)'
    <3>1. \A j \in 0 .. probe' - 1 : j \in 0 .. probe - 1 \/ j = probe
      BY <2>1 DEF TypeOK
    <3>2. QED
      BY <1>10, <2>1, <3>1 DEF PlaceNext, Probed, Probe2, map2_vars
  <2>3. Copied'
    BY <1>10 DEF PlaceNext, Copied, Copying, map2_vars
  <2>4. QED
    BY <1>10, <2>1, <2>2, <2>3 DEF PlaceNext, Copying, IsLookup, map2_vars
<1>11. QED
  BY <1>1, <1>2, <1>3, <1>4, <1>5, <1>6, <1>7, <1>8, <1>9, <1>10

LEMMA ReturnSteps ==
  ASSUME IndInv, LookupNothing \/ LookupMiss \/ Get
  PROVE  IndInv'
<1>1. /\ pc' = "idle" /\ op' = NULL /\ probe' = 0
      /\ UNCHANGED <<buckets, capacity, used, map2_vars>>
  BY DEF LookupNothing, LookupMiss, Get, Return
<1>2. ret' \in Val \cup {NULL}
  <2>1. CASE LookupNothing \/ LookupMiss
    BY <2>1 DEF LookupNothing, LookupMiss, Return
  <2>2. CASE Get
    <3>1. capacity > 0 /\ capacity \in Nat /\ op.key \in Key /\ probe \in Nat
      BY <2>2 DEF Get, IndInv, TypeOK, Request
    <3>2. Bucket(op.key, probe, capacity) \in 0 .. capacity - 1
      BY <3>1, BucketInTable
    <3>3. Ent \in Entry
      BY <3>1, <3>2 DEF Ent, IndInv, TypeOK, Tables
    <3>4. QED
      BY <2>2, <3>3 DEF Get, Return, Entry
  <2>3. QED
    BY <2>1, <2>2
<1>3. TypeOK'
  BY <1>1, <1>2 DEF IndInv, TypeOK, map2_vars
<1>4. QED
  BY <1>1, <1>3 DEF IndInv, Copying, map2_vars

LEMMA AllocateStep ==
  ASSUME IndInv, Allocate
  PROVE  IndInv' /\ ContentsOf(buckets') = ContentsOf(buckets)
<1>1. /\ pc = "start" /\ capacity = 0 /\ buckets' = Calloc(INIT_SIZE)
      /\ capacity' = INIT_SIZE /\ INIT_SIZE \in Nat /\ INIT_SIZE > 0
      /\ pc' = "probe" /\ probe' = 0 /\ UNCHANGED <<op, ret, used, map2_vars>>
  BY MapConstants DEF Allocate, StartProbe
<1>2. Table(buckets', capacity') /\ Live(buckets') = {}
  BY <1>1, CallocTable
<1>3. TypeOK'
  BY <1>1, <1>2 DEF IndInv, TypeOK, Table, map2_vars
<1>4. Probed(buckets, capacity, op.key)'
  BY <1>1 DEF Probed
<1>5. Live(buckets) = {}
  BY <1>1, LiveFacts DEF IndInv, TypeOK
<1>6. ContentsOf(buckets') = ContentsOf(buckets)
  BY <1>2, <1>5 DEF ContentsOf, Holders
<1>7. QED
  BY <1>1, <1>2, <1>3, <1>4, <1>6 DEF IndInv, Copying

LEMMA DeleteStep ==
  ASSUME IndInv, Delete
  PROVE  IndInv' /\ ContentsOf(buckets') = [ContentsOf(buckets) EXCEPT ![op.key] = NULL]
<1> DEFINE s == Bucket(op.key, probe, capacity)
<1>1. /\ capacity > 0 /\ capacity \in Nat /\ op.key \in Key /\ probe \in Nat
      /\ buckets[s].key = op.key /\ Table(buckets, capacity)
      /\ buckets' = [buckets EXCEPT ![s].key = TOMBSTONE]
      /\ pc' = "idle" /\ op' = NULL /\ ret' = NULL /\ probe' = 0
      /\ UNCHANGED <<capacity, used, map2_vars>>
  BY DEF Delete, IndInv, TypeOK, Request, Return, Ent
<1>2. s \in Live(buckets)
  BY <1>1, BucketInTable, LiveFacts DEF Table
<1>3. Table(buckets', capacity) /\ RemovedAt(buckets, buckets', s)
  <2> DEFINE e == [buckets[s] EXCEPT !.key = TOMBSTONE]
  <2>1. e \in Entry /\ e.key = TOMBSTONE
    BY <1>1, <1>2, LiveFacts, KeyFacts DEF Table, Entry
  <2>2. buckets' = Put(buckets, s, e)
    BY <1>1 DEF Put
  <2> HIDE DEF s, e
  <2>3. QED
    BY <1>1, <1>2, <2>1, <2>2, Bury
<1>4. ContentsOf(buckets') = [ContentsOf(buckets) EXCEPT ![op.key] = NULL]
  <2>1. StoredOnce(buckets) /\ StoredOnce(buckets')
    BY <1>1, <1>3 DEF Table
  <2>2. ContentsOf(buckets') = [ContentsOf(buckets) EXCEPT ![buckets[s].key] = NULL]
    BY <1>2, <1>3, <2>1, BuryContents
  <2>3. QED
    BY <1>1, <2>2
<1>5. TypeOK'
  BY <1>1, <1>3 DEF IndInv, TypeOK, Table, map2_vars
<1>6. QED
  BY <1>1, <1>3, <1>4, <1>5 DEF IndInv, Copying

\* The entry that Insert leaves in the bucket.
LEMMA InsertStep ==
  ASSUME IndInv, Insert
  PROVE  /\ IndInv'
         /\ LET old == ContentsOf(buckets)[op.key]
                new == IF op.kind = "intern" /\ old # NULL THEN old ELSE op.val
            IN  /\ ContentsOf(buckets') = [ContentsOf(buckets) EXCEPT ![op.key] = new]
                /\ ret' = IF op.kind = "intern" THEN old ELSE NULL
<1> DEFINE k == op.key
           s == Bucket(k, probe, capacity)
           v == IF op.kind = "intern" /\ buckets[s].val # NULL THEN buckets[s].val ELSE op.val
           e == [key |-> k, val |-> v]
<1>1. /\ capacity > 0 /\ capacity \in Nat /\ k \in Key /\ op.val \in Val /\ probe \in Nat
      /\ buckets[s].key \in {NULL, k} /\ Table(buckets, capacity)
      /\ Probed(buckets, capacity, k)
      /\ pc' = "idle" /\ op' = NULL /\ probe' = 0
      /\ ret' = IF op.kind = "intern" THEN buckets[s].val ELSE NULL
      /\ UNCHANGED <<capacity, map2_vars>>
  BY DEF Insert, IndInv, TypeOK, Request, Return, Ent, IsLookup
<1>2. s \in 0 .. capacity - 1 /\ s \in DOMAIN buckets /\ buckets[s] \in Entry
  BY <1>1, BucketInTable, LiveFacts DEF Table
<1>3. buckets' = Put(buckets, s, e)
  BY <1>2 DEF Insert, Put
<1>4. e \in Entry /\ v \in Val \cup {NULL}
  BY <1>1, <1>2, KeyFacts DEF Entry
<1>5. Table(buckets', capacity) /\ buckets'[s] = e /\ StoredAt(buckets, buckets', s, k)
  <2>1. s = Bucket(k, probe, capacity) /\ e.key = k
    OBVIOUS
  <2> HIDE DEF s, e, k
  <2>2. QED
    BY <1>1, <1>3, <1>4, <2>1, Store
<1>7. buckets[s].val = ContentsOf(buckets)[k]
  <2>1. CASE buckets[s].key = k
    <3>1. s \in Live(buckets)
      BY <2>1, <1>1, <1>2 DEF Live
    <3>2. QED
      BY <2>1, <3>1, <1>1, ContentsAt DEF Table
  <2>2. CASE buckets[s].key = NULL
    <3>1. buckets[s].val = NULL
      BY <2>2, <1>2 DEF Entry
    <3>2. \A b \in Live(buckets) : buckets[b].key # k
      BY <2>2, <1>1, Miss
    <3>3. QED
      BY <3>1, <3>2, <1>1, ContentsNone
  <2>3. QED
    BY <2>1, <2>2, <1>1
<1>8. ContentsOf(buckets') = [ContentsOf(buckets) EXCEPT ![k] = v]
  <2>1. StoredOnce(buckets) /\ StoredOnce(buckets') /\ buckets'[s].key = k /\ buckets'[s].val = v
    BY <1>1, <1>5 DEF Table
  <2> HIDE DEF s, e, k, v
  <2>2. QED
    BY <1>1, <1>5, <2>1, StoreContents
<1>9. used' \in Nat /\ ret' \in Val \cup {NULL}
  <2>1. buckets[s].val \in Val \cup {NULL} /\ used \in Nat
    BY <1>2 DEF Entry, IndInv, TypeOK
  <2>2. QED
    BY <1>1, <2>1 DEF Insert
<1>10. TypeOK'
  BY <1>1, <1>5, <1>9 DEF IndInv, TypeOK, Table, map2_vars
<1>11. IndInv'
  BY <1>1, <1>5, <1>10 DEF IndInv, Copying
<1>12. QED
  BY <1>1, <1>7, <1>8, <1>11

\* The copy of one entry: map2 now holds the names of the buckets up to ri.
LEMMA PlaceStep ==
  ASSUME IndInv, PlaceEntry
  PROVE  IndInv'
<1> DEFINE k == buckets[ri].key
           s == Probe2
           e == buckets[ri]
<1>1. /\ pc = "place" /\ pc' = "copy" /\ ri' = ri + 1 /\ probe' = 0
      /\ ri \in Nat /\ capacity \in Nat /\ ri < capacity /\ probe \in Nat
      /\ capacity2 \in Nat /\ capacity2 > 0 /\ k \in Key /\ ~IsLookup
      /\ Table(buckets, capacity) /\ Table(buckets2, capacity2) /\ Copied
      /\ Probed(buckets2, capacity2, k) /\ buckets2[s].key \in {NULL, k}
      /\ UNCHANGED <<buckets, capacity, used, capacity2, op, ret>>
  BY DEF PlaceEntry, IndInv, TypeOK, Copying
<1>2. e \in Entry /\ ri \in Live(buckets) /\ \A b \in Live(buckets) : b \in Nat
  BY <1>1, LiveFacts DEF Table
<1>3. buckets2' = Put(buckets2, s, e)
  BY DEF PlaceEntry, Put
<1>4. Table(buckets2', capacity2) /\ buckets2'[s] = e /\ StoredAt(buckets2, buckets2', s, k)
  <2>1. s = Bucket(k, probe, capacity2) /\ e.key = k
    BY DEF Probe2
  <2> HIDE DEF s, e, k
  <2>2. QED
    BY <1>1, <1>2, <1>3, <2>1, Store
<1>5. s \notin Live(buckets2)
  <2> SUFFICES ASSUME s \in Live(buckets2) PROVE FALSE
    OBVIOUS
  <2>1. buckets2[s].key = k
    BY <1>4 DEF StoredAt
  <2>2. PICK b \in Live(buckets) : b < ri /\ buckets[b] = buckets2[s]
    BY <1>1 DEF Copied
  <2>3. b = ri
    BY <2>1, <2>2, <1>1, <1>2 DEF Table, StoredOnce
  <2>4. QED
    BY <2>2, <2>3, <1>1
<1>6. \A c \in Live(buckets2) : c # s /\ c \in Live(buckets2') /\ buckets2'[c] = buckets2[c]
  BY <1>4, <1>5 DEF StoredAt
<1>7. Copied'
  <2>1. ASSUME NEW b \in Live(buckets), b < ri + 1
        PROVE  \E c \in Live(buckets2') : buckets2'[c] = buckets[b]
    <3>1. CASE b = ri
      BY <3>1, <1>4 DEF StoredAt
    <3>2. CASE b < ri
      <4>1. PICK c \in Live(buckets2) : buckets2[c] = buckets[b]
        BY <3>2, <1>1 DEF Copied
      <4>2. QED
        BY <4>1, <1>6
    <3>3. QED
      BY <3>1, <3>2, <2>1, <1>1, <1>2
  <2>2. ASSUME NEW c \in Live(buckets2')
        PROVE  \E b \in Live(buckets) : b < ri + 1 /\ buckets[b] = buckets2'[c]
    <3>1. CASE c = s
      BY <3>1, <1>1, <1>2, <1>4
    <3>2. CASE c # s
      <4>1. c \in Live(buckets2) /\ buckets2'[c] = buckets2[c]
        BY <3>2, <1>4, <1>6 DEF StoredAt
      <4>2. PICK b \in Live(buckets) : b < ri /\ buckets[b] = buckets2[c]
        BY <4>1, <1>1 DEF Copied
      <4>3. b < ri + 1
        BY <4>2, <1>1, <1>2
      <4>4. QED
        BY <4>1, <4>2, <4>3
    <3>3. QED
      BY <3>1, <3>2
  <2>3. QED
    BY <1>1, <2>1, <2>2 DEF Copied
<1>8. used2' \in Nat
  BY DEF PlaceEntry, IndInv, TypeOK
<1>9. TypeOK'
  BY <1>1, <1>4, <1>8 DEF IndInv, TypeOK, Table
<1>10. Table(buckets, capacity)' /\ Table(buckets2, capacity2)' /\ capacity2' > 0
       /\ ri' <= capacity' /\ ~IsLookup'
  BY <1>1, <1>4 DEF IsLookup
<1>11. QED
  BY <1>1, <1>7, <1>9, <1>10 DEF IndInv, Copying

LEMMA InstallStep ==
  ASSUME IndInv, Install
  PROVE  IndInv' /\ ContentsOf(buckets') = ContentsOf(buckets)
<1>1. /\ pc = "copy" /\ pc' = "probe" /\ probe' = 0 /\ ri = capacity
      /\ buckets' = buckets2 /\ capacity' = capacity2 /\ used' = used2
      /\ buckets2' = <<>> /\ capacity2' = 0 /\ used2' = 0 /\ ri' = 0
      /\ capacity \in Nat /\ capacity2 \in Nat /\ capacity2 > 0 /\ used2 \in Nat
      /\ Table(buckets, capacity) /\ Table(buckets2, capacity2) /\ Copied
      /\ UNCHANGED <<op, ret>>
  BY DEF Install, StartProbe, IndInv, TypeOK, Copying
<1>2. \A b \in Live(buckets) : b < ri
  BY <1>1, LiveFacts DEF Table
<1>3. ContentsOf(buckets2) = ContentsOf(buckets)
  <2>1. /\ \A b \in Live(buckets) : \E c \in Live(buckets2) : buckets2[c] = buckets[b]
        /\ \A c \in Live(buckets2) : \E b \in Live(buckets) : buckets[b] = buckets2[c]
    BY <1>1, <1>2 DEF Copied
  <2>2. QED
    BY <1>1, <2>1, SameContents DEF Table
<1>4. TypeOK'
  BY <1>1 DEF IndInv, TypeOK, Table
<1>5. Probed(buckets, capacity, op.key)'
  BY <1>1 DEF Probed
<1>6. Table(buckets, capacity)' /\ capacity' > 0
  BY <1>1
<1>7. QED
  BY <1>1, <1>3, <1>4, <1>5, <1>6 DEF IndInv, Copying

LEMMA NextInd == IndInv /\ [Next]_vars => IndInv'
<1> SUFFICES ASSUME IndInv, [Next]_vars PROVE IndInv'
  OBVIOUS
<1>1. CASE Next
  BY <1>1, QuietSteps, ReturnSteps, AllocateStep, DeleteStep, InsertStep,
     PlaceStep, InstallStep DEF Next, Step
<1>2. CASE UNCHANGED vars
  BY <1>2 DEF vars, IndInv, TypeOK, Copying, Copied, Probed, IsLookup
<1>3. QED
  BY <1>1, <1>2

-----------------------------------------------------------------------------
(* Each step is a step of the abstract map or leaves it unchanged *)

LEMMA AbstractCall ==
  ASSUME IndInv, NEW o \in Request, Call(o)
  PROVE  Abs!Next
<1>1. op = NULL /\ op' = o /\ ret' = NULL /\ buckets' = buckets
  BY DEF Call, IndInv, TypeOK
<1>2. o \in Abs!Request
  BY DEF Request, Abs!Request
<1>3. QED
  BY <1>1, <1>2 DEF Abs!Next, Abs!Call

\* A call that returns stores v and returns r.
LEMMA AbstractReturn ==
  ASSUME op \in Request, op' = NULL,
         ContentsOf(buckets') = [ContentsOf(buckets) EXCEPT
                                   ![op.key] = Abs!Stored(op, ContentsOf(buckets)[op.key])],
         ret' = IF op.kind \in {"get", "intern"} THEN ContentsOf(buckets)[op.key] ELSE NULL
  PROVE  Abs!Next
<1>1. op # NULL
  BY MapConstants
<1>2. QED
  BY <1>1 DEF Abs!Next, Abs!Return

LEMMA AbstractMiss ==
  ASSUME IndInv, LookupNothing \/ LookupMiss
  PROVE  Abs!Next
<1> DEFINE k == op.key
<1>1. /\ op \in Request /\ k \in Key /\ op.kind \in {"get", "delete"}
      /\ op' = NULL /\ ret' = NULL /\ buckets' = buckets
  BY DEF LookupNothing, LookupMiss, Return, IsLookup, IndInv, TypeOK, Request
<1>2. ContentsOf(buckets)[k] = NULL
  <2>1. CASE LookupNothing
    <3>1. Live(buckets) = {}
      BY <2>1, LiveFacts DEF LookupNothing, IndInv, TypeOK
    <3>2. QED
      BY <1>1, <3>1, ContentsNone
  <2>2. CASE LookupMiss
    <3>1. \A b \in Live(buckets) : buckets[b].key # k
      BY <2>2, <1>1, Miss DEF LookupMiss, Ent, IndInv, TypeOK
    <3>2. QED
      BY <1>1, <3>1, ContentsNone
  <2>3. QED
    BY <2>1, <2>2
<1>3. Abs!Stored(op, ContentsOf(buckets)[k]) = ContentsOf(buckets)[k]
  BY <1>1, <1>2 DEF Abs!Stored
<1>4. ContentsOf(buckets) = [ContentsOf(buckets) EXCEPT
                               ![k] = Abs!Stored(op, ContentsOf(buckets)[k])]
  BY <1>1, <1>3, ExceptSame
<1>5. QED
  BY <1>1, <1>2, <1>4, AbstractReturn

LEMMA AbstractGet ==
  ASSUME IndInv, Get
  PROVE  Abs!Next
<1> DEFINE k == op.key
           s == Bucket(k, probe, capacity)
<1>1. /\ op \in Request /\ k \in Key /\ op.kind = "get"
      /\ op' = NULL /\ ret' = buckets[s].val /\ buckets' = buckets
      /\ buckets[s].key = k /\ capacity > 0 /\ capacity \in Nat /\ probe \in Nat
      /\ Table(buckets, capacity)
  BY DEF Get, Return, Ent, IndInv, TypeOK, Request
<1>2. s \in Live(buckets)
  BY <1>1, BucketInTable, LiveFacts DEF Table
<1>3. ContentsOf(buckets)[k] = buckets[s].val
  BY <1>1, <1>2, ContentsAt DEF Table
<1>4. Abs!Stored(op, ContentsOf(buckets)[k]) = ContentsOf(buckets)[k]
  BY <1>1 DEF Abs!Stored
<1>5. ContentsOf(buckets) = [ContentsOf(buckets) EXCEPT
                               ![k] = Abs!Stored(op, ContentsOf(buckets)[k])]
  BY <1>1, <1>4, ExceptSame
<1>6. QED
  BY <1>1, <1>3, <1>5, AbstractReturn

LEMMA AbstractWrite ==
  ASSUME IndInv, Delete \/ Insert
  PROVE  Abs!Next
<1>1. op \in Request /\ op' = NULL
  BY DEF Delete, Insert, Return, IndInv, TypeOK
<1>2. CASE Delete
  <2>1. op.kind = "delete" /\ ret' = NULL
    BY <1>2 DEF Delete, Return
  <2>2. Abs!Stored(op, ContentsOf(buckets)[op.key]) = NULL
    BY <2>1 DEF Abs!Stored
  <2>3. QED
    BY <1>1, <1>2, <2>1, <2>2, DeleteStep, AbstractReturn
<1>3. CASE Insert
  <2> DEFINE old == ContentsOf(buckets)[op.key]
  <2>1. op.kind \in {"put", "intern"}
    BY <1>1, <1>3 DEF Insert, IsLookup, Request
  <2>2. Abs!Stored(op, old) = IF op.kind = "intern" /\ old # NULL THEN old ELSE op.val
    BY <2>1 DEF Abs!Stored
  <2>3. /\ ContentsOf(buckets') = [ContentsOf(buckets) EXCEPT ![op.key] = Abs!Stored(op, old)]
        /\ ret' = IF op.kind \in {"get", "intern"} THEN old ELSE NULL
    BY <1>3, <2>1, <2>2, InsertStep
  <2>4. QED
    BY <1>1, <2>3, AbstractReturn
<1>4. QED
  BY <1>2, <1>3

LEMMA AbstractStutter ==
  ASSUME IndInv, \/ Lookup \/ Allocate \/ InsertDirectly
                 \/ RehashFirst \/ Double \/ NewMap
                 \/ CopySkip \/ CopyEntry \/ PlaceNext \/ PlaceEntry \/ Install
                 \/ ProbeNext
  PROVE  UNCHANGED <<ContentsOf(buckets), op, ret>>
<1>1. UNCHANGED <<op, ret>>
  BY DEF Lookup, Allocate, InsertDirectly, RehashFirst, Double, NewMap, CopySkip,
     CopyEntry, PlaceNext, PlaceEntry, Install, ProbeNext, StartProbe
<1>2. CASE Allocate \/ Install
  BY <1>1, <1>2, AllocateStep, InstallStep
<1>3. CASE ~(Allocate \/ Install)
  <2>1. buckets' = buckets
    BY <1>3 DEF Lookup, InsertDirectly, RehashFirst, Double, NewMap, CopySkip,
       CopyEntry, PlaceNext, PlaceEntry, ProbeNext, StartProbe
  <2>2. QED
    BY <1>1, <2>1
<1>4. QED
  BY <1>2, <1>3

LEMMA StepRefines == IndInv /\ [Next]_vars => [Abs!Next]_(Abs!vars)
<1> SUFFICES ASSUME IndInv, [Next]_vars PROVE [Abs!Next]_(Abs!vars)
  OBVIOUS
<1>1. CASE Next
  BY <1>1, AbstractCall, AbstractMiss, AbstractGet, AbstractWrite, AbstractStutter
     DEF Next, Step, Abs!vars
<1>2. CASE UNCHANGED vars
  BY <1>2 DEF vars, Abs!vars
<1>3. QED
  BY <1>1, <1>2

\* Buckets, counters and the call in progress stay well formed, and an entry
\* without a key never has a value (hashmap.c).
THEOREM TypeCorrect == Spec => []TypeOK
<1>1. IndInv => TypeOK
  BY DEF IndInv
<1>2. QED
  BY InitInd, NextInd, <1>1, PTL DEF Spec

\* Whatever is stored, deleted and rehashed, every get, put, delete and
\* get-or-insert behaves as on an abstract map (hashmap.c).
THEOREM ImplementsMap == Spec => IsAMap
<1>1. Spec => []IndInv
  BY InitInd, NextInd, PTL DEF Spec
<1>2. QED
  BY InitInd, StepRefines, <1>1, PTL DEF Spec, IsAMap, Abs!Spec

-----------------------------------------------------------------------------
(***************************************************************************)
(* A table of HashMap is never full: every probe meets an unused bucket,   *)
(* and rehash fills the new table without asking for a rehash of its own.  *)
(*                                                                         *)
(* used counts the buckets that are not unused.  A call may insert only    *)
(* below the high watermark, and a rehash makes the table so large that    *)
(* the live names stay below the low one, so one insertion leaves a bucket *)
(* free (Room): that needs capacities of four at least.  Every name that   *)
(* rehash copies takes a bucket of its own, so used2 counts the live names *)
(* before ri (Passed), which are at most those nkeys counted.              *)
(***************************************************************************)

Passed(n) == {b \in Live(buckets) : b < n}

FitInv ==
  /\ used = Cardinality(Occupied(buckets))
  /\ capacity = 0 \/ capacity >= 4
  /\ capacity > 0 => used < capacity
  /\ pc = "probe" /\ ~IsLookup => used + 1 < capacity
  /\ pc \in {"grow", "copy", "place"} => capacity2 >= 4
  /\ Copying => /\ Percent(nkeys, capacity2) < LOW_WATERMARK
                /\ Occupied(buckets2) = Live(buckets2)
                /\ used2 = Cardinality(Occupied(buckets2))
                /\ used2 = Cardinality(Passed(ri))

-----------------------------------------------------------------------------
(* Lemmas *)

LEMMA Watermarks ==
  /\ HIGH_WATERMARK \in Nat /\ LOW_WATERMARK \in Nat /\ HIGH_WATERMARK <= 75
  /\ LOW_WATERMARK <= HIGH_WATERMARK /\ INIT_SIZE \in Nat /\ INIT_SIZE >= 4
  BY MapConstants

\* Being below a watermark, without division.
LEMMA Below ==
  ASSUME NEW n \in Nat, NEW cap \in Nat, cap > 0, NEW h \in Nat
  PROVE  Percent(n, cap) < h <=> n * 100 < h * cap
<1> DEFINE m == n * 100
           q == m \div cap
<1>1. m \in Nat
  OBVIOUS
<1>2. q \in Nat /\ q * cap <= m /\ m < (q + 1) * cap
  <2> HIDE DEF m
  <2>1. \A a \in Nat, c \in Nat : c > 0 => /\ a \div c \in Nat
                                           /\ (a \div c) * c <= a /\ a < (a \div c + 1) * c
    BY Z3
  <2> QED BY <1>1, <2>1
<1>3. \A a, b \in Nat : a <= b => a * cap <= b * cap
  BY Z3
<1>4. CASE q < h
  <2>1. q + 1 <= h
    BY <1>2, <1>4
  <2>2. (q + 1) * cap <= h * cap
    <3> HIDE DEF q
    <3>1. q + 1 \in Nat
      BY <1>2
    <3> QED BY <2>1, <3>1, <1>3
  <2>3. (q + 1) * cap \in Nat /\ h * cap \in Nat
    <3> HIDE DEF q
    <3> QED BY <1>2
  <2>4. m < h * cap
    <3> HIDE DEF q, m
    <3> QED BY <1>1, <1>2, <2>2, <2>3
  <2> QED BY <1>4, <2>4 DEF Percent
<1>5. CASE ~(q < h)
  <2>1. h <= q
    BY <1>2, <1>5
  <2>2. h * cap <= q * cap
    <3> HIDE DEF q
    <3> QED BY <2>1, <1>2, <1>3
  <2>3. q * cap \in Nat /\ h * cap \in Nat
    <3> HIDE DEF q
    <3> QED BY <1>2
  <2>4. ~(m < h * cap)
    <3> HIDE DEF q, m
    <3> QED BY <1>1, <1>2, <2>2, <2>3
  <2> QED BY <1>5, <2>4 DEF Percent
<1> QED BY <1>4, <1>5

\* Below a watermark, one more name leaves a bucket unused.
LEMMA Room ==
  ASSUME NEW n \in Nat, NEW cap \in Nat, cap >= 4, NEW h \in Nat, h <= 75,
         Percent(n, cap) < h
  PROVE  n + 1 < cap
<1>1. n * 100 < h * cap
  BY Below
<1>2. h * cap <= 75 * cap
  <2>1. \A a, b, c \in Nat : a <= b => a * c <= b * c
    BY Z3
  <2> QED BY <2>1
<1>3. h * cap \in Nat
  OBVIOUS
<1>4. n * 100 < 75 * cap
  <2> DEFINE x == h * cap
  <2>1. x \in Nat /\ n * 100 < x /\ x <= 75 * cap
    BY <1>1, <1>2, <1>3
  <2> HIDE DEF x
  <2> QED BY <2>1
<1> QED BY <1>4

LEMMA FewerIsBelow ==
  ASSUME NEW n \in Nat, NEW k \in Nat, n <= k, NEW cap \in Nat, cap > 0,
         NEW l \in Nat, NEW h \in Nat, l <= h, Percent(k, cap) < l
  PROVE  Percent(n, cap) < h
<1>1. k * 100 < l * cap
  BY Below
<1>2. l * cap <= h * cap
  <2>1. \A a, b, c \in Nat : a <= b => a * c <= b * c
    BY Z3
  <2> QED BY <2>1
<1>3. l * cap \in Nat /\ h * cap \in Nat
  OBVIOUS
<1>4. n * 100 < h * cap
  <2> DEFINE x == l * cap
             y == h * cap
  <2>1. x \in Nat /\ y \in Nat /\ k * 100 < x /\ x <= y
    BY <1>1, <1>2, <1>3
  <2> HIDE DEF x, y
  <2>2. n * 100 < y
    BY <2>1
  <2> QED BY <2>2 DEF y
<1> QED BY <1>4, Below

LEMMA Finite ==
  ASSUME NEW bs, NEW cap \in Nat, Tables(bs, cap)
  PROVE  /\ IsFiniteSet(Occupied(bs)) /\ IsFiniteSet(Live(bs))
         /\ Cardinality(Occupied(bs)) \in Nat /\ Cardinality(Live(bs)) \in Nat
         /\ Live(bs) \subseteq Occupied(bs)
<1>1. DOMAIN bs = 0 .. cap - 1 /\ IsFiniteSet(0 .. cap - 1)
  BY FS_Interval DEF Tables
<1>2. Occupied(bs) \in SUBSET (0 .. cap - 1) /\ Live(bs) \in SUBSET (0 .. cap - 1)
  BY <1>1 DEF Occupied, Live
<1>3. IsFiniteSet(Occupied(bs)) /\ IsFiniteSet(Live(bs))
  BY <1>1, <1>2, FS_Subset
<1>4. Live(bs) \subseteq Occupied(bs)
  BY KeyFacts DEF Live, Occupied
<1>5. Cardinality(Occupied(bs)) \in Nat
  BY <1>3, FS_CardinalityType
<1>6. Cardinality(Live(bs)) \in Nat
  BY <1>3, FS_CardinalityType
<1> QED BY <1>3, <1>4, <1>5, <1>6

LEMMA CallocUnused ==
  ASSUME NEW cap \in Nat
  PROVE  Occupied(Calloc(cap)) = {} /\ Cardinality(Occupied(Calloc(cap))) = 0
<1>1. Occupied(Calloc(cap)) = {}
  BY DEF Occupied, Calloc
<1> QED BY <1>1, FS_EmptySet

\* Storing a name in bucket s makes it occupied and changes no other.
LEMMA StoreOccupies ==
  ASSUME NEW bs, NEW cap \in Nat, Tables(bs, cap), NEW s \in 0 .. cap - 1,
         NEW e, e.key # NULL, NEW bs2, bs2 = Put(bs, s, e)
  PROVE  /\ Occupied(bs2) = Occupied(bs) \cup {s}
         /\ Cardinality(Occupied(bs2)) =
              Cardinality(Occupied(bs)) + (IF bs[s].key = NULL THEN 1 ELSE 0)
<1>1. DOMAIN bs = 0 .. cap - 1 /\ DOMAIN bs2 = 0 .. cap - 1 /\ bs2[s] = e
      /\ \A b \in 0 .. cap - 1 : b # s => bs2[b] = bs[b]
  BY DEF Tables, Put
<1>2. Occupied(bs2) = Occupied(bs) \cup {s}
  BY <1>1 DEF Occupied
<1>3. IsFiniteSet(Occupied(bs)) /\ Cardinality(Occupied(bs)) \in Nat
  BY Finite
<1>4. s \in Occupied(bs) <=> bs[s].key # NULL
  BY <1>1 DEF Occupied
<1>5. Cardinality(Occupied(bs) \cup {s}) =
        IF s \in Occupied(bs) THEN Cardinality(Occupied(bs)) ELSE Cardinality(Occupied(bs)) + 1
  BY <1>3, FS_AddElement
<1>6. CASE bs[s].key = NULL
  BY <1>2, <1>3, <1>4, <1>5, <1>6
<1>7. CASE bs[s].key # NULL
  <2>1. Cardinality(Occupied(bs2)) = Cardinality(Occupied(bs))
    BY <1>2, <1>4, <1>5, <1>7
  <2> QED BY <2>1, <1>2, <1>3, <1>7
<1> QED BY <1>2, <1>6, <1>7

-----------------------------------------------------------------------------
(* One lemma for each action *)

LEMMA FitInit == Init => FitInv
<1> SUFFICES ASSUME Init PROVE FitInv
  OBVIOUS
<1>1. buckets = <<>> /\ used = 0 /\ capacity = 0 /\ pc = "idle"
  BY DEF Init
<1>2. Occupied(<<>>) = {}
  BY DEF Occupied
<1>3. Cardinality(Occupied(buckets)) = 0
  BY <1>1, <1>2, FS_EmptySet
<1> QED BY <1>1, <1>3 DEF FitInv, Copying

\* Steps that write no table.
LEMMA FitQuiet ==
  ASSUME IndInv, FitInv,
         \/ \E o \in Request : Call(o)
         \/ LookupNothing \/ Lookup \/ InsertDirectly \/ RehashFirst \/ Double
         \/ CopyEntry \/ PlaceNext \/ ProbeNext \/ LookupMiss \/ Get \/ UNCHANGED vars
  PROVE  FitInv'
<1> USE DEF FitInv
<1>0. /\ capacity \in Nat /\ capacity2 \in Nat /\ used \in Nat
      /\ capacity # 0 => capacity >= 4
  BY DEF IndInv, TypeOK
<1>1. CASE \E o \in Request : Call(o)
  BY <1>1 DEF Call, map2_vars, Copying
<1>2. CASE LookupNothing
  BY <1>2 DEF LookupNothing, Return, map2_vars, Copying
<1>3. CASE Lookup
  BY <1>3 DEF Lookup, StartProbe, map2_vars, Copying, IsLookup
<1>4. CASE InsertDirectly
  <2>1. Percent(used, capacity) < HIGH_WATERMARK
    <3>1. Percent(used, capacity) \in Int
      BY <1>0, <1>4 DEF Percent, InsertDirectly
    <3> QED BY <3>1, <1>4, Watermarks DEF InsertDirectly, TooFull
  <2>2. used + 1 < capacity
    BY <2>1, <1>0, <1>4, Watermarks, Room DEF InsertDirectly
  <2> QED BY <1>4, <2>2 DEF InsertDirectly, StartProbe, map2_vars, Copying
<1>5. CASE RehashFirst
  BY <1>0, <1>5 DEF RehashFirst, Copying
<1>6. CASE Double
  BY <1>0, <1>6 DEF Double, Copying
<1>7. CASE CopyEntry
  BY <1>7 DEF CopyEntry, map2_vars, Copying, nkeys, Passed, IsLookup
<1>8. CASE PlaceNext
  BY <1>8 DEF PlaceNext, map2_vars, Copying, nkeys, Passed, IsLookup
<1>9. CASE ProbeNext
  BY <1>9 DEF ProbeNext, map2_vars, Copying, IsLookup
<1>10. CASE LookupMiss \/ Get
  BY <1>10 DEF LookupMiss, Get, Return, map2_vars, Copying
<1>11. CASE UNCHANGED vars
  BY <1>11 DEF vars, map2_vars, Copying, nkeys, Passed, IsLookup
<1> QED
  BY <1>1, <1>2, <1>3, <1>4, <1>5, <1>6, <1>7, <1>8, <1>9, <1>10, <1>11

LEMMA FitAllocate ==
  ASSUME IndInv, FitInv, Allocate
  PROVE  FitInv'
<1>1. /\ capacity = 0 /\ capacity' = INIT_SIZE /\ buckets' = Calloc(INIT_SIZE) /\ used' = used
      /\ pc' = "probe"
  BY DEF Allocate, StartProbe
<1>2. used = 0
  <2>1. Tables(buckets, 0)
    BY <1>1 DEF IndInv, Table
  <2>2. Occupied(buckets) = {}
    BY <2>1 DEF Tables, Occupied
  <2> QED BY <2>2, FS_EmptySet DEF FitInv
<1>3. Cardinality(Occupied(buckets')) = 0
  BY <1>1, Watermarks, CallocUnused
<1> QED BY <1>1, <1>2, <1>3, Watermarks DEF FitInv, Copying

LEMMA FitNewMap ==
  ASSUME IndInv, FitInv, NewMap
  PROVE  FitInv'
<1>1. /\ Percent(nkeys, capacity2) < LOW_WATERMARK
      /\ buckets2' = Calloc(capacity2) /\ used2' = 0 /\ ri' = 0 /\ pc' = "copy"
      /\ UNCHANGED <<buckets, capacity, used, capacity2, probe, op, ret>>
      /\ capacity2 \in Nat /\ capacity2 >= 4
  BY DEF NewMap, IndInv, TypeOK, FitInv
<1>2. Occupied(buckets2') = {} /\ Live(buckets2') = {} /\ Cardinality(Occupied(buckets2')) = 0
  BY <1>1, CallocUnused, CallocTable
<1>3. Passed(ri)' = {}
  <2>1. \A b \in Live(buckets) : b \in Nat
    BY LiveFacts DEF IndInv, TypeOK, Table
  <2> QED BY <2>1, <1>1 DEF Passed
<1>4. Cardinality(Passed(ri)') = 0
  BY <1>3, FS_EmptySet
<1> QED BY <1>1, <1>2, <1>4 DEF FitInv, Copying, nkeys

LEMMA FitCopySkip ==
  ASSUME IndInv, FitInv, CopySkip
  PROVE  FitInv'
<1>1. /\ ri < capacity /\ buckets[ri].key \notin Key /\ ri' = ri + 1 /\ ri \in Nat
      /\ UNCHANGED <<buckets, capacity, used, buckets2, capacity2, used2, probe, pc, op, ret>>
  BY DEF CopySkip, IndInv, TypeOK
<1>2. Passed(ri)' = Passed(ri)
  <2>1. \A b \in Live(buckets) : b \in Nat /\ b # ri
    BY <1>1, LiveFacts DEF IndInv, TypeOK, Table
  <2>2. \A b \in Live(buckets) : b < ri + 1 <=> b < ri
    BY <2>1, <1>1
  <2> QED BY <2>2, <1>1 DEF Passed
<1> QED BY <1>1, <1>2 DEF FitInv, Copying, nkeys, IsLookup

LEMMA FitPlace ==
  ASSUME IndInv, FitInv, PlaceEntry
  PROVE  FitInv'
<1> DEFINE s == Probe2
           k == buckets[ri].key
<1>1. /\ pc = "place" /\ pc' = "copy" /\ ri' = ri + 1 /\ ri \in Nat /\ ri < capacity
      /\ k \in Key /\ buckets2[s].key \in {NULL, k} /\ probe \in Nat
      /\ buckets2' = [buckets2 EXCEPT ![s] = buckets[ri]]
      /\ used2' = used2 + (IF buckets2[s].key = NULL THEN 1 ELSE 0)
      /\ UNCHANGED <<buckets, capacity, used, capacity2, op, ret>>
      /\ capacity \in Nat /\ capacity2 \in Nat /\ capacity2 > 0
      /\ Table(buckets, capacity) /\ Table(buckets2, capacity2) /\ Copied
      /\ Occupied(buckets2) = Live(buckets2) /\ used2 = Cardinality(Occupied(buckets2))
      /\ used2 = Cardinality(Passed(ri)) /\ used2 \in Nat
  BY DEF PlaceEntry, IndInv, TypeOK, FitInv, Copying
<1>2. s \in 0 .. capacity2 - 1
  BY <1>1, BucketInTable DEF Probe2
<1>3. ri \in Live(buckets) /\ \A b \in Live(buckets) : b \in Nat
  BY <1>1, LiveFacts DEF Table
\* The name is not in map2 yet.
<1>4. buckets2[s].key = NULL
  <2> SUFFICES ASSUME buckets2[s].key = k PROVE FALSE
    BY <1>1
  <2>1. s \in Live(buckets2)
    BY <1>1, <1>2, LiveFacts DEF Table
  <2>2. PICK b \in Live(buckets) : b < ri /\ buckets[b] = buckets2[s]
    BY <2>1, <1>1 DEF Copied
  <2>3. b = ri
    BY <2>2, <1>1, <1>3 DEF Table, StoredOnce
  <2> QED BY <2>2, <2>3, <1>1
<1>5. /\ Occupied(buckets2') = Occupied(buckets2) \cup {s}
      /\ Cardinality(Occupied(buckets2')) = used2 + 1
  <2>1. Tables(buckets2, capacity2) /\ buckets[ri].key # NULL
    BY <1>1, KeyFacts DEF Table
  <2>2. PICK e, t : e = buckets[ri] /\ t = buckets2'
    OBVIOUS
  <2> HIDE DEF s, k
  <2>3. t = Put(buckets2, s, e) /\ e.key # NULL
    BY <2>1, <2>2, <1>1 DEF Put
  <2>4. capacity2 \in Nat
    BY <1>1
  <2>5. /\ Occupied(t) = Occupied(buckets2) \cup {s}
        /\ Cardinality(Occupied(t)) = Cardinality(Occupied(buckets2)) + (IF buckets2[s].key = NULL THEN 1 ELSE 0)
    BY <2>1, <2>3, <2>4, <1>2, StoreOccupies
  <2> QED BY <2>2, <2>5, <1>1, <1>4
<1>6. Live(buckets2') = Live(buckets2) \cup {s}
  BY <1>1, <1>2 DEF Live, Table, Tables
<1>7. Cardinality(Passed(ri)') = used2 + 1
  <2>1. Passed(ri)' = Passed(ri) \cup {ri} /\ ri \notin Passed(ri)
    <3>1. \A b \in Live(buckets) : b < ri + 1 <=> b < ri \/ b = ri
      BY <1>1, <1>3
    <3> QED BY <3>1, <1>1, <1>3 DEF Passed
  <2>2. IsFiniteSet(Passed(ri))
    <3>1. Passed(ri) \in SUBSET Live(buckets)
      BY DEF Passed
    <3>2. IsFiniteSet(Live(buckets))
      BY <1>1, Finite DEF Table
    <3> QED BY <3>1, <3>2, FS_Subset
  <2>3. Cardinality(Passed(ri) \cup {ri}) = Cardinality(Passed(ri)) + 1
    BY <2>1, <2>2, FS_AddElement
  <2> QED BY <2>1, <2>3, <1>1
<1>8. used2' = used2 + 1
  BY <1>1, <1>4
<1> HIDE DEF s, k
<1> QED BY <1>1, <1>5, <1>6, <1>7, <1>8 DEF FitInv, Copying, nkeys, IsLookup

LEMMA FitDelete ==
  ASSUME IndInv, FitInv, Delete
  PROVE  FitInv'
<1> DEFINE s == Bucket(op.key, probe, capacity)
<1>1. /\ buckets[s].key = op.key /\ op.key \in Key /\ probe \in Nat /\ capacity \in Nat /\ capacity > 0
      /\ buckets' = [buckets EXCEPT ![s].key = TOMBSTONE]
      /\ UNCHANGED <<capacity, used, map2_vars>> /\ pc' = "idle" /\ op' = NULL
      /\ Tables(buckets, capacity)
  BY DEF Delete, Return, Ent, IndInv, TypeOK, Request, Table
<1>2. s \in 0 .. capacity - 1
  BY <1>1, BucketInTable
<1>3. /\ DOMAIN buckets' = DOMAIN buckets /\ s \in DOMAIN buckets
      /\ buckets'[s].key = TOMBSTONE
      /\ \A b \in DOMAIN buckets : b # s => buckets'[b] = buckets[b]
  <2> HIDE DEF s
  <2>1. DOMAIN buckets = 0 .. capacity - 1 /\ buckets[s] \in Entry
    BY <1>1, <1>2 DEF Tables
  <2>2. buckets[s] \in [key : Key \cup {NULL, TOMBSTONE}, val : Val \cup {NULL}]
    BY <2>1 DEF Entry
  <2> QED BY <1>1, <1>2, <2>1, <2>2
<1>4. Occupied(buckets') = Occupied(buckets)
  BY <1>1, <1>3, KeyFacts DEF Occupied
<1> QED BY <1>1, <1>4 DEF FitInv, Copying

LEMMA FitInsert ==
  ASSUME IndInv, FitInv, Insert
  PROVE  FitInv'
<1> DEFINE s == Bucket(op.key, probe, capacity)
           e == [key |-> op.key,
                 val |-> IF op.kind = "intern" /\ buckets[s].val # NULL
                         THEN buckets[s].val ELSE op.val]
<1>1. /\ pc = "probe" /\ ~IsLookup /\ op.key \in Key /\ probe \in Nat
      /\ capacity \in Nat /\ capacity > 0 /\ Tables(buckets, capacity)
      /\ used' = used + (IF buckets[s].key = NULL THEN 1 ELSE 0)
      /\ UNCHANGED <<capacity, map2_vars>> /\ pc' = "idle" /\ op' = NULL
      /\ used \in Nat
  BY DEF Insert, Return, Ent, IndInv, TypeOK, Request, IsLookup, Table
<1>2. s \in 0 .. capacity - 1 /\ s \in DOMAIN buckets
  BY <1>1, BucketInTable DEF Tables
<1>3. buckets' = [buckets EXCEPT ![s] = e]
  BY <1>2 DEF Insert
<1>4. e.key # NULL
  BY <1>1, KeyFacts
<1>5. Cardinality(Occupied(buckets')) = used'
  <2> HIDE DEF s, e
  <2>1. PICK t : t = buckets' /\ t = Put(buckets, s, e)
    BY <1>3 DEF Put
  <2>2. Cardinality(Occupied(t)) = Cardinality(Occupied(buckets)) + (IF buckets[s].key = NULL THEN 1 ELSE 0)
    BY <2>1, <1>1, <1>2, <1>4, StoreOccupies
  <2> QED BY <2>1, <2>2, <1>1 DEF FitInv
<1>6. used' < capacity
  BY <1>1 DEF FitInv
<1> QED BY <1>1, <1>5, <1>6 DEF FitInv, Copying

LEMMA AllPassed ==
  ASSUME IndInv, ri = capacity
  PROVE  Passed(ri) = Live(buckets)
<1>1. \A b \in Live(buckets) : b \in 0 .. capacity - 1
  BY LiveFacts DEF IndInv, TypeOK, Table
<1> QED BY <1>1 DEF Passed, IndInv, TypeOK

LEMMA FitInstall ==
  ASSUME IndInv, FitInv, Install
  PROVE  FitInv'
<1>1. /\ pc = "copy" /\ pc' = "probe" /\ ri = capacity
      /\ buckets' = buckets2 /\ capacity' = capacity2 /\ used' = used2 /\ UNCHANGED op
      /\ Percent(nkeys, capacity2) < LOW_WATERMARK
      /\ used2 = Cardinality(Occupied(buckets2)) /\ used2 = Cardinality(Passed(ri))
      /\ capacity2 \in Nat /\ capacity2 >= 4 /\ used2 \in Nat
  BY DEF Install, StartProbe, FitInv, Copying, IndInv, TypeOK
<1>2. used2 = nkeys
  BY <1>1, AllPassed DEF nkeys
<1>3. used2 + 1 < capacity2
  BY <1>1, <1>2, Watermarks, Room
<1> QED BY <1>1, <1>3 DEF FitInv, Copying

LEMMA FitInductive == IndInv /\ FitInv /\ [Next]_vars => FitInv'
<1> SUFFICES ASSUME IndInv, FitInv, [Next]_vars PROVE FitInv'
  OBVIOUS
<1> QED
  BY FitQuiet, FitAllocate, FitNewMap, FitCopySkip, FitPlace, FitDelete, FitInsert,
     FitInstall DEF Next, Step

\* Every table has a bucket that ends a probe, whatever was stored and
\* deleted; rehash fills the new table without a rehash of its own, and its
\* assertion map2.used == nkeys holds (hashmap.c).
THEOREM NeverFull == Spec => []RehashFits
<1>1. IndInv /\ FitInv => RehashFits
  <2> SUFFICES ASSUME IndInv, FitInv PROVE RehashFits
    OBVIOUS
  <2>1. ASSUME Copying
        PROVE  Percent(used2, capacity2) < HIGH_WATERMARK /\ used2 < capacity2
    <3>1. /\ capacity2 \in Nat /\ capacity2 >= 4 /\ used2 \in Nat
          /\ Percent(nkeys, capacity2) < LOW_WATERMARK /\ used2 = Cardinality(Passed(ri))
      BY <2>1 DEF FitInv, Copying, IndInv, TypeOK
    <3>2. nkeys \in Nat /\ used2 <= nkeys
      <4>1. IsFiniteSet(Live(buckets)) /\ nkeys \in Nat
        BY Finite DEF IndInv, TypeOK, Table, nkeys
      <4>2. Passed(ri) \in SUBSET Live(buckets)
        BY DEF Passed
      <4> QED BY <3>1, <4>1, <4>2, FS_Subset DEF nkeys
    <3>3. Percent(used2, capacity2) < HIGH_WATERMARK
      BY <3>1, <3>2, Watermarks, FewerIsBelow
    <3>4. used2 + 1 < capacity2
      BY <3>1, <3>3, Watermarks, Room
    <3> QED BY <3>1, <3>3, <3>4
  <2>2. ASSUME pc = "copy", ri = capacity
        PROVE  used2 = nkeys
    BY <2>2, AllPassed DEF FitInv, Copying, nkeys
  <2> QED BY <2>1, <2>2 DEF RehashFits, FitInv, Copying
<1>2. Spec => [](IndInv /\ FitInv)
  BY InitInd, NextInd, FitInit, FitInductive, PTL DEF Spec
<1> QED BY <1>1, <1>2, PTL

=============================================================================
