------------------------------ MODULE MCHashMap ------------------------------
EXTENDS HashMap, TLC

CONSTANTS k1, k2, v1, v2

\* The names collide in every table, from the last bucket of the smallest on.
\* Two are enough: a table of four is too full with both and a tombstone, or
\* with one and two tombstones, so it is doubled and it is purged.
HashOf == k1 :> 3 @@ k2 :> 3
=============================================================================
