---------------------------- MODULE AbstractMap ----------------------------
(***************************************************************************)
(* What the callers of hashmap.c rely on: a partial map from names to      *)
(* values.  A call takes effect once, between its start and its return.    *)
(***************************************************************************)
CONSTANTS Key, Val, NULL

VARIABLES
  dict,   \* the value of each name, NULL for a name without one
  op,     \* the call in progress, NULL between calls
  ret     \* what the call that just returned returned

vars == <<dict, op, ret>>

\* hashmap_put2, hashmap_get2 and hashmap_delete2.  An "intern" is
\* hashmap_get_or_insert by a caller that fills in the entry's value when it
\* finds none and uses the one it finds otherwise.
Request == [kind : {"put", "intern"}, key : Key, val : Val]
           \cup [kind : {"get", "delete"}, key : Key, val : {NULL}]

Init == dict = [k \in Key |-> NULL] /\ op = NULL /\ ret = NULL

Call(o) == op = NULL /\ op' = o /\ ret' = NULL /\ UNCHANGED dict

Stored(o, old) ==
  CASE o.kind = "put"    -> o.val
    [] o.kind = "get"    -> old
    [] o.kind = "delete" -> NULL
    [] o.kind = "intern" -> IF old = NULL THEN o.val ELSE old

Return ==
  /\ op # NULL
  /\ dict' = [dict EXCEPT ![op.key] = Stored(op, @)]
  /\ ret' = IF op.kind \in {"get", "intern"} THEN dict[op.key] ELSE NULL
  /\ op' = NULL

Next == (\E o \in Request : Call(o)) \/ Return

Spec == Init /\ [][Next]_vars
=============================================================================
