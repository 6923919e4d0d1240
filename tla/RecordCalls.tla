---------------------------- MODULE RecordCalls ----------------------------
(* A program that declares one record type and either accesses the members of *)
(* an object of that type or passes such objects, among scalars, in a call.   *)
EXTENDS Records, Calls

CONSTANT ScalarTypes  \* the other types of arguments

\* No scalar is aligned to more than 16 bytes.
ASSUME ScalarAssumption == ScalarTypes \subseteq Descriptors /\ \A ty \in ScalarTypes : ty.align \in {1, 2}

vars == <<recVars, callVars>>

Init == RecInit /\ types = {} /\ Idle

\* The calling convention asserts that no argument has size zero.
PassRecord ==
  /\ pc = "idle" /\ types = {}
  /\ Complete /\ rec.size > 0 /\ memory = <<>>
  /\ types' = ScalarTypes \cup {ThisRecord}
  /\ rec' = Open("struct", 0) /\ memory' = <<>> /\ written' = <<>>
  /\ UNCHANGED <<call, pc, i, count, place, param, homed, home, next, regs, stack, rsp, saved, rbp, local, va, got>>

Next ==
  \/ types = {} /\ RecNext /\ UNCHANGED callVars
  \/ PassRecord
  \/ types # {} /\ CallNext /\ UNCHANGED recVars

Spec == Init /\ [][Next]_vars
=============================================================================
