---------------------------- MODULE Conditionals ----------------------------
(* What conditional inclusion promises: every #if, taken or skipped, opens a  *)
(* group, at most one part of a group has its turn, and a line is compiled   *)
(* exactly when every open group is in the part whose turn it is.            *)
EXTENDS Integers, Sequences, SequencesExt

VARIABLES groups,   \* the open groups, the innermost last
          compiled  \* the lines compiled so far

Active(gs) == \A i \in 1..Len(gs) : gs[i].turn = "now"

(* "later": no part of the group has had its turn; "past": one has, or the   *)
(* whole group stands in a part that has no turn.                            *)
Group(gs, c) == [turn |-> IF ~Active(gs) THEN "past" ELSE IF c THEN "now" ELSE "later",
                 is_else |-> FALSE]
Open(gs, c) == Append(gs, Group(gs, c))

(* The part after #elif or #else, whose condition is c, follows.             *)
MayTurn(gs) == gs # <<>> /\ (Active(Front(gs)) => ~Last(gs).is_else)
Turned(g, c, is_else) ==
  [turn    |-> IF g.turn = "later" THEN (IF c THEN "now" ELSE "later") ELSE "past",
   is_else |-> is_else]
Turn(gs, c, is_else) ==
  IF Active(Front(gs)) THEN Append(Front(gs), Turned(Last(gs), c, is_else)) ELSE gs

Init == groups = <<>> /\ compiled = <<>>

If == \E c \in BOOLEAN : groups' = Open(groups, c) /\ UNCHANGED compiled

Elif == /\ MayTurn(groups)
        /\ \E c \in BOOLEAN : groups' = Turn(groups, c, FALSE)
        /\ UNCHANGED compiled

Else == MayTurn(groups) /\ groups' = Turn(groups, TRUE, TRUE) /\ UNCHANGED compiled

Endif == groups # <<>> /\ groups' = Front(groups) /\ UNCHANGED compiled

(* Any line that is not part of the conditionals themselves.                 *)
Compile == /\ Active(groups)
           /\ compiled' # <<>> /\ compiled' = Append(compiled, Last(compiled'))
           /\ UNCHANGED groups

Next == If \/ Elif \/ Else \/ Endif \/ Compile
Spec == Init /\ [][Next]_<<groups, compiled>>
=============================================================================
