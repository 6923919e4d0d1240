----------------------------- MODULE MCTmpStack -----------------------------
(* TmpStack for TLC; the instances differ in the temporaries they mix. *)
EXTENDS TmpStack
=============================================================================
