---------------------------- MODULE MCDirectives ----------------------------
(* Every source file of at most five lines without #include; and a header of *)
(* at most five lines included twice, directly and from itself, with its     *)
(* guard macro defined, undefined or kept in between.                        *)
EXTENDS Directives

L(d, n) == [d |-> d, n |-> n]
Upto(n, S) == UNION {[1..i -> S] : i \in 0..n}

Lines == {L("if", "A"), L("if", "B"), L("elif", "A"), L("elif", "B"), L("else", ""), L("endif", ""),
          L("define", "A")}
OneTrees == { [f \in {"main"} |-> ls \o <<L("text", "")>>] : ls \in Upto(5, Lines) }

HeaderLines == {L("ifndef", "G"), L("if", "G"), L("else", ""), L("endif", ""), L("text", ""), L("define", "G")}
Headers == {<<first>> \o ls : first \in {L("ifndef", "G"), L("once", "")}, ls \in Upto(4, HeaderLines \cup {L("include", "h")})}
Include == L("include", "h")
Mains == { <<Include, l, Include>> : l \in {L("text", ""), L("undef", "G"), L("define", "G"), L("if", "G")} }
TwoTrees == { [f \in {"main", "h"} |-> IF f = "h" THEN h ELSE m] : h \in Headers, m \in Mains }
MCTrees == OneTrees \cup TwoTrees
=============================================================================
