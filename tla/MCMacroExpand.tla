--------------------------- MODULE MCMacroExpand ---------------------------
(* Two function-like macros, an object-like one and a built-in operator that *)
(* mention each other and themselves; every short input over their names.    *)
EXTENDS MacroExpand

Obj(body) == [kind |-> "obj", body |-> body]
Fun(body) == [kind |-> "fun", body |-> body]

FBodies == { <<"x">>, <<"x", "f">>, <<"m">>, <<"x", "##", "1">> }
GBodies == { <<>>, <<"f">>, <<"m">>, <<"m", ")">> }
MBodies == { <<"f">>, <<"f", "(", "g">>, <<"g", "(", "m">>, <<"f", "(", "f", ")">>, <<"n", "##", "1">>, <<"h">> }

MCTables == { [n \in {"f", "g", "m", "h"} |->
                CASE n = "f" -> Fun(f) [] n = "g" -> g [] n = "m" -> Obj(m)
                  [] n = "h" -> [kind |-> "has", body |-> <<>>]] :
              f \in FBodies, g \in {Obj(b) : b \in GBodies} \cup {Fun(<<"m">>)}, m \in MBodies }
Words == {"f", "m", "(", ")"}
Short == UNION {[1..n -> Words] : n \in 0..3}
MCInputs == {<<"m">> \o s : s \in Short} \cup {<<"f", "(">> \o s : s \in Short}

(* For #if: conditions that use "defined", also from inside a macro.         *)
CondTables == { [n \in {"f", "m", "h"} |->
                  CASE n = "f" -> Fun(f) [] n = "m" -> Obj(m) [] n = "h" -> [kind |-> "has", body |-> <<>>]] :
                f \in {<<"x">>, <<"defined", "(", "x", ")">>}, m \in {<<"f">>, <<"defined", "f">>, <<"h", "(", "f", ")">>, <<"h">>} }
CondWords == {"f", "m", "(", ")", "defined"}
CondInputs == UNION {[1..n -> CondWords] : n \in 1..4}

Program(kinds, tables, inputs) == [kind : kinds, macros : tables, input : inputs]
MCPrograms == Program({"root"}, MCTables, MCInputs) \cup Program({"cond"}, CondTables, CondInputs)

MCGlue == << "n", "1" >> :> "m" @@ << "1", "1" >> :> "1" @@ << "m", "1" >> :> "f"
=============================================================================
