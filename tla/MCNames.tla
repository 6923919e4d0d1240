------------------------------ MODULE MCNames ------------------------------
(***************************************************************************)
(* Two spellings, the second of which begins with the prefix of A.  B is   *)
(* declared inside A or beside it; a second text for A has to be refused.  *)
(***************************************************************************)
EXTENDS Names

MCIdents == {<<"i">>, <<"A_", "i">>}
MCNpDecls == {<<<<"A">>, <<"A_">>>>, <<<<"A">>, <<"B_">>>>, <<<<"A", "B">>, <<"B_">>>>,
              <<<<"B">>, <<"A_">>>>, <<<<"_Global", "B">>, <<"B_">>>>}
MCPaths == {<<"A">>, <<"B">>, <<"A", "B">>, <<"_Global", "A">>}
MCCaptureLists == {<<<<"A">>>>, <<<<"B">>, <<"A">>>>}
MCAliasDecls == {<<"A", <<"B">>>>}
MCAlpha == {"A_", "B_", "i"}
=============================================================================
