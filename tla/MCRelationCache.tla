-------------------------- MODULE MCRelationCache --------------------------
(* Scripts as the drivers get them: single statements, dbt's transaction   *)
(* steps, and batches that cross a transaction's end.                      *)
EXTENDS RelationCache, TLC

CONSTANTS s1, s2

OneSchema == {Relations}
Steps == {<<"read">>, <<"write">>, <<"begin">>, <<"commit">>, <<"rollback">>}
Batches == {<<"begin", "write", "commit">>, <<"write", "begin">>, <<"commit", "begin">>,
            <<"commit", "write">>, <<"write", "write">>}
AllScripts == Steps \cup Batches
OutsideTransactions == {<<"read">>, <<"write">>, <<"write", "write">>}
FewScripts == {<<"write">>, <<"begin">>, <<"commit">>}
AdaptedOutside == {"none"} \X OutsideTransactions
AdaptedAnywhere == {"none", "open"} \X FewScripts
Symmetry == Permutations(Sessions)
=============================================================================
