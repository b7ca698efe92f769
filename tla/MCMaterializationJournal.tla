--------------------- MODULE MCMaterializationJournal ---------------------
(***************************************************************************)
(* Small instances of MaterializationJournal.  Writers and contents are    *)
(* interchangeable.                                                        *)
(***************************************************************************)
EXTENDS MaterializationJournal, TLC

Symmetric == Permutations(Writers) \cup Permutations(Contents) \cup Permutations(Targets)
=============================================================================
