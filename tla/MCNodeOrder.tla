---------------------------- MODULE MCNodeOrder ----------------------------
(* Every dependency graph over three nodes, cyclic ones too, with every    *)
(* choice of ephemeral models among them; no node names itself.            *)
EXTENDS NodeOrder

ThreeNodes == 1..3

AllGraphs ==
  {[nodes |-> ThreeNodes, ephemeral |-> e, deps |-> d,
    kind |-> [n \in ThreeNodes |-> "node"], target |-> [n \in {} |-> 1], jobs |-> <<>>] :
   e \in SUBSET ThreeNodes,
   d \in {d \in [ThreeNodes -> SUBSET ThreeNodes] : \A n \in ThreeNodes : n \notin d[n]}}
=============================================================================
