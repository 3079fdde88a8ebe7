----------------------- MODULE MCDiscoveryAggregation -----------------------
(* DiscoveryDeployment on four events of two cells and two viewers, in an  *)
(* order that makes two batches of two meet the cells the other way round. *)
EXTENDS DiscoveryDeployment, TLC

CONSTANTS c1, c2, v1, v2

Cells == [e \in 1..MaxEvent |-> IF e \in {1, 4} THEN c1 ELSE c2]

Owners == [e \in 1..MaxEvent |-> IF e = 2 THEN v2 ELSE v1]
=============================================================================
