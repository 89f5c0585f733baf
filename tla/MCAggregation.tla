--------------------------- MODULE MCAggregation ---------------------------
(* Values for the constants of Aggregation: four processes on one node, on *)
(* two nodes of two in an order of the launcher's, or on nodes of their    *)
(* own; words of three bits, where two samples of 5 overflow.              *)
EXTENDS Aggregation

OneNode == [r \in 0..3 |-> 0]
Blocks == [r \in 0..3 |-> r \div 2]
Cyclic == [r \in 0..3 |-> r % 2]
Spread == [r \in 0..3 |-> r]

EvenPlacements == {OneNode, Blocks, Cyclic, Spread}
CyclicOnly == {Cyclic}
Types == {"self_post", "node_post"}
Values == {2, 5}
=============================================================================
