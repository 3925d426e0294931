------------------------------ MODULE MCKWorker ------------------------------
(* Three items with distinct priorities and as many node_t blocks, so    *)
(* the list can hold all of them and an append can land on a list of    *)
(* length 0, 1 or 2 at any point of the worker's removal.               *)
EXTENDS KWorker

CONSTANTS W, I1, I2, I3

MCItems == {I1, I2, I3}
MCNodes == 1..3
MCPrio == [i \in MCItems |-> CASE i = I1 -> 1 [] i = I2 -> 2 [] OTHER -> 3]
=============================================================================
