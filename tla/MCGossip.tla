------------------------------ MODULE MCGossip ------------------------------
(* Instances of Gossip for TLC: node 1 registered first and knows nobody,  *)
(* the others registered after it and know their predecessors.             *)
EXTENDS Gossip

MCInitPeers == [n \in Nodes |-> {p \in Nodes : p < n}]

=============================================================================
