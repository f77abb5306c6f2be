-------------------------- MODULE MCGossipRuntime --------------------------
EXTENDS GossipRuntime

MCInitPeers == [n \in Nodes |-> {p \in Nodes : p < n}]

AllRequests == [crashed : BOOLEAN, drop : BOOLEAN, partition : {{}, Nodes}]

(* A partition, and the request that ends it.                              *)
PartitionAndHeal ==
  [crashed : {FALSE}, drop : {FALSE}, partition : {Nodes, {}}]

=============================================================================
