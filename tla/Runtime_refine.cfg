SPECIFICATION Spec
CONSTANTS
  Nodes = {1, 2}
  Keys = {k1}
  GossipInterval = 1
  InitPeers <- MCInitPeers
  Capacity = 1
  MaxQueue = 2
  MaxWrites = 1
  Requests <- AllRequests
  Swaps = TRUE
  MaxCommands = 1
PROPERTY ImplementsGossip
