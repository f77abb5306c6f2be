SPECIFICATION FairSpec
CONSTANTS
  Nodes = {1, 2}
  Keys = {k1}
  GossipInterval = 1
  InitPeers <- MCInitPeers
  Capacity = 1
  MaxQueue = 2
  MaxWrites = 1
  Requests <- PartitionAndHeal
  Swaps = FALSE
  MaxCommands = 2
PROPERTIES Convergence ReactorNeverStuck
CHECK_DEADLOCK FALSE
