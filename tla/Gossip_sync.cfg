SPECIFICATION SyncSpec
CONSTANTS
  Nodes = {1, 2, 3}
  Keys = {k1}
  Times = {1}
  GossipInterval = 1
  InitPeers <- MCInitPeers
  MaxWrites = 4
  MaxMsgs = 1
INVARIANTS LastWriteWins 
PROPERTIES CausalOrderRespected ImplementsLWWStore
