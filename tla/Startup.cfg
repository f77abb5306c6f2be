SPECIFICATION FairSpec
CONSTANTS
  n1 = n1
  n2 = n2
  Nodes = {n1, n2}
  Given <- FirstIsGiven
  Loadable = {"gossip", "baseline"}
  Assignable = {"gossip", "raft"}
  Commanded = {"baseline", "raft"}
  Watched = {n1}
  MaxCommands = 1
INVARIANTS PeersMeet PanicNeedsOverlap  RecordFollowsSwap
PROPERTY KnowledgeIsMutual
CHECK_DEADLOCK FALSE
