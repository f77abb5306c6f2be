SPECIFICATION FairSpec
CONSTANTS
  Clients = {a, b}
  Nodes = {n1}
  Capacity = 1
  Submitted <- Everything
  Script <- Scenario
  MaxCommands = 3
  MaxProcesses = 2
  MaxRuns = 1
INVARIANTS OneReplyEach OneProcessUnlessErased StopSparesOnlyLateStarts
PROPERTIES  SessionIsSealed
CHECK_DEADLOCK FALSE
