SPECIFICATION FairSpec
CONSTANTS
  Nodes = {1, 2}
  HeartbeatInterval = 2
  CleanupTimeout = 3
  StartDelay = 1
  Operators = {"fault", "crash", "partition", "add", "remove"}
  MaxCommands = 2
  MaxStarts = 2
 
PROPERTIES HealthyNodesStay DeadNodesLeave CrashIsShown
