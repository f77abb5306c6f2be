SPECIFICATION FairSpec
CONSTANTS
  Nodes = {1, 2}
  Known <- KnownByTheFirst
  HeartbeatInterval = 2
  TimeoutTicks = 6
  Drift = 1
  MaxCrashes = 1
  MaxCuts = 1
INVARIANTS NoFalseSuspicion DeadMeansSilent
PROPERTIES CrashIsNoticed AliveAgainOrBothDead
