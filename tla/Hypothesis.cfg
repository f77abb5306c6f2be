SPECIFICATION Spec
CONSTANTS
  Numbers = {"4001", "9091"}
  Booleans = {"true", "false"}
  Members = {"n1", "n2", "n3"}
  Steps <- AllSteps
  MaxSteps = 3
INVARIANTS PartitionSeparatesGroups   LinesSayWhatIsAsked
