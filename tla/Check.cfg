SPECIFICATION CheckSpec
CONSTANTS
  Replicas = {n1, n2, n3}
  Keys = {k1}
  ClusterKey = "__CLUSTER__"
  MaxWrites = 3
  LifecycleEvents = TRUE
INVARIANTS ConvergedIsTrue 
