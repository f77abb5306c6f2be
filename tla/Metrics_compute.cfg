SPECIFICATION ComputeSpec
CONSTANTS
  NodeIds = {n1, n2, n3}
  States = {1, 2}
  Times = {0, 1, 2}
  Length = 2
INVARIANTS ModeIsLeast FirstTimes AreaIsStaleTime
