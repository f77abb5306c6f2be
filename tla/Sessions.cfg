SPECIFICATION NodeFairSpec
CONSTANTS
  Owner = TRUE
  MaxDials = 2
  MaxFlips = 2
  Reporters = {r1}
  r1 = r1
  MaxOutages = 2
  MaxChanges = 2
INVARIANT NilClientNeedsFailure
  
CHECK_DEADLOCK FALSE
