SPECIFICATION Spec
CONSTANTS
  Runs = {r1, r2}
  Shapes = {"report", "comparison"}
  MaxRequests = 1
INVARIANT StrayIsSkipped
CHECK_DEADLOCK FALSE
