SPECIFICATION Spec
CONSTANTS
  Runs = {r1, r2}
  Shapes = {"report", "drifted"}
  MaxRequests = 1
INVARIANT DriftIsLoud
CHECK_DEADLOCK FALSE
