SPECIFICATION PartSpec
CONSTANTS
  Handlers = {h, i}
  MaxBegins = 4
  MaxDeaths = 1
  MaxReads = 1
  Runs = {r1, r2, r3}
  Shapes = {"report", "drifted"}
  MaxAsks = 2
  Cases = {"small", "large"}
  Risk <- MCRisk
  MaxAttempts = 2
  MaxSummaries = 1
INVARIANT RecoveryRateIsARate
CHECK_DEADLOCK FALSE
