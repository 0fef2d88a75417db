SPECIFICATION FairTroubledSpec
CONSTANTS
  NCases = 3
  Cases = {1, 2, 3}
  Due <- MCDue
  Cycles = {task}
  Runner = task
  MaxDiscover = 2
  MaxDiagnose = 2
  ExecuteLimits = {0, 1, 2}
  MaxAborts = 1
  MaxErrors = 1
  MaxFails = 1
  MaxServed = 1
INVARIANT BudgetKept
PROPERTIES
  CyclesFollowLifecycle
  DrainAsksOnce
  DiscoveredIsDecided
  ApprovedIsExecuted
CHECK_DEADLOCK FALSE
