SPECIFICATION CycleSpec
CONSTANTS
  NCases = 2
  Cases = {1, 2}
  Due <- MCDue
  Cycles = {task}
  Runner = task
  MaxDiscover = 2
  MaxDiagnose = 1
  ExecuteLimits = {1}
  MaxAborts = 0
  MaxErrors = 0
  MaxFails = 0
  MaxServed = 0
INVARIANT OldestFirst
CHECK_DEADLOCK FALSE
