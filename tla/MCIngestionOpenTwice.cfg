SPECIFICATION SceneSpec
CONSTANTS
  a = a
  b = b
  p = p
  q = q
  id1 = id1
  r1 = r1
  Callers = {a, b}
  Sweepers = {p, q}
  ProviderIds = {id1}
  References = {r1}
  NoValue = NoValue
  SweepLimit = 2
  MaxPayments = 3
  MaxAborts = 1
INVARIANT RepeatedOpenSucceeds
CHECK_DEADLOCK FALSE
