SPECIFICATION Spec
CONSTANTS
  c1 = c1
  c2 = c2
  KeySources = {"event_id"}
  None = None
  Cases = {c1}
  Sessions = {s1, s2}
  Links = {l1, l2}
  NoiseEvents = {n1}
  Amount <- MCAmount
  FailedPayments = {c1}
  Recommendations <- MCRecommendations
  LinkOutcomes = {"paid", "underpaid", "expired", "cancelled"}
  LastDay = 2
  MaxCrashes = 1
  MaxRetryCount = 1
  MaxWindowDays = 1
  MaxContacts = 1
  MinConfidence = 55
  HighValueAmount = 2
  HighValueConfidence = 75
  MaxAmount = 3
SYMMETRY MCSymmetry
INVARIANT RetryCapEndsLoop
CHECK_DEADLOCK FALSE
