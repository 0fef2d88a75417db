SPECIFICATION Spec
CONSTANTS
  MaxRetryCount = 2
  MaxWindowDays = 2
  MaxContacts = 1
  MinConfidence = 55
  HighValueAmount = 5
  HighValueConfidence = 75
  MaxAmount = 7
  MaxAttempts = 3
  MaxDays = 4
  Contacts = {0, 1, 2}
  Confidences = {0, 54, 55, 74, 75}
  Amounts = {1, 8}
INVARIANT EscalateAlwaysAllowed
CHECK_DEADLOCK FALSE
