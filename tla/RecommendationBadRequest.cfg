SPECIFICATION RecommendationSpec
CONSTANTS
  MaxRetryCount = 2
  MaxWindowDays = 2
  MaxContacts = 1
  MinConfidence = 0
  HighValueAmount = 5
  HighValueConfidence = 75
  MaxAmount = 7
  MaxRetries = 1
  Confidences = {0, 74, 75}
  Amounts = {0, 4, 5, 8}
  Attempts = {0, 2}
INVARIANT RetryOnlyTransient
CHECK_DEADLOCK FALSE
