SPECIFICATION PartSpec
CONSTANTS
  MaxRetryCount = 2
  MaxWindowDays = 2
  MaxContacts = 1
  MinConfidence = 55
  HighValueAmount = 5
  HighValueConfidence = 75
  MaxAmount = 7
  MaxAttempts = 3
  MaxDays = 4
  Contacts = {0, 1, 2}
  Confidences = {0, 54, 55, 74, 75}
  Amounts <- MCAmounts
  Counts = {1, 7}
  Limits = {1, 2, 3}
  FileCases = 1
  Rates <- ScoredRates
  Days = {0, 2, 7, 14, 15}
  Owed = {5000, 500000}
  Answers = {54, 55, 74, 75}
  Count <- MCCount
  Scripted = FALSE
  RunnerIsOn = TRUE
  Recommended = {0, 54, 55, 100}
INVARIANTS
  VerdictIsLegal
  RecheckAgrees
  WayOutRemains
  SafetyAgreesWithPolicy
  StatusIsHonest
  LimitsHoldForAnyModel
PROPERTY BlockedStaysBlocked
CHECK_DEADLOCK FALSE
