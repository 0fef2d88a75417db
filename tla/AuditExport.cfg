SPECIFICATION Spec
CONSTANTS
  Handlers = {h}
  MaxBegins = 3
  MaxDeaths = 0
  MaxReads = 0
INVARIANT FinalOutcomeIsFinal
CHECK_DEADLOCK FALSE
