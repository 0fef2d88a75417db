SPECIFICATION Spec
CONSTANTS
  Handlers = {h}
  MaxBegins = 2
  MaxDeaths = 0
  MaxReads = 1
PROPERTY TimelineIsComplete
CHECK_DEADLOCK FALSE
