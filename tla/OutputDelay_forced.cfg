SPECIFICATION Spec
CONSTANTS
  Encoders = {v, a}
  Delay = 1
  Preserve = FALSE
  RetryMax = 1
  Restart = FALSE
  MaxTime = 4
  MaxStarts = 2
  MaxStops = 2
PROPERTIES ForcedStopHolds
CHECK_DEADLOCK FALSE
