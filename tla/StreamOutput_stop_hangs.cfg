SPECIFICATION Spec
PROPERTIES StopReturns
CHECK_DEADLOCK FALSE
CONSTANTS
  UI = ui
  Ends = {e1}
  Reconnects = {r1}
  Connects = {c1}
  Sends = {s1}
  Others = {c1, s1}
  Faults = {"send"}
  RetryMax = 1
  SlowTimer = TRUE
  MaxStarts = 1
  MaxStops = 1
