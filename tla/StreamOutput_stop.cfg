SPECIFICATION Spec
PROPERTIES StreamStops StopIsHeard StopReturns
CHECK_DEADLOCK FALSE
CONSTANTS
  UI = ui
  Ends = {e1, e2}
  Reconnects = {r1, r2}
  Connects = {c1, c2}
  Sends = {s1, s2}
  Others = {c1, c2, s1, s2}
  Faults = {"initialize", "connect", "meta", "send"}
  RetryMax = 0
  SlowTimer = FALSE
  MaxStarts = 1
  MaxStops = 2
