SPECIFICATION Spec
INVARIANTS StreamGoesOn NoSilentLoss
PROPERTIES ReconnectEnds
CHECK_DEADLOCK FALSE
CONSTANTS
  UI = ui
  Ends = {e1, e2}
  Reconnects = {r1, r2}
  Connects = {c1, c2}
  Sends = {s1, s2}
  Others = {c1, c2, s1, s2}
  Faults = {"connect", "send"}
  RetryMax = 2
  SlowTimer = TRUE
  MaxStarts = 1
  MaxStops = 0
